----------------------------- MODULE ScanReport ------------------------------
(***************************************************************************)
(* What run_full_scan promises of its diagnostics: each of them gets one   *)
(* severity, in their order and whatever raises; a severity that was given *)
(* is not touched again by what comes after it; and the sweep is over with *)
(* the last one, never before.                                             *)
(***************************************************************************)
EXTENDS Naturals, Sequences

CONSTANTS
    Order,          \* the diagnostics
    Severities

VARIABLES
    verdict,        \* the severity of each, or "none" yet
    over            \* the sweep has come back

Diagnostics == {Order[i] : i \in DOMAIN Order}

Init ==
    /\ verdict = [m \in Diagnostics |-> "none"]
    /\ over = FALSE

(* The next one gets its severity. *)
Give(i, severity) ==
    /\ \A j \in DOMAIN Order : verdict[Order[j]] # "none" <=> j < i
    /\ verdict' = [verdict EXCEPT ![Order[i]] = severity]
    /\ over' = (i = Len(Order))

Next == \E i \in DOMAIN Order, severity \in Severities : Give(i, severity)

Spec == Init /\ [][Next]_<<verdict, over>>
============================================================================
