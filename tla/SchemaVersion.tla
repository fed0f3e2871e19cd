---------------------------- MODULE SchemaVersion -----------------------------
(***************************************************************************)
(* What run_migrations.py promises of a database, with no tracking table,  *)
(* no transaction and no second look: the schema has a version, which goes *)
(* up by one file at a time and never down, and a runner reports success   *)
(* only of the last one.  Migrations implements this module.               *)
(***************************************************************************)
EXTENDS Naturals

CONSTANTS Runners,    \* processes that migrate the database
          NFiles      \* versions are 0, an empty database, to NFiles

VARIABLES content,    \* how often each file took effect
          reported    \* the runners that say the schema is up to date

vars == <<content, reported>>

(* The content of version v: the first v files, each once. *)
UpTo(v) == [f \in 1..NFiles |-> IF f <= v THEN 1 ELSE 0]

Init == content = UpTo(0) /\ reported = {}

(* The next file takes effect; a runner may report the last one with it. *)
Upgrade ==
    \E v \in 1..NFiles :
        /\ content = UpTo(v - 1)
        /\ content' = UpTo(v)
        /\ \/ UNCHANGED reported
           \/ v = NFiles /\ \E m \in Runners : reported' = reported \cup {m}

(* A runner that finds nothing left to do. *)
Report ==
    /\ content = UpTo(NFiles)
    /\ \E m \in Runners : reported' = reported \cup {m}
    /\ UNCHANGED content

(* A runner is started again. *)
Again ==
    /\ \E m \in Runners : reported' = reported \ {m}
    /\ UNCHANGED content

Next == Upgrade \/ Report \/ Again

Spec == Init /\ [][Next]_vars
============================================================================
