------------------------------ MODULE RlsReport ------------------------------
(***************************************************************************)
(* What a report says of an inspection: reporting/findings.py takes the    *)
(* stored payload of RlsDebug and derives a probable cause and a caveat by *)
(* a decision tree of its own, the third over the same data after the      *)
(* endpoint's Explanation and the scan's Severity.                         *)
(***************************************************************************)
EXTENDS RlsDebug

WhitespaceSeen == \E i \in detected_issues : i.kind = "whitespace"

(* probable_cause *)
Cause ==
    IF ~rls_enabled THEN "rls_disabled"
    ELSE IF RowVisibility = "readable" THEN IF WhitespaceSeen THEN "whitespace" ELSE "clean"
    ELSE IF RowVisibility = "unknown" THEN "none"
    ELSE RowVisibility

(* Fault: the caveat belongs to the branch that found no defect in a table   *)
(* without one, and asks for a connection that was not used.                 *)
CaveatOfDefects ==
    IF ~rls_enabled THEN "none"
    ELSE IF RowVisibility \in {"no_policy_applies", "no_privilege", "rls_filtered"} THEN "not_run"
    ELSE IF RowVisibility = "readable" /\ WhitespaceSeen /\ Source = "read_only"
         THEN "visible_only" ELSE "none"

(* scope_caveat: the whitespace checks did not run, or saw visible rows only. *)
Caveat ==
    IF ~rls_enabled THEN "none"
    ELSE IF RowVisibility \in {"no_policy_applies", "no_privilege", "rls_filtered"} THEN "not_run"
    ELSE IF RowVisibility = "readable" /\ Source = "read_only" THEN "visible_only"
    ELSE "none"

(* A verdict of OK that rests on the rows the role was let see says so, also *)
(* in the report, which learns of it through another tree: "Any row this     *)
(* policy hides was not inspected, which is exactly where a defect of this   *)
(* kind would sit unnoticed" (findings.py).                                  *)
PartialViewIsDisclosed ==
    Reported /\ Severity = "ok" /\ Source = "read_only" =>
        Cause = "clean" /\ Caveat = "visible_only"
============================================================================
