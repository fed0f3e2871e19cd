---------------------------- MODULE ScanRecord ----------------------------
(***************************************************************************)
(* What the scan endpoint promises about the record of a scan, with no     *)
(* pool, no transaction, no process memory and no control flow: a run is   *)
(* opened once, closed once, its findings appear together with the         *)
(* "completed" status, and nothing is written on its behalf after its      *)
(* caller was answered or lost.  ScanLifecycle implements this module.     *)
(***************************************************************************)
EXTENDS Naturals

CONSTANTS Scans,      \* the scan requests
          NModules    \* findings of a whole sweep

VARIABLES record,     \* status of the recorded run
          findings,   \* how many findings are recorded with it
          answer      \* what the caller was told, "none" while it waits

vars == <<record, findings, answer>>

Statuses == {"none", "running", "completed", "failed", "deleted"}

Answers == {"saved", "memory", "notfound", "sweep_error", "save_error", "error"}

(* What each answer says of the record: a caller told "saved" has a complete *)
(* run, a caller told of a failed sweep has none, and so on.  "error" is the *)
(* answer of an unexpected exception: it promises nothing.                   *)
MayAccompany(a) ==
    CASE a = "saved"                  -> {"completed", "deleted"}
      [] a \in {"memory", "notfound"} -> {"none"}
      [] a = "sweep_error"            -> Statuses \ {"completed"}
      [] a = "save_error"             -> {"running", "completed", "deleted"}
      [] a = "error"                  -> Statuses

Init ==
    /\ record = [s \in Scans |-> "none"]
    /\ findings = [s \in Scans |-> 0]
    /\ answer = [s \in Scans |-> "none"]

(* The run is recorded before its diagnostics execute. *)
Open(s) ==
    /\ answer[s] = "none"
    /\ record[s] = "none"
    /\ record' = [record EXCEPT ![s] = "running"]
    /\ UNCHANGED <<findings, answer>>

(* All findings and the final status become visible in one step. *)
Complete(s) ==
    /\ answer[s] = "none"
    /\ record[s] = "running"
    /\ record' = [record EXCEPT ![s] = "completed"]
    /\ findings' = [findings EXCEPT ![s] = NModules]
    /\ UNCHANGED answer

Fail(s) ==
    /\ answer[s] = "none"
    /\ record[s] = "running"
    /\ record' = [record EXCEPT ![s] = "failed"]
    /\ UNCHANGED <<findings, answer>>

Answer(s) ==
    /\ answer[s] = "none"
    /\ \E a \in Answers :
          /\ record[s] \in MayAccompany(a)
          /\ answer' = [answer EXCEPT ![s] = a]
    /\ UNCHANGED <<record, findings>>

(* A crash of the server: some callers are never answered. *)
Lose(S) ==
    /\ \A s \in S : answer[s] = "none"
    /\ answer' = [s \in Scans |-> IF s \in S THEN "lost" ELSE answer[s]]
    /\ UNCHANGED <<record, findings>>

(* The operator deletes a target connection and the runs that belong to it. *)
Remove(S) ==
    /\ \A s \in S : record[s] # "none"
    /\ record' = [s \in Scans |-> IF s \in S THEN "deleted" ELSE record[s]]
    /\ findings' = [s \in Scans |-> IF s \in S THEN 0 ELSE findings[s]]
    /\ UNCHANGED answer

Next ==
    \/ \E s \in Scans : Open(s) \/ Complete(s) \/ Fail(s) \/ Answer(s)
    \/ \E S \in SUBSET Scans : Lose(S) \/ Remove(S)

Spec == Init /\ [][Next]_vars

---------------------------------------------------------------------------
(* Nothing is written on behalf of a run whose caller was answered or lost,  *)
(* and nobody is answered twice: whoever acts on an answer (runs the scan    *)
(* again, say) does not find it overtaken.  Only the operator's delete may   *)
(* still come.                                                               *)
AnswerIsFinal ==
    [][\A s \in Scans : answer[s] # "none" =>
          /\ answer'[s] = answer[s]
          /\ record'[s] \in {record[s], "deleted"}
          /\ findings'[s] \in {findings[s], 0}]_vars
============================================================================
