------------------------------ MODULE FullScan ------------------------------
(***************************************************************************)
(* One sweep by run_full_scan: five diagnostics of a target, one after the *)
(* other, each a few statements outside any transaction, so the target may *)
(* change between two of them.  A diagnostic that raises yields a result   *)
(* too, with the error as its evidence.  What a verdict and a report make  *)
(* of the evidence are operators below; RlsDebug models the second         *)
(* diagnostic, of which a sweep knows the severity only.                   *)
(*                                                                         *)
(* A narration comes after its verdict and changes nothing of it.          *)
(***************************************************************************)
EXTENDS Integers, Sequences

CONSTANTS
    Targets,      \* the states the target database can be in
    MaxChanges    \* bound on its changes during the sweep

Horizon == 2000000000

(* What PostgreSQL has to show.  A backend or a statement of another role is *)
(* legible when the role reads all statistics.                               *)
Backends == [state : {"active", "idle in transaction"}, lock : BOOLEAN, mine : BOOLEAN]
Queries == [mean : {"fast", "slow", "stalled"}, mine : BOOLEAN]
Buckets == {"private", "public"}

(* buckets_access: no storage.buckets, one the role holds no privilege on,   *)
(* one it may write but not read, one it may read.  bucket_policies,         *)
(* object_policies: there are any.  crowded: more than 80 connections.       *)
TargetStates ==
    [ages : SUBSET (0..Horizon), tables : BOOLEAN,
     backends : SUBSET Backends, crowded : BOOLEAN, reads_all_stats : BOOLEAN,
     buckets_access : {"absent", "hidden", "listed", "select"}, buckets_rls : BOOLEAN,
     bucket_policies : BOOLEAN, buckets : SUBSET Buckets, visible : SUBSET Buckets,
     object_policies : BOOLEAN,
     installed : BOOLEAN, queries : SUBSET Queries]

ASSUME TargetsAssumption == Targets \subseteq TargetStates
ASSUME VisibleAssumption == \A t \in Targets : t.visible \subseteq t.buckets
ASSUME ChangesAssumption == MaxChanges \in Nat

VARIABLES
    target, changes,
    at,                 \* the next statement
    results,            \* the diagnostics that have a result
    failed,             \* those whose result is an error
    vacuum,             \* ages of the rows of pg_class
    rls,                \* severity of the second diagnostic
    connections,        \* rows of pg_stat_activity
    storage,            \* raw_result of the storage audit
    slow                \* raw_result of the slow query check

evidence == <<vacuum, rls, connections, storage, slow>>
vars == <<target, changes, at, results, failed, evidence>>

Order == <<"vacuum_wraparound", "rls_debug", "connection_health", "storage_audit", "slow_queries">>
Modules == {Order[i] : i \in 1..5}
Done == {results[i] : i \in DOMAIN results}

Rows == [state : {"active", "idle in transaction", "NULL"}, lock : BOOLEAN, redacted : BOOLEAN]
Activities == [rows : SUBSET Rows, crowded : BOOLEAN]
Audit == [present : BOOLEAN, can_select : BOOLEAN, rls_enabled : BOOLEAN, policies : BOOLEAN,
          buckets : SUBSET Buckets, read_error : BOOLEAN, object_policies : BOOLEAN]
Profile == [installed : BOOLEAN, readable : BOOLEAN,
            queries : SUBSET [mean : {"fast", "slow", "stalled"}, redacted : BOOLEAN]]

Legible(t, x) == x.mine \/ t.reads_all_stats

(* pg_stat_activity withholds the state of another role's backend;           *)
(* pg_stat_statements the text of its statements, not their timing.          *)
Row(t, b) ==
    IF Legible(t, b) THEN [state |-> b.state, lock |-> b.lock, redacted |-> FALSE]
    ELSE [state |-> "NULL", lock |-> FALSE, redacted |-> TRUE]
Activity(t) == [rows |-> {Row(t, b) : b \in t.backends}, crowded |-> t.crowded]
Statements(t) == {[mean |-> q.mean, redacted |-> ~Legible(t, q)] : q \in t.queries}

Init ==
    /\ target \in Targets
    /\ changes = 0
    /\ at = "vacuum"
    /\ results = <<>>
    /\ failed = {}
    /\ vacuum = {}
    /\ rls = "info"
    /\ connections = [rows |-> {}, crowded |-> FALSE]
    /\ storage = [present |-> FALSE, can_select |-> FALSE, rls_enabled |-> FALSE,
                  policies |-> FALSE, buckets |-> {}, read_error |-> FALSE,
                  object_policies |-> FALSE]
    /\ slow = [installed |-> FALSE, readable |-> FALSE, queries |-> {}]

---------------------------------------------------------------------------
(* The verdicts *)

(* pct_to_wraparound in hundredths of a per cent, rounded. *)
Pct(age) == (age + 100000) \div 200000

(* Fault: the bounds are exclusive. *)
VacuumExclusive ==
    IF vacuum = {} THEN "no_tables"
    ELSE IF \E a \in vacuum : Pct(a) > 8000 \/ a > 1600000000 THEN "critical"
    ELSE IF \E a \in vacuum : Pct(a) > 5000 \/ a > 1000000000 THEN "warning"
    ELSE IF \E a \in vacuum : Pct(a) > 2000 THEN "info" ELSE "healthy"

VacuumClaim ==
    IF vacuum = {} THEN "no_tables"
    ELSE IF \E a \in vacuum : Pct(a) >= 8000 \/ a > 1600000000 THEN "critical"
    ELSE IF \E a \in vacuum : Pct(a) >= 5000 \/ a > 1000000000 THEN "warning"
    ELSE IF \E a \in vacuum : Pct(a) >= 2000 THEN "info" ELSE "healthy"

Redacted == \E r \in connections.rows : r.redacted

(* Fault: incomplete visibility outranks what was seen. *)
ConnectionClaimRedactedFirst ==
    IF Redacted THEN "redacted"
    ELSE IF \E r \in connections.rows : r.state = "idle in transaction" THEN "idle"
    ELSE IF \E r \in connections.rows : r.lock THEN "locks"
    ELSE IF connections.crowded THEN "many" ELSE "healthy"

ConnectionClaim ==
    IF \E r \in connections.rows : r.state = "idle in transaction" THEN "idle"
    ELSE IF \E r \in connections.rows : r.lock THEN "locks"
    ELSE IF connections.crowded THEN "many"
    ELSE IF Redacted THEN "redacted" ELSE "healthy"

(* Fault: a listing that raised counts as an empty one. *)
TrustsErrors ==
    /\ storage.can_select
    /\ storage.buckets # {} \/ ~storage.rls_enabled \/ storage.policies

ListingTrustworthy ==
    /\ storage.can_select
    /\ ~storage.read_error
    /\ storage.buckets # {} \/ ~storage.rls_enabled \/ storage.policies

(* Fault: row security is looked at before the grant. *)
StorageReasonRlsFirst ==
    IF ~storage.policies THEN "hidden"
    ELSE IF storage.read_error THEN "read_error" ELSE "no_privilege"

(* Why a listing is not trusted. *)
StorageReason ==
    IF ~storage.can_select THEN "no_privilege"
    ELSE IF storage.read_error THEN "read_error" ELSE "hidden"

StorageClaim ==
    IF ~storage.present THEN "absent"
    ELSE IF "public" \in storage.buckets /\ ~storage.object_policies THEN "public"
    ELSE IF ~ListingTrustworthy THEN StorageReason
    ELSE IF storage.buckets = {} THEN "no_buckets"
    ELSE IF ~storage.object_policies THEN "no_object_policies" ELSE "audited"

(* The slowest statement decides, and its text may be withheld. *)
SlowClaim ==
    IF ~slow.installed THEN "not_installed"
    ELSE IF ~slow.readable THEN "unreadable"
    ELSE IF slow.queries = {} THEN "nothing"
    ELSE IF \E q \in slow.queries : q.mean = "stalled" THEN "stalled"
    ELSE IF \E q \in slow.queries : q.mean = "slow" THEN "slow"
    ELSE IF \A q \in slow.queries : q.redacted THEN "unnamed" ELSE "fast"

(* The severity run_full_scan gives a diagnostic that raised. *)
FailureSeverity(m) ==
    IF m = "vacuum_wraparound" THEN "critical"
    ELSE IF m \in {"rls_debug", "connection_health"} THEN "warning" ELSE "info"

Severity(m) ==
    IF m \in failed THEN FailureSeverity(m)
    ELSE IF m = "rls_debug" THEN rls
    ELSE IF m = "vacuum_wraparound" THEN
        IF VacuumClaim \in {"no_tables", "healthy"} THEN "ok" ELSE VacuumClaim
    ELSE IF m = "connection_health" THEN
        IF ConnectionClaim = "idle" THEN "critical"
        ELSE IF ConnectionClaim = "healthy" THEN "ok" ELSE "warning"
    ELSE IF m = "storage_audit" THEN
        IF StorageClaim \in {"absent", "no_buckets"} THEN "info"
        ELSE IF StorageClaim = "audited" THEN "ok" ELSE "warning"
    ELSE IF SlowClaim = "stalled" THEN "critical"
    ELSE IF SlowClaim \in {"nothing", "fast"} THEN "ok"
    ELSE IF SlowClaim = "not_installed" THEN "info" ELSE "warning"

(* The probable cause a report computes from the stored evidence; that of a  *)
(* diagnostic that raised holds the error and no other key.                  *)
Cause(m) ==
    IF m = "vacuum_wraparound" THEN
        IF m \in failed \/ vacuum = {} THEN "no_tables" ELSE "oldest"
    ELSE IF m = "connection_health" THEN
        IF m \in failed THEN "all_legible"
        ELSE IF ConnectionClaim = "idle" THEN "idle"
        ELSE IF Redacted THEN "redacted" ELSE "all_legible"
    ELSE IF m = "storage_audit" THEN
        IF m \in failed THEN "listed"
        ELSE IF StorageClaim \in {"absent", "public"} THEN StorageClaim
        ELSE IF ~ListingTrustworthy THEN "hidden" ELSE "listed"
    ELSE IF m = "slow_queries" THEN
        IF m \in failed \/ ~slow.installed THEN "not_installed"
        ELSE IF SlowClaim \in {"unreadable", "nothing"} THEN SlowClaim ELSE "slowest"
    ELSE IF m \in failed THEN "none" ELSE "visibility"

---------------------------------------------------------------------------
(* The statements of a sweep *)

Go(from, to) == at = from /\ at' = to
Environment == <<target, changes>>

(* Module m has a result and the sweep goes on. *)
Finish(m, to) == at' = to /\ results' = Append(results, m)

CheckVacuum ==
    /\ at = "vacuum"
    /\ vacuum' = target.ages
    /\ Finish("vacuum_wraparound", "tables")
    /\ UNCHANGED <<Environment, failed, rls, connections, storage, slow>>

(* Fault: a schema without tables has no result. *)
PickTableOrNone ==
    /\ at = "tables"
    /\ at' = IF target.tables THEN "rls" ELSE "connections"
    /\ UNCHANGED <<Environment, results, failed, evidence>>

(* The sample table or the first one listed is inspected; a schema without   *)
(* tables is an INFO.                                                        *)
PickTable ==
    /\ at = "tables"
    /\ \/ target.tables /\ at' = "rls" /\ UNCHANGED results
       \/ ~target.tables /\ Finish("rls_debug", "connections")
    /\ UNCHANGED <<Environment, failed, evidence>>

DebugRls ==
    /\ at = "rls"
    /\ rls' \in {"critical", "warning", "ok"}
    /\ Finish("rls_debug", "connections")
    /\ UNCHANGED <<Environment, failed, vacuum, connections, storage, slow>>

(* Fault: a row without a state counts as legible. *)
ReadActivityBlind ==
    /\ at = "connections"
    /\ connections' = [Activity(target) EXCEPT
          !.rows = {[row EXCEPT !.redacted = FALSE] : row \in Activity(target).rows}]
    /\ Finish("connection_health", "schema")
    /\ UNCHANGED <<Environment, failed, vacuum, rls, storage, slow>>

ReadActivity ==
    /\ at = "connections"
    /\ connections' = Activity(target)
    /\ Finish("connection_health", "schema")
    /\ UNCHANGED <<Environment, failed, vacuum, rls, storage, slow>>

(* information_schema.tables lists what the role has some privilege on. *)
FindBuckets ==
    /\ at = "schema"
    /\ storage' = [storage EXCEPT !.present = target.buckets_access \in {"listed", "select"}]
    /\ \/ storage'.present /\ at' = "meta" /\ UNCHANGED results
       \/ ~storage'.present /\ Finish("storage_audit", "extension")
    /\ UNCHANGED <<Environment, failed, vacuum, rls, connections, slow>>

(* A table that was dropped meanwhile leaves no row, and both are false. *)
ReadMeta ==
    /\ Go("meta", "bucket_policies")
    /\ storage' = [storage EXCEPT
          !.can_select = target.buckets_access = "select",
          !.rls_enabled = target.buckets_access # "absent" /\ target.buckets_rls]
    /\ UNCHANGED <<Environment, results, failed, vacuum, rls, connections, slow>>

CountBucketPolicies ==
    /\ at = "bucket_policies"
    /\ storage' = [storage EXCEPT
          !.policies = target.buckets_access # "absent" /\ target.bucket_policies]
    /\ at' = IF storage.can_select THEN "buckets" ELSE "object_policies"
    /\ UNCHANGED <<Environment, results, failed, vacuum, rls, connections, slow>>

ListBuckets ==
    /\ Go("buckets", "object_policies")
    /\ target.buckets_access = "select"
    /\ storage' = [storage EXCEPT !.buckets = target.visible]
    /\ UNCHANGED <<Environment, results, failed, vacuum, rls, connections, slow>>

ListBucketsFails ==
    /\ Go("buckets", "object_policies")
    /\ storage' = [storage EXCEPT !.read_error = TRUE]
    /\ UNCHANGED <<Environment, results, failed, vacuum, rls, connections, slow>>

ReadObjectPolicies ==
    /\ at = "object_policies"
    /\ storage' = [storage EXCEPT !.object_policies = target.object_policies]
    /\ Finish("storage_audit", "extension")
    /\ UNCHANGED <<Environment, failed, vacuum, rls, connections, slow>>

FindExtension ==
    /\ at = "extension"
    /\ slow' = [slow EXCEPT !.installed = target.installed]
    /\ at' = IF target.installed THEN "statements" ELSE "available"
    /\ UNCHANGED <<Environment, results, failed, vacuum, rls, connections, storage>>

ReadAvailable ==
    /\ at = "available"
    /\ Finish("slow_queries", "end")
    /\ UNCHANGED <<Environment, failed, evidence>>

ReadStatements ==
    /\ at = "statements"
    /\ target.installed
    /\ slow' = [slow EXCEPT
          !.readable = TRUE,
          !.queries = Statements(target)]
    /\ Finish("slow_queries", "end")
    /\ UNCHANGED <<Environment, failed, vacuum, rls, connections, storage>>

ReadStatementsFails ==
    /\ at = "statements"
    /\ Finish("slow_queries", "end")
    /\ UNCHANGED <<Environment, failed, evidence>>

(* The diagnostic a statement outside every try belongs to, and what follows. *)
Interrupted ==
    IF at = "vacuum" THEN <<"vacuum_wraparound", "tables">>
    ELSE IF at \in {"tables", "rls"} THEN <<"rls_debug", "connections">>
    ELSE IF at = "connections" THEN <<"connection_health", "schema">>
    ELSE IF at \in {"schema", "meta", "bucket_policies", "object_policies"}
         THEN <<"storage_audit", "extension">>
    ELSE <<"slow_queries", "end">>

ModuleFails ==
    /\ at \notin {"buckets", "statements", "end"}
    /\ Finish(Interrupted[1], Interrupted[2])
    /\ failed' = failed \cup {Interrupted[1]}
    /\ UNCHANGED <<Environment, evidence>>

(* Other sessions and the owner change the target. *)
Change ==
    /\ at # "end"
    /\ changes < MaxChanges
    /\ changes' = changes + 1
    /\ target' \in Targets \ {target}
    /\ UNCHANGED <<at, results, failed, evidence>>

Next ==
    \/ CheckVacuum
    \/ PickTable \/ DebugRls
    \/ ReadActivity
    \/ FindBuckets \/ ReadMeta \/ CountBucketPolicies
    \/ ListBuckets \/ ListBucketsFails \/ ReadObjectPolicies
    \/ FindExtension \/ ReadAvailable \/ ReadStatements \/ ReadStatementsFails
    \/ ModuleFails
    \/ Change

Spec == Init /\ [][Next]_vars

---------------------------------------------------------------------------
(* Every variable has its type, and only diagnostics with a result failed. *)
TypeOK ==
    /\ target \in Targets
    /\ changes \in 0..MaxChanges
    /\ at \in {"vacuum", "tables", "rls", "connections", "schema", "meta", "bucket_policies",
               "buckets", "object_policies", "extension", "available", "statements", "end"}
    /\ results \in Seq(Modules)
    /\ failed \subseteq Done
    /\ vacuum \subseteq 0..Horizon
    /\ rls \in {"critical", "warning", "info", "ok"}
    /\ connections \in Activities
    /\ storage \in Audit
    /\ slow \in Profile

Clean(m) == m \in Done \ failed /\ Severity(m) = "ok"
Ran(m) == m \in Done \ failed /\ changes = 0

(* OK is true of a target nobody changed: no table is past a fifth of the    *)
(* wraparound horizon, no backend is stuck, not even one whose state the     *)
(* role cannot see, no public bucket lacks object policies, no statement is  *)
(* slow.  "Never report OK for a check that could not run" (WORK_PLAN).      *)
OkIsTrue ==
    changes = 0 =>
        /\ Clean("vacuum_wraparound") => \A a \in target.ages : a < Horizon \div 5
        /\ Clean("connection_health") =>
              \A b \in target.backends : b.state = "active" /\ ~b.lock
        /\ Clean("storage_audit") => target.buckets # {} /\ target.object_policies
        /\ Clean("slow_queries") => \A q \in target.queries : q.mean = "fast"

(* What was seen outranks what was withheld: "Confirmed problems outrank     *)
(* incomplete visibility" (connections.py, and likewise in the other two).   *)
ConfirmedOutranksHidden ==
    /\ Ran("connection_health") =>
          \A b \in target.backends : Legible(target, b) /\ b.state = "idle in transaction"
              => Severity("connection_health") = "critical"
    /\ Ran("storage_audit") /\ storage.can_select /\ ~storage.read_error =>
          ("public" \in target.visible /\ ~target.object_policies => StorageClaim = "public")
    /\ Ran("slow_queries") /\ slow.readable =>
          \A q \in target.queries : q.mean = "stalled" => Severity("slow_queries") = "critical"

(* A statement about the buckets rests on a listing that came back: neither  *)
(* a missing grant nor an error passes as an empty list.                     *)
ListingWasRead ==
    "storage_audit" \in Done \ failed
    /\ StorageClaim \in {"public", "no_buckets", "no_object_policies", "audited"}
        => storage.can_select /\ ~storage.read_error

(* The reason an INDETERMINATE gives is the true one: the states have        *)
(* different fixes.                                                          *)
ReasonIsTrue ==
    /\ Ran("connection_health") /\ ConnectionClaim = "redacted" =>
          \E b \in target.backends : ~Legible(target, b)
    /\ Ran("storage_audit") /\ StorageClaim = "no_privilege" => target.buckets_access = "listed"
    /\ Ran("storage_audit") /\ StorageClaim = "hidden" =>
          target.buckets_rls /\ ~target.bucket_policies /\ target.visible = {}
    /\ Ran("slow_queries") /\ SlowClaim = "not_installed" => ~target.installed
    /\ Ran("slow_queries") /\ SlowClaim = "unnamed" =>
          \A q \in target.queries : ~Legible(target, q)

(* FullScan implements ScanReport.  The severity of a module is computed     *)
(* from the evidence and the failures there are, so that a later diagnostic  *)
(* could change it.                                                          *)
Verdict(m) == IF m \in Done THEN Severity(m) ELSE "none"

Promise == INSTANCE ScanReport
              WITH Severities <- {"critical", "warning", "info", "ok"},
                   verdict <- [m \in Modules |-> Verdict(m)], over <- (at = "end")

(* A sweep has one result for each of the five diagnostics, in their order,  *)
(* whatever raised; what it says of one stands when a later one fails or     *)
(* finds the target changed; and it is over with the last, never before.     *)
ImplementsScanReport == Promise!Spec

(* "No Supabase Storage buckets are configured in the target database        *)
(* (listing verified readable)" (storage_audit.py, analyze_storage_results). *)
NoBucketsIsTrue ==
    Ran("storage_audit") /\ StorageClaim = "no_buckets" => target.buckets = {}

(* "probable_cause is derived here from the diagnostic payload" and "a check *)
(* that could not run is never reported as passing" (findings.py, WORK_PLAN):*)
(* a report says nothing of a target that was not looked at.                 *)
CauseIsObserved == \A m \in failed : Cause(m) = "none"
============================================================================
