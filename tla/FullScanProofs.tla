--------------------------- MODULE FullScanProofs ---------------------------
(***************************************************************************)
(* What a sweep of FullScan guarantees for every set of target states and  *)
(* any number of changes during it: it keeps the promise of ScanReport,    *)
(* and its verdicts are true of a target that nobody changed.              *)
(***************************************************************************)
EXTENDS FullScan, SequenceTheorems, TLAPS

(* Steps of the storage audit after which a reading of it is there. *)
AfterListing == {"object_policies"}
AfterCount == AfterListing \cup {"buckets"}
AfterMeta == AfterCount \cup {"bucket_policies"}
AfterSchema == AfterMeta \cup {"meta"}
Audited == at \in {"extension", "available", "statements", "end"}
Profiled == at = "end"
Observed == at \notin {"vacuum", "tables", "rls", "connections"}

AuditKept == Audited /\ "storage_audit" \notin failed

(* Where a sweep is determines which diagnostics have a result, and one that *)
(* failed is past.                                                           *)
Progress ==
    /\ at = "vacuum" => results = <<>>
    /\ at \in {"tables", "rls"} => results = <<"vacuum_wraparound">>
    /\ at = "connections" => results = <<"vacuum_wraparound", "rls_debug">>
    /\ at \in {"schema"} \cup AfterSchema
          => results = <<"vacuum_wraparound", "rls_debug", "connection_health">>
    /\ at \in {"extension", "available", "statements"}
          => results = <<"vacuum_wraparound", "rls_debug", "connection_health", "storage_audit">>
    /\ at = "end" => results = Order
    /\ "vacuum_wraparound" \in failed => at # "vacuum"
    /\ "rls_debug" \in failed => at \notin {"vacuum", "tables", "rls"}
    /\ "connection_health" \in failed => Observed
    /\ "storage_audit" \in failed => Audited
    /\ "slow_queries" \in failed => Profiled

Shapes ==
    /\ target \in Targets
    /\ changes \in 0..MaxChanges
    /\ at \in {"vacuum", "tables", "rls", "connections", "schema", "meta", "bucket_policies",
               "buckets", "object_policies", "extension", "available", "statements", "end"}
    /\ failed \subseteq Modules
    /\ vacuum \subseteq 0..Horizon
    /\ rls \in {"critical", "warning", "info", "ok"}
    /\ connections \in Activities
    /\ storage \in Audit
    /\ slow \in Profile

(* Buckets are listed once, with the privilege, and not when that raises;    *)
(* statements are read when the extension was found.                         *)
Listed ==
    /\ storage.buckets # {} => storage.can_select /\ ~storage.read_error
    /\ storage.read_error => storage.can_select
    /\ ~Audited /\ at \notin AfterListing => storage.buckets = {} /\ ~storage.read_error
    /\ at = "buckets" => storage.can_select
    /\ storage.can_select => storage.present
    /\ at \in AfterSchema => storage.present
    /\ at \notin AfterSchema /\ ~Audited => ~storage.can_select
    /\ ~slow.readable => slow.queries = {}
    /\ at # "end" => ~slow.readable
    /\ at = "statements" \/ slow.readable => slow.installed

(* What was read of a target that was not changed is what the target is. *)
TrueReadings ==
    changes = 0 =>
        /\ at # "vacuum" /\ "vacuum_wraparound" \notin failed => vacuum = target.ages
        /\ Observed /\ "connection_health" \notin failed => connections = Activity(target)
        /\ at \in AfterSchema \/ AuditKept
              => storage.present = (target.buckets_access \in {"listed", "select"})
        /\ at \in AfterMeta \/ (AuditKept /\ storage.present) =>
              /\ storage.can_select = (target.buckets_access = "select")
              /\ storage.rls_enabled = target.buckets_rls
        /\ at \in AfterCount \/ (AuditKept /\ storage.present)
              => storage.policies = target.bucket_policies
        /\ at \in AfterListing \/ (AuditKept /\ storage.present) =>
              (storage.can_select /\ ~storage.read_error => storage.buckets = target.visible)
        /\ AuditKept /\ storage.present => storage.object_policies = target.object_policies
        /\ at \in {"available", "statements"} \/ (Profiled /\ "slow_queries" \notin failed)
              => slow.installed = target.installed
        /\ Profiled /\ "slow_queries" \notin failed /\ slow.readable
              => slow.queries = Statements(target)

SweepInv == Shapes /\ Progress /\ Listed /\ TrueReadings

-----------------------------------------------------------------------------
(* What pg_stat_activity and pg_stat_statements show has its shape. *)
LEMMA ActivityShape == ASSUME NEW t \in TargetStates PROVE Activity(t) \in Activities
  <1>1. \A b \in t.backends : Row(t, b) \in Rows
    BY DEF TargetStates, Backends, Row, Rows, Legible
  <1>. QED
    BY <1>1 DEF Activity, Activities, TargetStates

(* What is read of the statements the extension recorded. *)
LEMMA StatementsShape ==
    ASSUME NEW t \in TargetStates
    PROVE Statements(t) \in SUBSET [mean : {"fast", "slow", "stalled"}, redacted : BOOLEAN]
  <1>1. \A q \in t.queries : q \in Queries
    BY DEF TargetStates
  <1>2. \A q \in t.queries : Legible(t, q) \in BOOLEAN
    BY <1>1 DEF Legible, Queries, TargetStates
  <1>3. \A q \in t.queries :
            [mean |-> q.mean, redacted |-> ~Legible(t, q)]
                \in [mean : {"fast", "slow", "stalled"}, redacted : BOOLEAN]
    BY <1>1, <1>2 DEF Queries
  <1>. SUFFICES ASSUME NEW s \in Statements(t)
                PROVE  s \in [mean : {"fast", "slow", "stalled"}, redacted : BOOLEAN]
    OBVIOUS
  <1>4. PICK q \in t.queries : s = [mean |-> q.mean, redacted |-> ~Legible(t, q)]
    BY DEF Statements
  <1>. QED
    BY <1>3, <1>4

(* The five diagnostics, by name. *)
LEMMA ModuleNames ==
    Modules = {"vacuum_wraparound", "rls_debug", "connection_health", "storage_audit",
               "slow_queries"}
  <1>1. 1..5 = {1, 2, 3, 4, 5}
    OBVIOUS
  <1>. QED
    BY <1>1 DEF Modules, Order

(* The diagnostics with a result, by where the sweep is. *)
LEMMA DoneIsPast ==
    ASSUME Shapes, Progress
    PROVE /\ results \in Seq(Modules)
          /\ failed \subseteq Done
          /\ "connection_health" \in Done => Observed
          /\ "storage_audit" \in Done => Audited
          /\ "slow_queries" \in Done => Profiled
          /\ "vacuum_wraparound" \in Done => at # "vacuum"
  <1>1. CASE at = "vacuum"
    <2>1. results = <<>>
      BY <1>1 DEF Progress
    <2>2. Done = {}
      BY <2>1 DEF Done
    <2>. QED
      BY <1>1, ModuleNames, <2>1, <2>2 DEF Shapes, Progress, Observed, Audited, Profiled
  <1>2. CASE at \in {"tables", "rls"}
    <2>1. results = <<"vacuum_wraparound">>
      BY <1>2 DEF Progress
    <2>2. Done = {"vacuum_wraparound"}
      BY <2>1 DEF Done
    <2>. QED
      BY <1>2, ModuleNames, <2>1, <2>2 DEF Shapes, Progress, Observed, Audited, Profiled
  <1>3. CASE at = "connections"
    <2>1. results = <<"vacuum_wraparound", "rls_debug">>
      BY <1>3 DEF Progress
    <2>2. Done = {"vacuum_wraparound", "rls_debug"}
      BY <2>1 DEF Done
    <2>. QED
      BY <1>3, ModuleNames, <2>1, <2>2 DEF Shapes, Progress, Observed, Audited, Profiled
  <1>4. CASE at \in {"schema"} \cup AfterSchema
    <2>1. results = <<"vacuum_wraparound", "rls_debug", "connection_health">>
      BY <1>4 DEF Progress
    <2>2. Done = {"vacuum_wraparound", "rls_debug", "connection_health"}
      BY <2>1 DEF Done
    <2>. QED
      BY <1>4, ModuleNames, <2>1, <2>2
      DEF Shapes, Progress, Observed, Audited, Profiled, AfterSchema, AfterMeta, AfterCount,
          AfterListing
  <1>5. CASE at \in {"extension", "available", "statements"}
    <2>1. results = <<"vacuum_wraparound", "rls_debug", "connection_health", "storage_audit">>
      BY <1>5 DEF Progress
    <2>2. Done = {"vacuum_wraparound", "rls_debug", "connection_health", "storage_audit"}
      BY <2>1 DEF Done
    <2>. QED
      BY <1>5, ModuleNames, <2>1, <2>2 DEF Shapes, Progress, Observed, Audited, Profiled
  <1>6. CASE at = "end"
    <2>1. results = Order
      BY <1>6 DEF Progress
    <2>2. Done = Modules
      BY <2>1, ModuleNames DEF Done, Order
    <2>. QED
      BY <1>6, ModuleNames, <2>1, <2>2 DEF Shapes, Progress, Observed, Audited, Profiled, Order
  <1>. QED
    BY <1>1, <1>2, <1>3, <1>4, <1>5, <1>6
    DEF Shapes, AfterSchema, AfterMeta, AfterCount, AfterListing

-----------------------------------------------------------------------------
(* A sequence that is another one and an element after it. *)
LEMMA AppendIs ==
    ASSUME NEW s \in Seq(Modules), NEW t \in Seq(Modules), NEW m \in Modules,
           Len(t) = Len(s) + 1, \A i \in 1..Len(s) : t[i] = s[i], t[Len(s) + 1] = m
    PROVE  Append(s, m) = t
  <1>1. /\ Append(s, m) \in Seq(Modules)
        /\ Len(Append(s, m)) = Len(s) + 1
        /\ \A i \in 1..Len(s) : Append(s, m)[i] = s[i]
        /\ Append(s, m)[Len(s) + 1] = m
    BY AppendProperties
  <1>2. \A i \in 1..Len(t) : Append(s, m)[i] = t[i]
    BY <1>1, LenProperties
  <1>. QED
    BY <1>1, <1>2, SeqEqual

(* The results of a sweep, one diagnostic after the other. *)
LEMMA OrderExtends ==
    /\ Append(<<>>, "vacuum_wraparound") = <<"vacuum_wraparound">>
    /\ Append(<<"vacuum_wraparound">>, "rls_debug") = <<"vacuum_wraparound", "rls_debug">>
    /\ Append(<<"vacuum_wraparound", "rls_debug">>, "connection_health")
          = <<"vacuum_wraparound", "rls_debug", "connection_health">>
    /\ Append(<<"vacuum_wraparound", "rls_debug", "connection_health">>, "storage_audit")
          = <<"vacuum_wraparound", "rls_debug", "connection_health", "storage_audit">>
    /\ Append(<<"vacuum_wraparound", "rls_debug", "connection_health", "storage_audit">>,
              "slow_queries") = Order
  <1>1. Append(<<>>, "vacuum_wraparound")
          = <<"vacuum_wraparound">>
    <2>. DEFINE s == <<>>
                t == <<"vacuum_wraparound">>
    <2>1. s \in Seq(Modules) /\ t \in Seq(Modules)
      BY ModuleNames
    <2>2. Len(s) = 0 /\ Len(t) = 1
      OBVIOUS
    <2>3. t[1] = "vacuum_wraparound"
      OBVIOUS
    <2>4. \A i \in 1..0 : t[i] = s[i]
      OBVIOUS
    <2>5. Append(s, "vacuum_wraparound") = t
      <3>. HIDE DEF s, t
      <3>1. Len(t) = Len(s) + 1 /\ (\A i \in 1..Len(s) : t[i] = s[i]) /\ t[Len(s) + 1] = "vacuum_wraparound"
        BY <2>2, <2>3, <2>4
      <3>2. "vacuum_wraparound" \in Modules
        BY ModuleNames
      <3>. QED
        BY <2>1, <3>1, <3>2, AppendIs, Zenon
    <2>. QED
      BY <2>5
  <1>2. Append(<<"vacuum_wraparound">>,
              "rls_debug")
          = <<"vacuum_wraparound", "rls_debug">>
    <2>. DEFINE s == <<"vacuum_wraparound">>
                t == <<"vacuum_wraparound", "rls_debug">>
    <2>1. s \in Seq(Modules) /\ t \in Seq(Modules)
      BY ModuleNames
    <2>2. Len(s) = 1 /\ Len(t) = 2
      OBVIOUS
    <2>3. t[1] = s[1] /\ t[2] = "rls_debug"
      OBVIOUS
    <2>4. \A i \in 1..1 : t[i] = s[i]
      BY <2>3
    <2>5. Append(s, "rls_debug") = t
      <3>. HIDE DEF s, t
      <3>1. Len(t) = Len(s) + 1 /\ (\A i \in 1..Len(s) : t[i] = s[i]) /\ t[Len(s) + 1] = "rls_debug"
        BY <2>2, <2>3, <2>4
      <3>2. "rls_debug" \in Modules
        BY ModuleNames
      <3>. QED
        BY <2>1, <3>1, <3>2, AppendIs, Zenon
    <2>. QED
      BY <2>5
  <1>3. Append(<<"vacuum_wraparound", "rls_debug">>,
              "connection_health")
          = <<"vacuum_wraparound", "rls_debug", "connection_health">>
    <2>. DEFINE s == <<"vacuum_wraparound", "rls_debug">>
                t == <<"vacuum_wraparound", "rls_debug", "connection_health">>
    <2>1. s \in Seq(Modules) /\ t \in Seq(Modules)
      BY ModuleNames
    <2>2. Len(s) = 2 /\ Len(t) = 3
      OBVIOUS
    <2>3. t[1] = s[1] /\ t[2] = s[2] /\ t[3] = "connection_health"
      OBVIOUS
    <2>4. \A i \in 1..2 : t[i] = s[i]
      BY <2>3
    <2>5. Append(s, "connection_health") = t
      <3>. HIDE DEF s, t
      <3>1. Len(t) = Len(s) + 1 /\ (\A i \in 1..Len(s) : t[i] = s[i]) /\ t[Len(s) + 1] = "connection_health"
        BY <2>2, <2>3, <2>4
      <3>2. "connection_health" \in Modules
        BY ModuleNames
      <3>. QED
        BY <2>1, <3>1, <3>2, AppendIs, Zenon
    <2>. QED
      BY <2>5
  <1>4. Append(<<"vacuum_wraparound", "rls_debug", "connection_health">>,
              "storage_audit")
          = <<"vacuum_wraparound", "rls_debug", "connection_health", "storage_audit">>
    <2>. DEFINE s == <<"vacuum_wraparound", "rls_debug", "connection_health">>
                t == <<"vacuum_wraparound", "rls_debug", "connection_health", "storage_audit">>
    <2>1. s \in Seq(Modules) /\ t \in Seq(Modules)
      BY ModuleNames
    <2>2. Len(s) = 3 /\ Len(t) = 4
      OBVIOUS
    <2>3. t[1] = s[1] /\ t[2] = s[2] /\ t[3] = s[3] /\ t[4] = "storage_audit"
      OBVIOUS
    <2>4. \A i \in 1..3 : t[i] = s[i]
      BY <2>3
    <2>5. Append(s, "storage_audit") = t
      <3>. HIDE DEF s, t
      <3>1. Len(t) = Len(s) + 1 /\ (\A i \in 1..Len(s) : t[i] = s[i]) /\ t[Len(s) + 1] = "storage_audit"
        BY <2>2, <2>3, <2>4
      <3>2. "storage_audit" \in Modules
        BY ModuleNames
      <3>. QED
        BY <2>1, <3>1, <3>2, AppendIs, Zenon
    <2>. QED
      BY <2>5
  <1>5. Append(<<"vacuum_wraparound", "rls_debug", "connection_health", "storage_audit">>,
              "slow_queries")
          = Order
    <2>. DEFINE s == <<"vacuum_wraparound", "rls_debug", "connection_health", "storage_audit">>
                t == <<"vacuum_wraparound", "rls_debug", "connection_health", "storage_audit", "slow_queries">>
    <2>1. s \in Seq(Modules) /\ t \in Seq(Modules)
      BY ModuleNames
    <2>2. Len(s) = 4 /\ Len(t) = 5
      OBVIOUS
    <2>3. t[1] = s[1] /\ t[2] = s[2] /\ t[3] = s[3] /\ t[4] = s[4] /\ t[5] = "slow_queries"
      OBVIOUS
    <2>4. \A i \in 1..4 : t[i] = s[i]
      BY <2>3
    <2>5. Append(s, "slow_queries") = t
      <3>. HIDE DEF s, t
      <3>1. Len(t) = Len(s) + 1 /\ (\A i \in 1..Len(s) : t[i] = s[i]) /\ t[Len(s) + 1] = "slow_queries"
        BY <2>2, <2>3, <2>4
      <3>2. "slow_queries" \in Modules
        BY ModuleNames
      <3>. QED
        BY <2>1, <3>1, <3>2, AppendIs, Zenon
    <2>. QED
      BY <2>5 DEF Order
  <1>. QED
    BY <1>1, <1>2, <1>3, <1>4, <1>5

-----------------------------------------------------------------------------
(* The invariant holds initially. *)
THEOREM InitEstablishesSweepInv == Init => SweepInv
  <1>. SUFFICES ASSUME Init PROVE SweepInv
    OBVIOUS
  <1>. USE DEF Init
  <1>1. Shapes
    BY ChangesAssumption DEF Shapes, Activities, Audit, Profile
  <1>2. Progress
    BY DEF Progress, AfterSchema, AfterMeta, AfterCount, AfterListing
  <1>3. Listed
    BY DEF Listed, Audited, AfterSchema, AfterMeta, AfterCount, AfterListing
  <1>4. TrueReadings
    BY DEF TrueReadings, Observed, AuditKept, Audited, Profiled, AfterSchema, AfterMeta,
           AfterCount, AfterListing
  <1>. QED
    BY <1>1, <1>2, <1>3, <1>4 DEF SweepInv

(* Every step of the sweep, and every change of the target, preserves it. *)
THEOREM StepPreservesSweepInv == SweepInv /\ [Next]_vars => SweepInv'
  <1>. SUFFICES ASSUME SweepInv, [Next]_vars PROVE SweepInv'
    OBVIOUS
  <1>. USE TargetsAssumption, ChangesAssumption
  <1>s. AfterSchema = {"meta", "bucket_policies", "buckets", "object_policies"}
        /\ AfterMeta = {"bucket_policies", "buckets", "object_policies"}
        /\ AfterCount = {"buckets", "object_policies"}
        /\ AfterListing = {"object_policies"}
    BY DEF AfterSchema, AfterMeta, AfterCount, AfterListing
  <1>t. target \in TargetStates
    BY DEF SweepInv, Shapes
  <1>. USE DEF SweepInv, Observed, Audited, Profiled, AuditKept, Environment, evidence, Finish, Go
  <1>1. CASE CheckVacuum
    <2>. USE <1>1 DEF CheckVacuum
    <2>1. Shapes'
      BY <1>t DEF Shapes, TargetStates
    <2>2. Progress'
      BY <1>s, OrderExtends DEF Shapes, Progress
    <2>3. Listed'
      BY <1>s DEF Listed
    <2>4. TrueReadings'
      BY <1>s DEF TrueReadings, Listed
    <2>. QED
      BY <2>1, <2>2, <2>3, <2>4
  <1>2. CASE PickTable
    <2>. USE <1>2 DEF PickTable
    <2>1. Shapes'
      BY DEF Shapes
    <2>2. Progress'
      BY <1>s, OrderExtends DEF Shapes, Progress
    <2>3. Listed'
      BY <1>s DEF Listed
    <2>4. TrueReadings'
      BY <1>s DEF TrueReadings, Listed
    <2>. QED
      BY <2>1, <2>2, <2>3, <2>4
  <1>3. CASE DebugRls
    <2>. USE <1>3 DEF DebugRls
    <2>1. Shapes'
      BY DEF Shapes
    <2>2. Progress'
      BY <1>s, OrderExtends DEF Shapes, Progress
    <2>3. Listed'
      BY <1>s DEF Listed
    <2>4. TrueReadings'
      BY <1>s DEF TrueReadings, Listed
    <2>. QED
      BY <2>1, <2>2, <2>3, <2>4
  <1>4. CASE ReadActivity
    <2>. USE <1>4 DEF ReadActivity
    <2>1. Shapes'
      BY <1>t, ActivityShape DEF Shapes
    <2>2. Progress'
      BY <1>s, OrderExtends DEF Shapes, Progress
    <2>3. Listed'
      BY <1>s DEF Listed
    <2>4. TrueReadings'
      BY <1>s DEF TrueReadings, Listed
    <2>. QED
      BY <2>1, <2>2, <2>3, <2>4
  <1>5. CASE FindBuckets
    <2>. USE <1>5 DEF FindBuckets
    <2>a. ASSUME NEW b \in BOOLEAN PROVE [storage EXCEPT !.present = b] \in Audit
      BY DEF Shapes, Audit
    <2>b. (target.buckets_access \in {"listed", "select"}) \in BOOLEAN
      OBVIOUS
    <2>0. storage' \in Audit
      BY <2>a, <2>b
    <2>1. Shapes'
      BY <2>0 DEF Shapes
    <2>2. Progress'
      BY <1>s, OrderExtends DEF Shapes, Progress
    <2>3. Listed'
      BY <1>s DEF Listed, Shapes, Audit, Profile
    <2>4. TrueReadings'
      BY <1>s, <1>t DEF TrueReadings, Listed, Shapes, Audit, Profile, TargetStates
    <2>. QED
      BY <2>1, <2>2, <2>3, <2>4
  <1>6. CASE ReadMeta
    <2>. USE <1>6 DEF ReadMeta
    <2>1. Shapes'
      BY <1>t DEF Shapes, Audit, TargetStates
    <2>2. Progress'
      BY <1>s, OrderExtends DEF Shapes, Progress
    <2>3. Listed'
      BY <1>s DEF Listed, Shapes, Audit, Profile
    <2>4. TrueReadings'
      BY <1>s, <1>t DEF TrueReadings, Listed, Shapes, Audit, Profile, TargetStates
    <2>. QED
      BY <2>1, <2>2, <2>3, <2>4
  <1>7. CASE CountBucketPolicies
    <2>. USE <1>7 DEF CountBucketPolicies
    <2>1. Shapes'
      BY <1>t DEF Shapes, Audit, TargetStates
    <2>2. Progress'
      BY <1>s, OrderExtends DEF Shapes, Progress
    <2>3. Listed'
      BY <1>s DEF Listed, Shapes, Audit, Profile
    <2>4. TrueReadings'
      BY <1>s, <1>t DEF TrueReadings, Listed, Shapes, Audit, Profile, TargetStates
    <2>. QED
      BY <2>1, <2>2, <2>3, <2>4
  <1>8. CASE ListBuckets
    <2>. USE <1>8 DEF ListBuckets
    <2>1. Shapes'
      BY <1>t, VisibleAssumption DEF Shapes, Audit, TargetStates
    <2>2. Progress'
      BY <1>s, OrderExtends DEF Shapes, Progress
    <2>3. Listed'
      BY <1>s DEF Listed, Shapes, Audit, Profile
    <2>4. TrueReadings'
      BY <1>s, <1>t DEF TrueReadings, Listed, Shapes, Audit, Profile, TargetStates
    <2>. QED
      BY <2>1, <2>2, <2>3, <2>4
  <1>9. CASE ListBucketsFails
    <2>. USE <1>9 DEF ListBucketsFails
    <2>1. Shapes'
      BY <1>t DEF Shapes, Audit, TargetStates
    <2>2. Progress'
      BY <1>s, OrderExtends DEF Shapes, Progress
    <2>3. Listed'
      BY <1>s DEF Listed, Shapes, Audit, Profile
    <2>4. TrueReadings'
      BY <1>s, <1>t DEF TrueReadings, Listed, Shapes, Audit, Profile, TargetStates
    <2>. QED
      BY <2>1, <2>2, <2>3, <2>4
  <1>10. CASE ReadObjectPolicies
    <2>. USE <1>10 DEF ReadObjectPolicies
    <2>1. Shapes'
      BY <1>t DEF Shapes, Audit, TargetStates
    <2>2. Progress'
      BY <1>s, OrderExtends DEF Shapes, Progress
    <2>3. Listed'
      BY <1>s DEF Listed, Shapes, Audit, Profile
    <2>4. TrueReadings'
      BY <1>s, <1>t DEF TrueReadings, Listed, Shapes, Audit, Profile, TargetStates
    <2>. QED
      BY <2>1, <2>2, <2>3, <2>4
  <1>11. CASE FindExtension
    <2>. USE <1>11 DEF FindExtension
    <2>1. Shapes'
      BY <1>t DEF Shapes, Profile, TargetStates
    <2>2. Progress'
      BY <1>s, OrderExtends DEF Shapes, Progress
    <2>3. Listed'
      BY <1>s DEF Listed, Shapes, Audit, Profile
    <2>4. TrueReadings'
      BY <1>s, <1>t DEF TrueReadings, Listed, Shapes, Audit, Profile, TargetStates
    <2>. QED
      BY <2>1, <2>2, <2>3, <2>4
  <1>12. CASE ReadAvailable
    <2>. USE <1>12 DEF ReadAvailable
    <2>1. Shapes'
      BY DEF Shapes
    <2>2. Progress'
      BY <1>s, OrderExtends DEF Shapes, Progress
    <2>3. Listed'
      BY <1>s DEF Listed, Shapes, Audit, Profile
    <2>4. TrueReadings'
      BY <1>s, <1>t DEF TrueReadings, Listed, Shapes, Audit, Profile, TargetStates
    <2>. QED
      BY <2>1, <2>2, <2>3, <2>4
  <1>13. CASE ReadStatements
    <2>. USE <1>13 DEF ReadStatements
    <2>1. Shapes'
      BY <1>t, StatementsShape DEF Shapes, Profile
    <2>2. Progress'
      BY <1>s, OrderExtends DEF Shapes, Progress
    <2>3. Listed'
      BY <1>s DEF Listed, Shapes, Audit, Profile
    <2>4. TrueReadings'
      BY <1>s, <1>t DEF TrueReadings, Listed, Shapes, Audit, Profile, TargetStates
    <2>. QED
      BY <2>1, <2>2, <2>3, <2>4
  <1>14. CASE ReadStatementsFails
    <2>. USE <1>14 DEF ReadStatementsFails
    <2>1. Shapes'
      BY DEF Shapes
    <2>2. Progress'
      BY <1>s, OrderExtends DEF Shapes, Progress
    <2>3. Listed'
      BY <1>s DEF Listed, Shapes, Audit, Profile
    <2>4. TrueReadings'
      BY <1>s, <1>t DEF TrueReadings, Listed, Shapes, Audit, Profile, TargetStates
    <2>. QED
      BY <2>1, <2>2, <2>3, <2>4
  <1>15. CASE ModuleFails
    <2>. USE <1>15 DEF ModuleFails
    <2>1. Shapes'
      BY ModuleNames DEF Shapes, Interrupted
    <2>2. Progress'
      BY <1>s, OrderExtends DEF Shapes, Progress, Interrupted
    <2>3. Listed'
      BY <1>s DEF Listed, Shapes, Audit, Profile, Interrupted
    <2>4. TrueReadings'
      BY <1>s, <1>t DEF TrueReadings, Listed, Shapes, Audit, Profile, TargetStates, Interrupted
    <2>. QED
      BY <2>1, <2>2, <2>3, <2>4
  <1>16. CASE Change
    <2>. USE <1>16 DEF Change
    <2>1. Shapes'
      BY DEF Shapes
    <2>2. Progress'
      BY <1>s, OrderExtends DEF Shapes, Progress
    <2>3. Listed'
      BY <1>s DEF Listed, Shapes, Audit, Profile
    <2>4. TrueReadings'
      BY <1>s, <1>t DEF TrueReadings, Listed, Shapes, Audit, Profile, TargetStates
    <2>. QED
      BY <2>1, <2>2, <2>3, <2>4
  <1>17. CASE UNCHANGED vars
    BY <1>17 DEF vars, Shapes, Progress, Listed, TrueReadings
  <1>. QED
    BY <1>1, <1>2, <1>3, <1>4, <1>5, <1>6, <1>7, <1>8, <1>9, <1>10, <1>11, <1>12, <1>13, <1>14, <1>15, <1>16, <1>17 DEF Next

-----------------------------------------------------------------------------
(* Every reachable state satisfies the inductive invariant. *)
THEOREM SweepInvariant == Spec => []SweepInv
  BY InitEstablishesSweepInv, StepPreservesSweepInv, PTL DEF Spec

(* Type correctness: of the variables, and only diagnostics that have a      *)
(* result are among the failed.                                              *)
THEOREM SweepTypeCorrect == Spec => []TypeOK
  <1>1. SweepInv => TypeOK
    BY DoneIsPast DEF SweepInv, Shapes, TypeOK
  <1>. QED
    BY <1>1, SweepInvariant, PTL

(* A statement about the buckets rests on a listing that came back.          *)
THEOREM ListingsWereRead == Spec => []ListingWasRead
  <1>1. SweepInv => ListingWasRead
    <2>. SUFFICES ASSUME SweepInv PROVE ListingWasRead
      OBVIOUS
    <2>1. storage.buckets # {} => storage.can_select /\ ~storage.read_error
      BY DEF SweepInv, Listed
    <2>2. "public" \in storage.buckets => storage.buckets # {}
      OBVIOUS
    <2>3. StorageReason \notin {"public", "no_buckets", "no_object_policies", "audited"}
      BY DEF StorageReason
    <2>. QED
      BY <2>1, <2>2, <2>3 DEF ListingWasRead, StorageClaim, ListingTrustworthy
  <1>. QED
    BY <1>1, SweepInvariant, PTL

(* OK is true of a target that nobody changed, for every set of targets.     *)
THEOREM OkIsTrueOfTarget == Spec => []OkIsTrue
  <1>1. SweepInv => OkIsTrue
    <2>. SUFFICES ASSUME SweepInv, changes = 0 PROVE OkIsTrue
      BY DEF OkIsTrue
    <2>. USE DEF SweepInv
    <2>t. target \in TargetStates
      BY TargetsAssumption DEF Shapes
    <2>d. /\ "connection_health" \in Done => Observed
          /\ "storage_audit" \in Done => Audited
          /\ "slow_queries" \in Done => Profiled
          /\ "vacuum_wraparound" \in Done => at # "vacuum"
      BY DoneIsPast
    <2>1. ASSUME Clean("vacuum_wraparound"), NEW a \in target.ages PROVE a < Horizon \div 5
      <3>1. vacuum = target.ages
        BY <2>1, <2>d DEF Clean, TrueReadings
      <3>2. VacuumClaim = "healthy"
        BY <2>1, <3>1 DEF Clean, Severity, VacuumClaim
      <3>3. ~(Pct(a) >= 2000)
        BY <3>1, <3>2 DEF VacuumClaim
      <3>4. a \in 0..Horizon
        BY <2>t DEF TargetStates
      <3>5. Horizon \div 5 = 400000000
        BY SMT DEF Horizon
      <3>6. a \in Int
        BY <3>4
      <3>7. a >= 400000000 => (a + 100000) \div 200000 >= 2000
        BY <3>6, SMT
      <3>. QED
        BY <3>3, <3>5, <3>6, <3>7, SMT DEF Pct
    <2>2. ASSUME Clean("connection_health"), NEW b \in target.backends
          PROVE  b.state = "active" /\ ~b.lock
      <3>1. connections = Activity(target)
        BY <2>2, <2>d DEF Clean, TrueReadings
      <3>2. ConnectionClaim = "healthy"
        BY <2>2 DEF Clean, Severity
      <3>3. /\ \A r \in connections.rows : r.state # "idle in transaction"
            /\ \A r \in connections.rows : ~r.lock
            /\ \A r \in connections.rows : ~r.redacted
        BY <3>2 DEF ConnectionClaim, Redacted
      <3>4. Row(target, b) \in connections.rows
        BY <3>1 DEF Activity
      <3>5. Legible(target, b)
        BY <3>3, <3>4 DEF Row
      <3>6. Row(target, b) = [state |-> b.state, lock |-> b.lock, redacted |-> FALSE]
        BY <3>5 DEF Row
      <3>7. b \in Backends
        BY <2>t DEF TargetStates
      <3>8. b.state \in {"active", "idle in transaction"} /\ b.lock \in BOOLEAN
        BY <3>7 DEF Backends
      <3>9. Row(target, b).state = b.state /\ Row(target, b).lock = b.lock
        BY <3>6
      <3>. QED
        BY <3>3, <3>4, <3>8, <3>9
    <2>3. ASSUME Clean("storage_audit") PROVE target.buckets # {} /\ target.object_policies
      <3>1. StorageClaim = "audited"
        BY <2>3 DEF Clean, Severity
      <3>2. storage.present /\ ListingTrustworthy /\ storage.buckets # {} /\ storage.object_policies
        BY <3>1 DEF StorageClaim, StorageReason
      <3>3. AuditKept
        BY <2>3, <2>d DEF Clean, AuditKept
      <3>4. storage.buckets = target.visible /\ storage.object_policies = target.object_policies
        BY <3>2, <3>3 DEF TrueReadings, ListingTrustworthy
      <3>5. target.visible \subseteq target.buckets
        BY VisibleAssumption DEF Shapes
      <3>. QED
        BY <3>2, <3>4, <3>5
    <2>4. ASSUME Clean("slow_queries"), NEW q \in target.queries PROVE q.mean = "fast"
      <3>1. SlowClaim \in {"nothing", "fast"}
        BY <2>4 DEF Clean, Severity
      <3>2. /\ slow.readable
            /\ \A x \in slow.queries : x.mean # "stalled" /\ x.mean # "slow"
        BY <3>1 DEF SlowClaim
      <3>3. slow.queries = Statements(target)
        BY <2>4, <2>d, <3>2 DEF Clean, TrueReadings
      <3>4. [mean |-> q.mean, redacted |-> ~Legible(target, q)] \in slow.queries
        BY <3>3 DEF Statements
      <3>5. q.mean # "stalled" /\ q.mean # "slow"
        BY <3>2, <3>4
      <3>6. q \in Queries
        BY <2>t DEF TargetStates
      <3>. QED
        BY <3>5, <3>6 DEF Queries
    <2>. QED
      BY <2>1, <2>2, <2>3, <2>4 DEF OkIsTrue
  <1>. QED
    BY <1>1, SweepInvariant, PTL

(* What was seen outranks what was withheld: a stuck backend the role can    *)
(* see is critical, whatever else it cannot see; so with a public bucket     *)
(* without object policies, and with a statement that takes a second.        *)
THEOREM ConfirmedComesFirst == Spec => []ConfirmedOutranksHidden
  <1>1. SweepInv => ConfirmedOutranksHidden
    <2>. SUFFICES ASSUME SweepInv, changes = 0 PROVE ConfirmedOutranksHidden
      BY DEF ConfirmedOutranksHidden, Ran
    <2>. USE DEF SweepInv
    <2>d. /\ "connection_health" \in Done => Observed
          /\ "storage_audit" \in Done => Audited
          /\ "slow_queries" \in Done => Profiled
      BY DoneIsPast
    <2>1. ASSUME Ran("connection_health"), NEW b \in target.backends, Legible(target, b),
                 b.state = "idle in transaction"
          PROVE  Severity("connection_health") = "critical"
      <3>1. connections = Activity(target)
        BY <2>1, <2>d DEF Ran, TrueReadings
      <3>2. Row(target, b) \in connections.rows
        BY <3>1 DEF Activity
      <3>3. Row(target, b).state = "idle in transaction"
        BY <2>1 DEF Row
      <3>4. ConnectionClaim = "idle"
        BY <3>2, <3>3 DEF ConnectionClaim
      <3>. QED
        BY <2>1, <3>4 DEF Ran, Severity
    <2>2. ASSUME Ran("storage_audit"), storage.can_select, ~storage.read_error,
                 "public" \in target.visible, ~target.object_policies
          PROVE  StorageClaim = "public"
      <3>1. storage.present
        BY <2>2 DEF Listed
      <3>2. AuditKept
        BY <2>2, <2>d DEF Ran, AuditKept
      <3>3. storage.buckets = target.visible /\ storage.object_policies = target.object_policies
        BY <2>2, <3>1, <3>2 DEF TrueReadings
      <3>. QED
        BY <2>2, <3>1, <3>3 DEF StorageClaim
    <2>3. ASSUME Ran("slow_queries"), slow.readable, NEW q \in target.queries, q.mean = "stalled"
          PROVE  Severity("slow_queries") = "critical"
      <3>1. slow.queries = Statements(target)
        BY <2>3, <2>d DEF Ran, TrueReadings
      <3>2. [mean |-> q.mean, redacted |-> ~Legible(target, q)] \in slow.queries
        BY <3>1 DEF Statements
      <3>3. slow.installed
        BY <2>3 DEF Listed
      <3>4. SlowClaim = "stalled"
        BY <2>3, <3>2, <3>3 DEF SlowClaim
      <3>. QED
        BY <2>3, <3>4 DEF Ran, Severity
    <2>. QED
      BY <2>1, <2>2, <2>3 DEF ConfirmedOutranksHidden
  <1>. QED
    BY <1>1, SweepInvariant, PTL

(* The reason an INDETERMINATE gives is the true one of a target that nobody *)
(* changed.                                                                  *)
THEOREM ReasonsAreTrue == Spec => []ReasonIsTrue
  <1>1. SweepInv => ReasonIsTrue
    <2>. SUFFICES ASSUME SweepInv, changes = 0 PROVE ReasonIsTrue
      BY DEF ReasonIsTrue, Ran
    <2>. USE DEF SweepInv
    <2>t. target \in TargetStates
      BY TargetsAssumption DEF Shapes
    <2>d. /\ "connection_health" \in Done => Observed
          /\ "storage_audit" \in Done => Audited
          /\ "slow_queries" \in Done => Profiled
      BY DoneIsPast
    <2>1. ASSUME Ran("connection_health"), ConnectionClaim = "redacted"
          PROVE  \E b \in target.backends : ~Legible(target, b)
      <3>1. connections = Activity(target)
        BY <2>1, <2>d DEF Ran, TrueReadings
      <3>2. PICK r \in connections.rows : r.redacted
        BY <2>1 DEF ConnectionClaim, Redacted
      <3>3. PICK b \in target.backends : r = Row(target, b)
        BY <3>1, <3>2 DEF Activity
      <3>. QED
        BY <3>2, <3>3 DEF Row
    <2>2. ASSUME Ran("storage_audit"), StorageClaim \in {"no_privilege", "hidden"}
          PROVE  /\ StorageClaim = "no_privilege" => target.buckets_access = "listed"
                 /\ StorageClaim = "hidden" =>
                       target.buckets_rls /\ ~target.bucket_policies /\ target.visible = {}
      <3>1. storage.present /\ ~ListingTrustworthy /\ StorageClaim = StorageReason
        BY <2>2 DEF StorageClaim
      <3>2. AuditKept
        BY <2>2, <2>d DEF Ran, AuditKept
      <3>3. /\ target.buckets_access \in {"listed", "select"}
            /\ storage.can_select = (target.buckets_access = "select")
            /\ storage.rls_enabled = target.buckets_rls
            /\ storage.policies = target.bucket_policies
            /\ storage.can_select /\ ~storage.read_error => storage.buckets = target.visible
        BY <3>1, <3>2 DEF TrueReadings
      <3>. QED
        BY <3>1, <3>3 DEF StorageReason, ListingTrustworthy
    <2>3. ASSUME Ran("slow_queries"), SlowClaim = "not_installed" PROVE ~target.installed
      <3>1. slow.installed = target.installed
        BY <2>3, <2>d DEF Ran, TrueReadings
      <3>. QED
        BY <2>3, <3>1 DEF SlowClaim
    <2>4. ASSUME Ran("slow_queries"), SlowClaim = "unnamed", NEW q \in target.queries
          PROVE  ~Legible(target, q)
      <3>1. slow.readable /\ \A x \in slow.queries : x.redacted
        BY <2>4 DEF SlowClaim
      <3>2. slow.queries = Statements(target)
        BY <2>4, <2>d, <3>1 DEF Ran, TrueReadings
      <3>3. [mean |-> q.mean, redacted |-> ~Legible(target, q)] \in slow.queries
        BY <3>2 DEF Statements
      <3>. QED
        BY <3>1, <3>3
    <2>. QED
      BY <2>1, <2>2, <2>3, <2>4 DEF ReasonIsTrue
  <1>. QED
    BY <1>1, SweepInvariant, PTL

-----------------------------------------------------------------------------
(* How many diagnostics have a result, by where the sweep is. *)
Count ==
    IF at = "vacuum" THEN 0
    ELSE IF at \in {"tables", "rls"} THEN 1
    ELSE IF at = "connections" THEN 2
    ELSE IF at \in {"schema", "meta", "bucket_policies", "buckets", "object_policies"} THEN 3
    ELSE IF at \in {"extension", "available", "statements"} THEN 4 ELSE 5

(* The five places in a sweep. *)
LEMMA Places ==
    /\ DOMAIN Order = {1, 2, 3, 4, 5} /\ Len(Order) = 5
    /\ Order[1] = "vacuum_wraparound" /\ Order[2] = "rls_debug" /\ Order[3] = "connection_health"
    /\ Order[4] = "storage_audit" /\ Order[5] = "slow_queries"
  BY DEF Order

(* The results there are those of the first so many diagnostics. *)
LEMMA DoneAreFirst ==
    ASSUME Shapes, Progress
    PROVE  /\ Count \in 0..5 /\ (Count = 5 <=> at = "end")
           /\ \A j \in DOMAIN Order : Order[j] \in Done <=> j <= Count
  <1>c. Count \in 0..5 /\ (Count = 5 <=> at = "end")
    BY DEF Shapes, Count
  <1>1. CASE at = "vacuum"
    <2>1. results = <<>> /\ Count = 0
      BY <1>1 DEF Progress, Count
    <2>2. Done = {}
      BY <2>1 DEF Done
    <2>. QED
      BY <1>c, <2>1, <2>2, Places
  <1>2. CASE at \in {"tables", "rls"}
    <2>1. results = <<"vacuum_wraparound">> /\ Count = 1
      BY <1>2 DEF Progress, Count
    <2>2. Done = {"vacuum_wraparound"}
      BY <2>1 DEF Done
    <2>. QED
      BY <1>c, <2>1, <2>2, Places
  <1>3. CASE at = "connections"
    <2>1. results = <<"vacuum_wraparound", "rls_debug">> /\ Count = 2
      BY <1>3 DEF Progress, Count
    <2>2. Done = {"vacuum_wraparound", "rls_debug"}
      BY <2>1 DEF Done
    <2>. QED
      BY <1>c, <2>1, <2>2, Places
  <1>4. CASE at \in {"schema", "meta", "bucket_policies", "buckets", "object_policies"}
    <2>1. results = <<"vacuum_wraparound", "rls_debug", "connection_health">> /\ Count = 3
      BY <1>4 DEF Progress, Count, AfterSchema, AfterMeta, AfterCount, AfterListing
    <2>2. Done = {"vacuum_wraparound", "rls_debug", "connection_health"}
      BY <2>1 DEF Done
    <2>. QED
      BY <1>c, <2>1, <2>2, Places
  <1>5. CASE at \in {"extension", "available", "statements"}
    <2>1. /\ results = <<"vacuum_wraparound", "rls_debug", "connection_health", "storage_audit">>
          /\ Count = 4
      BY <1>5 DEF Progress, Count
    <2>2. Done = {"vacuum_wraparound", "rls_debug", "connection_health", "storage_audit"}
      BY <2>1 DEF Done
    <2>. QED
      BY <1>c, <2>1, <2>2, Places
  <1>6. CASE at = "end"
    <2>1. results = Order /\ Count = 5
      BY <1>6 DEF Progress, Count
    <2>2. Done = Modules
      BY <2>1, ModuleNames DEF Done, Order
    <2>. QED
      BY <1>c, <2>1, <2>2, Places, ModuleNames
  <1>. QED
    BY <1>1, <1>2, <1>3, <1>4, <1>5, <1>6 DEF Shapes

(* A step gives the next diagnostic its result, or none. *)
LEMMA OneAtATime == SweepInv /\ Next => Count' = Count \/ Count' = Count + 1
  <1>. SUFFICES ASSUME SweepInv, Next PROVE Count' = Count \/ Count' = Count + 1
    OBVIOUS
  <1>. USE DEF Count, Finish, Go
  <1>1. CASE CheckVacuum \/ PickTable \/ DebugRls \/ ReadActivity
    BY <1>1 DEF CheckVacuum, PickTable, DebugRls, ReadActivity
  <1>2. CASE FindBuckets \/ ReadMeta \/ CountBucketPolicies \/ ListBuckets \/ ListBucketsFails
             \/ ReadObjectPolicies
    BY <1>2 DEF FindBuckets, ReadMeta, CountBucketPolicies, ListBuckets, ListBucketsFails,
               ReadObjectPolicies
  <1>3. CASE FindExtension \/ ReadAvailable \/ ReadStatements \/ ReadStatementsFails
    BY <1>3 DEF FindExtension, ReadAvailable, ReadStatements, ReadStatementsFails
  <1>4. CASE ModuleFails
    BY <1>4 DEF ModuleFails, Interrupted, SweepInv, Shapes
  <1>5. CASE Change
    BY <1>5 DEF Change
  <1>. QED
    BY <1>1, <1>2, <1>3, <1>4, <1>5 DEF Next

(* A severity is one of four. *)
LEMMA SeverityIsOne ==
    ASSUME Shapes, NEW m PROVE Severity(m) \in {"critical", "warning", "info", "ok"}
  <1>1. VacuumClaim \in {"no_tables", "critical", "warning", "info", "healthy"}
    BY DEF VacuumClaim
  <1>2. FailureSeverity(m) \in {"critical", "warning", "info"}
    BY DEF FailureSeverity
  <1>. QED
    BY <1>1, <1>2 DEF Severity, Shapes

(* It rests on the evidence of its own diagnostic. *)
LEMMA SeverityRestsOnItsOwn ==
    ASSUME NEW m, (m \in failed) = (m \in failed'),
           m = "vacuum_wraparound" => vacuum' = vacuum, m = "rls_debug" => rls' = rls,
           m = "connection_health" => connections' = connections,
           m = "storage_audit" => storage' = storage,
           m \notin {"vacuum_wraparound", "rls_debug", "connection_health", "storage_audit"}
              => slow' = slow
    PROVE  Severity(m)' = Severity(m)
  <1>1. vacuum' = vacuum => VacuumClaim' = VacuumClaim
    BY DEF VacuumClaim
  <1>2. connections' = connections => ConnectionClaim' = ConnectionClaim
    BY DEF ConnectionClaim, Redacted
  <1>3. storage' = storage => StorageClaim' = StorageClaim
    BY DEF StorageClaim, ListingTrustworthy, StorageReason
  <1>4. slow' = slow => SlowClaim' = SlowClaim
    BY DEF SlowClaim
  <1>. QED
    BY <1>1, <1>2, <1>3, <1>4 DEF Severity

(* No step changes a severity that was given. *)
LEMMA SeverityStands ==
    ASSUME SweepInv, Next, NEW j \in DOMAIN Order, j <= Count
    PROVE  Severity(Order[j])' = Severity(Order[j])
  <1>. DEFINE m == Order[j]
  <1>p. \/ j = 1 /\ m = "vacuum_wraparound"
        \/ j = 2 /\ m = "rls_debug"
        \/ j = 3 /\ m = "connection_health"
        \/ j = 4 /\ m = "storage_audit"
        \/ j = 5 /\ m = "slow_queries"
    BY Places
  <1>. HIDE DEF m
  <1>. USE DEF Count, evidence
  <1>1. CASE CheckVacuum \/ PickTable \/ DebugRls \/ ReadActivity
    BY <1>1, <1>p, SeverityRestsOnItsOwn DEF CheckVacuum, PickTable, DebugRls, ReadActivity, m
  <1>2. CASE FindBuckets \/ ReadMeta \/ CountBucketPolicies \/ ListBuckets \/ ListBucketsFails
             \/ ReadObjectPolicies
    BY <1>2, <1>p, SeverityRestsOnItsOwn
    DEF FindBuckets, ReadMeta, CountBucketPolicies, ListBuckets, ListBucketsFails,
        ReadObjectPolicies, Go, m
  <1>3. CASE FindExtension \/ ReadAvailable \/ ReadStatements \/ ReadStatementsFails
    BY <1>3, <1>p, SeverityRestsOnItsOwn
    DEF FindExtension, ReadAvailable, ReadStatements, ReadStatementsFails, m
  <1>4. CASE ModuleFails
    BY <1>4, <1>p, SeverityRestsOnItsOwn DEF ModuleFails, Interrupted, SweepInv, Shapes, m
  <1>5. CASE Change
    BY <1>5, SeverityRestsOnItsOwn DEF Change, m
  <1>. QED
    BY <1>1, <1>2, <1>3, <1>4, <1>5 DEF Next

(* Whatever raises and whatever changes meanwhile, a sweep gives each of the *)
(* five diagnostics one severity, in their order, takes none back, and is    *)
(* over with the last (run_full_scan).                                       *)
THEOREM SweepKeepsItsPromise == Spec => ImplementsScanReport
  <1>. DEFINE All == [m \in Modules |-> Verdict(m)]
  <1>d. Promise!Diagnostics = Modules
    BY Places DEF Promise!Diagnostics, Modules
  <1>. DEFINE Placed == /\ Count \in 0..5 /\ (Count = 5 <=> at = "end")
                        /\ \A j \in DOMAIN Order : Order[j] \in Done <=> j <= Count
                        /\ \A m \in Modules : Severity(m) \in {"critical", "warning", "info", "ok"}
  <1>f. SweepInv => Placed
    BY DoneAreFirst, SeverityIsOne DEF SweepInv
  <1>. HIDE DEF Placed
  <1>g. SweepInv' => Placed'
    BY <1>f, PTL
  <1>1. Init => Promise!Init
    <2>. SUFFICES ASSUME Init PROVE Promise!Init
      OBVIOUS
    <2>1. Done = {}
      BY DEF Init, Done
    <2>2. All = [m \in Modules |-> "none"]
      BY <2>1 DEF Verdict
    <2>. QED
      BY <2>2, <1>d DEF Promise!Init, Init
  <1>2. SweepInv /\ SweepInv' /\ [Next]_vars => [Promise!Next]_<<All, at = "end">>
    <2>0. ASSUME UNCHANGED vars PROVE UNCHANGED <<All, at = "end">>
      <3>1. \A m \in Modules : Severity(m)' = Severity(m)
        BY <2>0, SeverityRestsOnItsOwn DEF vars, evidence
      <3>2. Done' = Done
        BY <2>0 DEF vars, Done
      <3>3. \A m \in Modules : Verdict(m)' = Verdict(m)
        BY <3>1, <3>2 DEF Verdict
      <3>4. at' = at
        BY <2>0 DEF vars
      <3>. QED
        BY <3>3, <3>4
    <2>. SUFFICES ASSUME SweepInv, SweepInv', Next
                  PROVE  Promise!Next \/ UNCHANGED <<All, at = "end">>
      BY <2>0
    <2>1. /\ Count \in 0..5 /\ (Count = 5 <=> at = "end")
          /\ \A j \in DOMAIN Order : Order[j] \in Done <=> j <= Count
      BY <1>f DEF Placed
    <2>2. /\ Count' \in 0..5 /\ (Count' = 5 <=> at' = "end")
          /\ \A j \in DOMAIN Order : Order[j] \in Done' <=> j <= Count'
          /\ \A m \in Modules : Severity(m)' \in {"critical", "warning", "info", "ok"}
      BY <1>g DEF Placed
    <2>3. \A j \in DOMAIN Order : Verdict(Order[j]) # "none" <=> j <= Count
      BY <2>1, SeverityIsOne DEF Verdict, SweepInv
    <2>4. \A j \in DOMAIN Order : j <= Count => Verdict(Order[j])' = Verdict(Order[j])
      BY <2>1, <2>2, SeverityStands, OneAtATime, Places DEF Verdict
    <2>5. Modules = {Order[j] : j \in DOMAIN Order}
      BY Places DEF Modules
    <2>6. CASE Count' = Count
      <3>1. \A j \in DOMAIN Order : Verdict(Order[j])' = Verdict(Order[j])
        BY <2>1, <2>2, <2>4, <2>6 DEF Verdict
      <3>2. All' = All
        BY <2>5, <3>1
      <3>. QED
        BY <2>1, <2>2, <2>6, <3>2
    <2>7. CASE Count' = Count + 1
      <3>1. PICK i \in DOMAIN Order : i = Count'
        BY <2>1, <2>2, <2>7, Places
      <3>2. PICK severity \in {"critical", "warning", "info", "ok"} : Verdict(Order[i])' = severity
        BY <2>2, <2>5, <3>1 DEF Verdict
      <3>3. ASSUME NEW j \in DOMAIN Order, j # i PROVE Verdict(Order[j])' = Verdict(Order[j])
        <4>1. j <= Count \/ (~(j <= Count) /\ ~(j <= Count'))
          BY <2>1, <2>7, <3>1, <3>3, Places
        <4>. QED
          BY <2>1, <2>2, <2>4, <4>1 DEF Verdict
      <3>4. All' = [All EXCEPT ![Order[i]] = severity]
        BY <2>5, <3>1, <3>2, <3>3, Places
      <3>5. \A j \in DOMAIN Order : All[Order[j]] # "none" <=> j < i
        <4>1. \A j \in DOMAIN Order : All[Order[j]] # "none" <=> j <= Count
          BY <2>3, <2>5
        <4>2. \A j \in DOMAIN Order : j <= Count <=> j < i
          BY <2>1, <2>7, <3>1, Places
        <4>. QED
          BY <4>1, <4>2
      <3>. QED
        BY <2>2, <3>1, <3>4, <3>5, Places DEF Promise!Next, Promise!Give
    <2>. QED
      BY <2>6, <2>7, OneAtATime
  <1>. QED
    BY SweepInvariant, <1>1, <1>2, PTL DEF Spec, ImplementsScanReport, Promise!Spec

-----------------------------------------------------------------------------
(* The statements of a sweep, in order. *)
Statement ==
    IF at = "vacuum" THEN 0 ELSE IF at = "tables" THEN 1 ELSE IF at = "rls" THEN 2
    ELSE IF at = "connections" THEN 3 ELSE IF at = "schema" THEN 4 ELSE IF at = "meta" THEN 5
    ELSE IF at = "bucket_policies" THEN 6 ELSE IF at = "buckets" THEN 7
    ELSE IF at = "object_policies" THEN 8 ELSE IF at = "extension" THEN 9
    ELSE IF at = "available" THEN 10 ELSE IF at = "statements" THEN 11 ELSE 12

(* A sweep goes on to a later statement with every one it makes, and nothing *)
(* else touches what it has.                                                 *)
SweepGoesOn == [][Statement' > Statement \/ UNCHANGED <<at, results, failed, evidence>>]_vars

(* A sweep is over after thirteen statements, whatever raises and however    *)
(* often the target changes meanwhile (run_full_scan).                       *)
THEOREM SweepsGoOn == Spec => SweepGoesOn
  <1>1. SweepInv /\ [Next]_vars =>
            [Statement' > Statement \/ UNCHANGED <<at, results, failed, evidence>>]_vars
    <2>. SUFFICES ASSUME SweepInv, Next
                  PROVE  Statement' > Statement \/ UNCHANGED <<at, results, failed, evidence>>
      OBVIOUS
    <2>. USE DEF Statement, Finish, Go
    <2>1. CASE CheckVacuum \/ PickTable \/ DebugRls \/ ReadActivity
      BY <2>1 DEF CheckVacuum, PickTable, DebugRls, ReadActivity
    <2>2. CASE FindBuckets \/ ReadMeta \/ CountBucketPolicies \/ ListBuckets \/ ListBucketsFails
               \/ ReadObjectPolicies
      BY <2>2 DEF FindBuckets, ReadMeta, CountBucketPolicies, ListBuckets, ListBucketsFails,
                 ReadObjectPolicies
    <2>3. CASE FindExtension \/ ReadAvailable \/ ReadStatements \/ ReadStatementsFails
      BY <2>3 DEF FindExtension, ReadAvailable, ReadStatements, ReadStatementsFails
    <2>4. CASE ModuleFails
      BY <2>4 DEF ModuleFails, Interrupted, SweepInv, Shapes
    <2>5. CASE Change
      BY <2>5 DEF Change
    <2>. QED
      BY <2>1, <2>2, <2>3, <2>4, <2>5 DEF Next
  <1>. QED
    BY SweepInvariant, <1>1, PTL DEF Spec, SweepGoesOn

-----------------------------------------------------------------------------
(* From which age on a table is INFO, a WARNING or CRITICAL: each threshold  *)
(* is a hundred thousand transactions under its round number, which is where *)
(* the rounded percentage reaches it, so that the comparisons with the age   *)
(* itself (analyze_vacuum_results) decide nothing.                           *)
THEOREM VacuumThresholds ==
    ASSUME vacuum \subseteq 0..Horizon
    PROVE  VacuumClaim =
              IF vacuum = {} THEN "no_tables"
              ELSE IF \E a \in vacuum : a >= 1599900000 THEN "critical"
              ELSE IF \E a \in vacuum : a >= 999900000 THEN "warning"
              ELSE IF \E a \in vacuum : a >= 399900000 THEN "info" ELSE "healthy"
  <1>1. ASSUME NEW a \in Nat
        PROVE  /\ (Pct(a) >= 8000 \/ a > 1600000000) <=> a >= 1599900000
               /\ (Pct(a) >= 5000 \/ a > 1000000000) <=> a >= 999900000
               /\ Pct(a) >= 2000 <=> a >= 399900000
    BY SMT DEF Pct
  <1>2. ASSUME NEW a \in vacuum PROVE a \in Nat
    <2>1. a \in 0..Horizon
      OBVIOUS
    <2>. QED
      BY <2>1, SMT
  <1>3. /\ (\E a \in vacuum : Pct(a) >= 8000 \/ a > 1600000000) <=> \E a \in vacuum : a >= 1599900000
        /\ (\E a \in vacuum : Pct(a) >= 5000 \/ a > 1000000000) <=> \E a \in vacuum : a >= 999900000
        /\ (\E a \in vacuum : Pct(a) >= 2000) <=> \E a \in vacuum : a >= 399900000
    BY <1>1, <1>2, SMT
  <1>. QED
    BY <1>3, SMT DEF VacuumClaim
=============================================================================
