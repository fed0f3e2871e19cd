----------------------------- MODULE ScanProofs -----------------------------
(***************************************************************************)
(* Theorems about ScanLifecycle for every set of requests, readers and     *)
(* targets, every pool size and every number of diagnostics: the inductive *)
(* invariant IInv, the safety properties that follow from it, that a       *)
(* closed run stays closed, that ScanLifecycle implements ScanRecord, and  *)
(* how many steps a request takes and for whom it waits.                   *)
(***************************************************************************)
EXTENDS ScanLifecycle, FiniteSetTheorems, TLAPS

---------------------------------------------------------------------------
(* Counting the connections on loan.                                        *)

(* A request that changes place changes the number of POST requests holding  *)
(* a connection by what the two places say.                                  *)
LEMMA ScanMoves ==
  ASSUME pc \in [Scans -> PCs], NEW s \in Scans, NEW at \in PCs, Goto(s, at)
  PROVE  /\ Cardinality(ScanHolders) \in Nat
         /\ Cardinality(ScanHolders') \in Nat
         /\ (pc[s] \in Holding <=> at \in Holding)
              => Cardinality(ScanHolders') = Cardinality(ScanHolders)
         /\ (pc[s] \notin Holding /\ at \in Holding)
              => Cardinality(ScanHolders') = Cardinality(ScanHolders) + 1
         /\ (pc[s] \in Holding /\ at \notin Holding)
              => Cardinality(ScanHolders) = Cardinality(ScanHolders') + 1
<1>1. IsFiniteSet(ScanHolders)
  BY SetsAssumption, FS_Subset DEF ScanHolders
<1>2. Cardinality(ScanHolders) \in Nat
  BY <1>1, FS_CardinalityType
<1>3. CASE pc[s] \in Holding <=> at \in Holding
  <2>1. ScanHolders' = ScanHolders
    BY <1>3 DEF ScanHolders, Goto
  <2> QED BY <1>2, <1>3, <2>1
<1>4. CASE pc[s] \notin Holding /\ at \in Holding
  <2>1. ScanHolders' = ScanHolders \cup {s} /\ s \notin ScanHolders
    BY <1>4 DEF ScanHolders, Goto
  <2>2. Cardinality(ScanHolders') = Cardinality(ScanHolders) + 1
    BY <1>1, <2>1, FS_AddElement
  <2> QED BY <1>2, <1>4, <2>2
<1>5. CASE pc[s] \in Holding /\ at \notin Holding
  <2>1. ScanHolders' = ScanHolders \ {s} /\ s \in ScanHolders
    BY <1>5 DEF ScanHolders, Goto
  <2>2. IsFiniteSet(ScanHolders') /\ Cardinality(ScanHolders') = Cardinality(ScanHolders) - 1
    BY <1>1, <2>1, FS_RemoveElement
  <2>3. Cardinality(ScanHolders') \in Nat
    BY <2>2, FS_CardinalityType
  <2> QED BY <1>2, <1>5, <2>2, <2>3
<1> QED BY <1>3, <1>4, <1>5

(* The same for the GET requests. *)
LEMMA ReaderMoves ==
  ASSUME rpc \in [Readers -> ReadPCs], NEW r \in Readers, NEW at \in ReadPCs, ReadGoto(r, at)
  PROVE  /\ Cardinality(ReadHolders) \in Nat
         /\ Cardinality(ReadHolders') \in Nat
         /\ (rpc[r] \in ReadHolding <=> at \in ReadHolding)
              => ReadHolders' = ReadHolders
         /\ (rpc[r] \notin ReadHolding /\ at \in ReadHolding)
              => Cardinality(ReadHolders') = Cardinality(ReadHolders) + 1
         /\ (rpc[r] \in ReadHolding /\ at \notin ReadHolding)
              => Cardinality(ReadHolders) = Cardinality(ReadHolders') + 1
<1>1. IsFiniteSet(ReadHolders)
  BY SetsAssumption, FS_Subset DEF ReadHolders
<1>2. Cardinality(ReadHolders) \in Nat
  BY <1>1, FS_CardinalityType
<1>3. CASE rpc[r] \in ReadHolding <=> at \in ReadHolding
  <2>1. ReadHolders' = ReadHolders
    BY <1>3 DEF ReadHolders, ReadGoto
  <2> QED BY <1>2, <1>3, <2>1
<1>4. CASE rpc[r] \notin ReadHolding /\ at \in ReadHolding
  <2>1. ReadHolders' = ReadHolders \cup {r} /\ r \notin ReadHolders
    BY <1>4 DEF ReadHolders, ReadGoto
  <2>2. Cardinality(ReadHolders') = Cardinality(ReadHolders) + 1
    BY <1>1, <2>1, FS_AddElement
  <2> QED BY <1>2, <1>4, <2>2
<1>5. CASE rpc[r] \in ReadHolding /\ at \notin ReadHolding
  <2>1. ReadHolders' = ReadHolders \ {r} /\ r \in ReadHolders
    BY <1>5 DEF ReadHolders, ReadGoto
  <2>2. IsFiniteSet(ReadHolders') /\ Cardinality(ReadHolders') = Cardinality(ReadHolders) - 1
    BY <1>1, <2>1, FS_RemoveElement
  <2>3. Cardinality(ReadHolders') \in Nat
    BY <2>2, FS_CardinalityType
  <2> QED BY <1>2, <1>5, <2>2, <2>3
<1> QED BY <1>3, <1>4, <1>5

(* The number of connections on loan is a number. *)
LEMMA HoldersFinite ==
  /\ Cardinality(ScanHolders) \in Nat
  /\ Cardinality(ReadHolders) \in Nat
<1>1. IsFiniteSet(ScanHolders) /\ IsFiniteSet(ReadHolders)
  BY SetsAssumption, FS_Subset DEF ScanHolders, ReadHolders
<1> QED BY <1>1, FS_CardinalityType

(* Nobody holds a connection: the loans are zero. *)
LEMMA NoHolders ==
  ASSUME ScanHolders = {}, ReadHolders = {}
  PROVE  Cardinality(ScanHolders) = 0 /\ Cardinality(ReadHolders) = 0
BY FS_EmptySet

---------------------------------------------------------------------------
(* The pool.                                                                *)

(* No step of a POST request loses a connection or makes one up. *)
LEMMA ScanStepPool ==
  ASSUME IInv, NEW s \in Scans, Submit(s) \/ ScanStep(s)
  PROVE  PoolConserved' /\ idle' \in Nat
<1> USE DEF PCs, InFlight, Holding
<1>0. /\ pc \in [Scans -> PCs] /\ idle \in Nat /\ PoolSize \in Nat
      /\ PoolConserved
      /\ pc[s] \in Holding \ {"connect", "sweep"} => poolUp
      /\ ReadHolders' = ReadHolders
      /\ poolUp \in BOOLEAN /\ poolUp' = poolUp /\ serverUp' = serverUp
  BY PoolAssumption
  DEF IInv, TypeOK, RowMatchesProgress, ReadHolders, readVars, serverVars, Submit, ScanStep,
      AcquireConn, AcquireFails, ConnectionExists, StartScanRun, StartScanRunFails,
      ConnectTarget, RunModule, EndSweep, SweepFails, MarkFailed, MarkFailedFails,
      SaveScanResults, FinishScanRun, Commit, SaveFails, CommitReplyLost, Release,
      ReleaseFails
<1>1. CASE AcquireConn(s)
  <2>1. CASE poolUp
    <3>1. Goto(s, "check") /\ idle' = idle - 1 /\ idle > 0 /\ pc[s] = "acquire"
      BY <1>1, <2>1 DEF AcquireConn
    <3>2. Cardinality(ScanHolders') = Cardinality(ScanHolders) + 1
      BY <1>0, <3>1, ScanMoves
    <3> QED BY <1>0, <2>1, <3>1, <3>2, HoldersFinite DEF PoolConserved
  <2>2. CASE ~poolUp
    BY <1>0, <1>1, <2>2 DEF AcquireConn, PoolConserved
  <2> QED BY <2>1, <2>2
<1>2. CASE Release(s) \/ ReleaseFails(s)
  <2>1. Goto(s, "done") /\ idle' = idle + 1 /\ pc[s] = "release" /\ poolUp
    BY <1>0, <1>2 DEF Release, ReleaseFails
  <2>2. Cardinality(ScanHolders) = Cardinality(ScanHolders') + 1
    BY <1>0, <2>1, ScanMoves
  <2>3. Cardinality(ScanHolders') \in Nat
    BY <1>0, <2>1, ScanMoves
  <2> QED BY <1>0, <2>1, <2>2, <2>3, HoldersFinite DEF PoolConserved
<1>3. CASE EndSweep(s) \/ SweepFails(s)
  <2>1. \E at \in PCs : Goto(s, at) /\ (poolUp => at \in Holding)
    BY <1>3 DEF EndSweep, SweepFails, Persisting
  <2>2. pc[s] \in Holding /\ idle' = idle
    BY <1>3 DEF EndSweep, SweepFails
  <2>3. poolUp => Cardinality(ScanHolders') = Cardinality(ScanHolders)
    BY <1>0, <2>1, <2>2, ScanMoves
  <2> QED BY <1>0, <2>2, <2>3 DEF PoolConserved
<1>4. CASE Submit(s) \/ AcquireFails(s)
  <2>1. \E at \in PCs \ Holding : Goto(s, at)
    BY <1>4 DEF Submit, AcquireFails
  <2>2. pc[s] \notin Holding /\ idle' = idle
    BY <1>4 DEF Submit, AcquireFails
  <2>3. Cardinality(ScanHolders') = Cardinality(ScanHolders)
    BY <1>0, <2>1, <2>2, ScanMoves
  <2> QED BY <1>0, <2>2, <2>3 DEF PoolConserved
<1>5. CASE RunModule(s)
  BY <1>0, <1>5 DEF RunModule, PoolConserved, ScanHolders
<1>6. CASE \/ ConnectionExists(s) \/ StartScanRun(s) \/ StartScanRunFails(s)
           \/ ConnectTarget(s) \/ MarkFailed(s) \/ MarkFailedFails(s)
           \/ SaveScanResults(s) \/ FinishScanRun(s) \/ Commit(s)
           \/ SaveFails(s) \/ CommitReplyLost(s)
  <2>1. \E at \in Holding : Goto(s, at)
    BY <1>6 DEF ConnectionExists, StartScanRun, StartScanRunFails, ConnectTarget, MarkFailed,
        MarkFailedFails, SaveScanResults, FinishScanRun, Commit, SaveFails,
        CommitReplyLost, Leave
  <2>2. pc[s] \in Holding /\ idle' = idle
    BY <1>6 DEF ConnectionExists, StartScanRun, StartScanRunFails, ConnectTarget, MarkFailed,
        MarkFailedFails, SaveScanResults, FinishScanRun, Commit, SaveFails, CommitReplyLost
  <2>3. Cardinality(ScanHolders') = Cardinality(ScanHolders)
    BY <1>0, <2>1, <2>2, ScanMoves
  <2> QED BY <1>0, <2>2, <2>3 DEF PoolConserved
<1> QED BY <1>1, <1>2, <1>3, <1>4, <1>5, <1>6 DEF ScanStep

(* Nor does a step of a GET request. *)
LEMMA ReadStepPool ==
  ASSUME IInv, NEW r \in Readers, BeginRead(r) \/ ReadStep(r)
  PROVE  PoolConserved' /\ idle' \in Nat
<1> USE DEF ReadPCs, ReadHolding
<1>0. /\ rpc \in [Readers -> ReadPCs] /\ idle \in Nat /\ PoolSize \in Nat
      /\ PoolConserved
      /\ rpc[r] \in ReadHolding => poolUp
      /\ ScanHolders' = ScanHolders
      /\ poolUp \in BOOLEAN /\ poolUp' = poolUp /\ serverUp' = serverUp
  <2>1. rpc[r] \in ReadHolding => poolUp
    BY DEF IInv, PoolConserved, ReadHolders
  <2> QED
    BY <2>1, PoolAssumption
    DEF IInv, TypeOK, ScanHolders, scanVars, serverVars, BeginRead, ReadStep, ReadAcquire,
        ReadAcquireFails, ReadHeader, ReadRows, ReadFails, ReadRelease, ReadReleaseFails
<1>1. CASE ReadAcquire(r)
  <2>1. CASE poolUp
    <3>1. ReadGoto(r, "header") /\ idle' = idle - 1 /\ idle > 0 /\ rpc[r] = "acquire"
      BY <1>1, <2>1 DEF ReadAcquire
    <3>2. Cardinality(ReadHolders') = Cardinality(ReadHolders) + 1
      BY <1>0, <3>1, ReaderMoves
    <3> QED BY <1>0, <2>1, <3>1, <3>2, HoldersFinite DEF PoolConserved
  <2>2. CASE ~poolUp
    <3>1. ReadGoto(r, "answered") /\ idle' = idle /\ rpc[r] = "acquire"
      BY <1>1, <2>2 DEF ReadAcquire
    <3>2. ReadHolders' = ReadHolders
      BY <1>0, <3>1, ReaderMoves
    <3> QED BY <1>0, <2>2, <3>1, <3>2 DEF PoolConserved
  <2> QED BY <2>1, <2>2
<1>2. CASE ReadRelease(r) \/ ReadReleaseFails(r)
  <2>1. ReadGoto(r, "answered") /\ idle' = idle + 1 /\ rpc[r] = "release" /\ poolUp
    BY <1>0, <1>2 DEF ReadRelease, ReadReleaseFails
  <2>2. /\ Cardinality(ReadHolders) = Cardinality(ReadHolders') + 1
        /\ Cardinality(ReadHolders') \in Nat
    BY <1>0, <2>1, ReaderMoves
  <2> QED BY <1>0, <2>1, <2>2, HoldersFinite DEF PoolConserved
<1>3. CASE BeginRead(r) \/ ReadAcquireFails(r)
  <2>1. \E at \in {"acquire", "answered"} : ReadGoto(r, at)
    BY <1>3 DEF BeginRead, ReadAcquireFails
  <2>2. rpc[r] \notin ReadHolding /\ idle' = idle
    BY <1>3 DEF BeginRead, ReadAcquireFails
  <2>3. ReadHolders' = ReadHolders
    BY <1>0, <2>1, <2>2, ReaderMoves
  <2> QED BY <1>0, <2>2, <2>3 DEF PoolConserved
<1>4. CASE ReadHeader(r) \/ ReadRows(r) \/ ReadFails(r)
  <2>1. \E at \in {"rows", "release"} : ReadGoto(r, at)
    BY <1>4 DEF ReadHeader, ReadRows, ReadFails
  <2>2. rpc[r] \in ReadHolding /\ idle' = idle
    BY <1>4 DEF ReadHeader, ReadRows, ReadFails
  <2>3. ReadHolders' = ReadHolders
    BY <1>0, <2>1, <2>2, ReaderMoves
  <2> QED BY <1>0, <2>2, <2>3 DEF PoolConserved
<1> QED BY <1>1, <1>2, <1>3, <1>4 DEF ReadStep

(* A process that ends takes its pool along; a new one starts with a full    *)
(* pool or none, and with no request.                                        *)
LEMMA ServerStepPool ==
  ASSUME IInv, Crash \/ Shutdown \/ Restart
  PROVE  PoolConserved' /\ idle' \in Nat
<1>1. CASE Crash \/ Shutdown
  <2>1. /\ poolUp' = FALSE /\ idle' = 0
        /\ rpc' = [r \in Readers |-> "answered"]
    BY <1>1 DEF Crash, Shutdown, Stop
  <2>2. ReadHolders' = {}
    BY <2>1 DEF ReadHolders, ReadHolding
  <2> QED BY <2>1, <2>2 DEF PoolConserved
<1>2. CASE Restart
  <2>1. ScanHolders' = {}
    BY <1>2 DEF IInv, RowMatchesProgress, Restart, scanVars, ScanHolders, InFlight
  <2>2. ~poolUp
    BY <1>2 DEF IInv, Restart, PoolConserved
  <2>3. ReadHolders' = {}
    BY <1>2, <2>2 DEF IInv, PoolConserved, Restart, readVars, ReadHolders
  <2>4. Cardinality(ScanHolders') = 0 /\ Cardinality(ReadHolders') = 0
    BY <2>1, <2>3, FS_EmptySet
  <2> QED BY <1>2, <2>3, <2>4, PoolAssumption DEF Restart, PoolConserved
<1> QED BY <1>1, <1>2

---------------------------------------------------------------------------
(* The rest of the inductive invariant.                                     *)

(* IInv but for the count of the connections. *)
RowInv ==
    /\ TypeOK
    /\ RowMatchesProgress
    /\ OutcomeAtomic
    /\ ReplyMatchesRow
    /\ PersistedFlagHonest

(* A step of a POST request keeps its row, its answer and its entry in the   *)
(* dict in agreement.                                                        *)
LEMMA ScanStepRows ==
  ASSUME IInv, NEW s \in Scans, Submit(s) \/ ScanStep(s), idle' \in 0..PoolSize
  PROVE  RowInv'
<1> USE ModulesAssumption
    DEF IInv, RowInv, TypeOK, RowMatchesProgress, OutcomeAtomic, ReplyMatchesRow,
        PersistedFlagHonest, PCs, InFlight, Holding, Locked, HasRow, RunStatuses, Replies,
        Flags, Goto, Leave, Remember, Persisting, Committed,
        serverVars, dbVars, scanVars, readVars
<1>1. CASE Submit(s)
  BY <1>1 DEF Submit
<1>2. CASE AcquireConn(s)
  BY <1>2 DEF AcquireConn
<1>3. CASE AcquireFails(s)
  BY <1>3 DEF AcquireFails
<1>4. CASE ConnectionExists(s)
  BY <1>4 DEF ConnectionExists
<1>5. CASE StartScanRun(s)
  BY <1>5 DEF StartScanRun
<1>6. CASE StartScanRunFails(s)
  BY <1>6 DEF StartScanRunFails
<1>7. CASE ConnectTarget(s)
  BY <1>7 DEF ConnectTarget
<1>8. CASE RunModule(s)
  BY <1>8 DEF RunModule
<1>9. CASE EndSweep(s)
  BY <1>9 DEF EndSweep
<1>10. CASE SweepFails(s)
  BY <1>10 DEF SweepFails
<1>11. CASE MarkFailed(s)
  BY <1>11 DEF MarkFailed
<1>12. CASE MarkFailedFails(s)
  BY <1>12 DEF MarkFailedFails
<1>13. CASE SaveScanResults(s)
  BY <1>13 DEF SaveScanResults
<1>14. CASE FinishScanRun(s)
  BY <1>14 DEF FinishScanRun
<1>15. CASE Commit(s)
  BY <1>15 DEF Commit
<1>16. CASE SaveFails(s)
  BY <1>16 DEF SaveFails
<1>17. CASE CommitReplyLost(s)
  BY <1>17 DEF CommitReplyLost
<1>18. CASE Release(s)
  <2>1. CASE reply[s] = "saved"
    <3>1. mem' = [mem EXCEPT ![s] = "saved"]
      BY <1>18, <2>1 DEF Release
    <3>2. swept[s] = NModules
      BY <1>18, <2>1 DEF Release
    <3> QED BY <1>18, <2>1, <3>1, <3>2 DEF Release
  <2>2. CASE reply[s] # "saved"
    BY <1>18, <2>2 DEF Release
  <2> QED BY <2>1, <2>2
<1>19. CASE ReleaseFails(s)
  BY <1>19 DEF ReleaseFails
<1> QED
  BY ONLY Submit(s) \/ ScanStep(s), <1>1, <1>2, <1>3, <1>4, <1>5, <1>6, <1>7, <1>8, <1>9, <1>10, <1>11, <1>12, <1>13, <1>14, <1>15, <1>16, <1>17, <1>18, <1>19
     DEF ScanStep

(* A step of a GET request writes nothing but its own view. *)
LEMMA ReadStepRows ==
  ASSUME IInv, NEW r \in Readers, BeginRead(r) \/ ReadStep(r), idle' \in 0..PoolSize
  PROVE  RowInv'
<1>1. /\ UNCHANGED <<serverVars, dbVars, mem, scanVars>>
      /\ rpc' \in [Readers -> ReadPCs]
  BY DEF IInv, TypeOK, ReadPCs, ReadHolding, ReadGoto, BeginRead, ReadStep,
         ReadAcquire, ReadAcquireFails, ReadHeader, ReadRows, ReadFails, ReadRelease, ReadReleaseFails
<1>2. view' \in [Readers -> Views]
  <2>0. /\ view \in [Readers -> Views] /\ view[r] \in Views /\ view[r].scan \in Scans
        /\ runs \in [Scans -> RunStatuses]
        /\ rows \in [Scans -> 0..NModules] /\ swept \in [Scans -> 0..NModules]
    BY DEF IInv, TypeOK, Views
  <2>a. ASSUME NEW a \in ReadAnswers, Answer(r, a) PROVE view' \in [Readers -> Views]
    <3>1. [view[r] EXCEPT !.answer = a] \in Views
      BY <2>0 DEF Views
    <3> QED BY <2>0, <2>a, <3>1 DEF Answer
  <2>b. ASSUME LookupMemory(r) PROVE view' \in [Readers -> Views]
    <3>1. CASE mem[view[r].scan] # "absent"
      <4>1. swept[view[r].scan] \in 0..NModules /\ "completed" \in ReadAnswers
        BY <2>0 DEF ReadAnswers
      <4>2. [view[r] EXCEPT !.answer = "completed", !.found = swept[view[r].scan]] \in Views
        BY <2>0, <4>1 DEF Views
      <4>3. view' = [view EXCEPT ![r] = [view[r] EXCEPT !.answer = "completed",
                                                       !.found = swept[view[r].scan]]]
        BY <2>0, <2>b, <3>1 DEF LookupMemory
      <4> QED BY <2>0, <4>2, <4>3
    <3>2. CASE mem[view[r].scan] = "absent"
      BY <2>a, <2>b, <3>2 DEF LookupMemory, ReadAnswers
    <3> QED BY <3>1, <3>2
  <2>1. CASE BeginRead(r)
    BY <2>0, <2>1, ModulesAssumption DEF BeginRead, Views, ReadAnswers
  <2>2. CASE ReadAcquire(r)
    <3>1. UNCHANGED view \/ LookupMemory(r) \/ Answer(r, "unavailable")
      BY <2>2 DEF ReadAcquire
    <3> QED BY <2>0, <2>a, <2>b, <3>1 DEF ReadAnswers
  <2>3. CASE ReadAcquireFails(r)
    BY <2>3, <2>a DEF ReadAcquireFails, ReadAnswers
  <2>4. CASE ReadHeader(r)
    <3>1. CASE HasRow(view[r].scan)
      <4>1. runs[view[r].scan] \in ReadAnswers
        BY <2>0, <3>1 DEF HasRow, RunStatuses, ReadAnswers
      <4>. DEFINE n == IF view[r].kind = "report" THEN rows[view[r].scan] ELSE 0
      <4>0. n \in 0..NModules
        BY <2>0, ModulesAssumption
      <4>2. view' = [view EXCEPT ![r] = [view[r] EXCEPT !.answer = runs[view[r].scan],
                                                       !.count = n]]
        BY <2>0, <2>4, <3>1 DEF ReadHeader
      <4>. HIDE DEF n
      <4>3. [view[r] EXCEPT !.answer = runs[view[r].scan], !.count = n] \in Views
        BY <2>0, <4>0, <4>1 DEF Views
      <4> QED BY <2>0, <4>2, <4>3
    <3>2. CASE ~HasRow(view[r].scan)
      BY <2>4, <2>a, <3>2 DEF ReadHeader, ReadAnswers
    <3> QED BY <3>1, <3>2
  <2>5. CASE ReadRows(r)
    <3>1. [view[r] EXCEPT !.found = rows[view[r].scan]] \in Views
      BY <2>0 DEF Views
    <3> QED BY <2>0, <2>5, <3>1 DEF ReadRows
  <2>6. CASE ReadFails(r)
    BY <2>6, <2>a DEF ReadFails, ReadAnswers
  <2>7. CASE ReadRelease(r)
    <3>1. UNCHANGED view \/ LookupMemory(r)
      BY <2>7 DEF ReadRelease
    <3> QED BY <2>0, <2>b, <3>1
  <2>8. CASE ReadReleaseFails(r)
    BY <2>8, <2>a DEF ReadReleaseFails, ReadAnswers
  <2> QED BY <2>1, <2>2, <2>3, <2>4, <2>5, <2>6, <2>7, <2>8 DEF ReadStep
<1> QED
  BY <1>1, <1>2
  DEF IInv, RowInv, TypeOK, RowMatchesProgress, OutcomeAtomic, ReplyMatchesRow,
      PersistedFlagHonest, HasRow, Locked, serverVars, dbVars, scanVars

(* A view whose answer is withdrawn is a view. *)
LEMMA BlankViews ==
  ASSUME NEW v \in Views
  PROVE  [v EXCEPT !.answer = "none", !.count = 0, !.found = 0] \in Views
<1>1. 0 \in 0..NModules
  BY ModulesAssumption
<1>2. "none" \in ReadAnswers
  BY DEF ReadAnswers
<1> QED BY <1>1, <1>2 DEF Views

(* A process that ends kills its requests and forgets its dict; a deletion   *)
(* takes runs with their results.                                            *)
LEMMA OtherStepRows ==
  ASSUME IInv, Crash \/ Shutdown \/ Restart \/ (\E t \in Targets : DeleteTarget(t)),
         idle' \in 0..PoolSize
  PROVE  RowInv'
<1> USE ModulesAssumption
    DEF IInv, RowInv, TypeOK, RowMatchesProgress, OutcomeAtomic, ReplyMatchesRow,
        PersistedFlagHonest, PCs, InFlight, Holding, Locked, HasRow, RunStatuses, Replies,
        Flags, serverVars, dbVars, scanVars, readVars
<1>1. CASE Crash \/ Shutdown
  <2>1. Stop
    BY <1>1 DEF Crash, Shutdown
  <2>2. view' \in [Readers -> Views]
    <3>1. ASSUME NEW r \in Readers
          PROVE  [view[r] EXCEPT !.answer = "none", !.count = 0, !.found = 0] \in Views
      <4>1. view[r] \in Views
        OBVIOUS
      <4> QED BY <4>1, BlankViews
    <3> QED BY <2>1, <3>1 DEF Stop
  <2>3. TypeOK'
    BY <2>1, <2>2 DEF Stop, ReadPCs
  <2>4. RowMatchesProgress'
    BY <2>1 DEF Stop
  <2>5. OutcomeAtomic' /\ ReplyMatchesRow' /\ PersistedFlagHonest'
    BY <2>1 DEF Stop
  <2> QED BY <2>3, <2>4, <2>5
<1>2. CASE Restart
  BY <1>2, RestartsAssumption DEF Restart
<1>3. CASE \E t \in Targets : DeleteTarget(t)
  BY <1>3 DEF DeleteTarget
<1> QED BY <1>1, <1>2, <1>3

---------------------------------------------------------------------------
(* The theorems.                                                            *)

(* No request has begun, and every pool connection is free. *)
LEMMA InitIInv == Init => IInv
<1> SUFFICES ASSUME Init PROVE IInv
  OBVIOUS
<1>1. TypeOK
  <2>1. 0 \in 0..NModules /\ 0 \in 0..MaxRestarts /\ idle \in 0..PoolSize
    BY ModulesAssumption, RestartsAssumption, PoolAssumption DEF Init
  <2>2. view \in [Readers -> Views]
    BY DEF Init
  <2> QED BY <2>1, <2>2 DEF Init, TypeOK, RunStatuses, Flags, PCs, Replies, ReadPCs
<1>2. PoolConserved
  <2>1. ScanHolders = {} /\ ReadHolders = {}
    BY DEF Init, ScanHolders, ReadHolders, Holding, ReadHolding
  <2>2. Cardinality(ScanHolders) = 0 /\ Cardinality(ReadHolders) = 0
    BY <2>1, NoHolders
  <2> QED BY <2>1, <2>2, PoolAssumption DEF Init, PoolConserved
<1>3. RowMatchesProgress /\ OutcomeAtomic /\ ReplyMatchesRow /\ PersistedFlagHonest
  BY DEF Init, RowMatchesProgress, OutcomeAtomic, ReplyMatchesRow, PersistedFlagHonest,
         Locked, InFlight, Holding
<1> QED BY <1>1, <1>2, <1>3 DEF IInv

(* Every step keeps the invariant. *)
LEMMA NextIInv == IInv /\ [Next]_vars => IInv'
<1> SUFFICES ASSUME IInv, [Next]_vars PROVE IInv'
  OBVIOUS
<1>1. ASSUME PoolConserved', idle' \in Nat
      PROVE  idle' \in 0..PoolSize
  <2>1. Cardinality(ScanHolders') \in Nat /\ Cardinality(ReadHolders') \in Nat
    <3>1. ScanHolders' \in SUBSET Scans /\ ReadHolders' \in SUBSET Readers
      BY DEF ScanHolders, ReadHolders
    <3> QED BY <3>1, SetsAssumption, FS_Subset, FS_CardinalityType
  <2> QED BY <1>1, <2>1, PoolAssumption DEF PoolConserved
<1>2. CASE \E s \in Scans : Submit(s) \/ ScanStep(s)
  BY <1>1, <1>2, ScanStepPool, ScanStepRows DEF IInv, RowInv
<1>3. CASE \E r \in Readers : BeginRead(r) \/ ReadStep(r)
  BY <1>1, <1>3, ReadStepPool, ReadStepRows DEF IInv, RowInv
<1>4. CASE Crash \/ Shutdown \/ Restart
  BY <1>1, <1>4, ServerStepPool, OtherStepRows DEF IInv, RowInv
<1>5. CASE \E t \in Targets : DeleteTarget(t)
  <2>1. PoolConserved' /\ idle' \in 0..PoolSize
    BY <1>5 DEF DeleteTarget, IInv, TypeOK, PoolConserved, ScanHolders, ReadHolders,
                serverVars, scanVars, readVars
  <2> QED BY <1>5, <2>1, OtherStepRows DEF IInv, RowInv
<1>6. CASE UNCHANGED vars
  BY <1>6
  DEF vars, serverVars, dbVars, scanVars, readVars, IInv, TypeOK, PoolConserved,
      RowMatchesProgress, OutcomeAtomic, ReplyMatchesRow, PersistedFlagHonest, ScanHolders,
      ReadHolders, HasRow, Locked
<1> QED BY <1>2, <1>3, <1>4, <1>5, <1>6 DEF Next

(* IInv holds in every reachable state, for every instance. *)
THEOREM InvariantHolds == Spec => []IInv
<1>1. Init => IInv
  BY InitIInv
<1>2. IInv /\ [Next]_vars => IInv'
  BY NextIInv
<1> QED BY <1>1, <1>2, PTL DEF Spec

(* Type correctness: among others a sweep never has more findings than       *)
(* diagnostics and the pool never more idle connections than it has.         *)
THEOREM TypeCorrect == Spec => []TypeOK
<1>1. IInv => TypeOK
  BY DEF IInv
<1> QED BY <1>1, InvariantHolds, PTL

(* No path of a handler keeps a connection of the pool. *)
THEOREM PoolIsConserved == Spec => []PoolConserved
<1>1. IInv => PoolConserved
  BY DEF IInv
<1> QED BY <1>1, InvariantHolds, PTL

(* A run's findings are all there when it is "completed" and not there       *)
(* otherwise.                                                                *)
THEOREM OutcomeIsAtomic == Spec => []OutcomeAtomic
<1>1. IInv => OutcomeAtomic
  BY DEF IInv
<1> QED BY <1>1, InvariantHolds, PTL

(* What the caller is told agrees with the recorded run. *)
THEOREM ReplyIsTrue == Spec => []ReplyMatchesRow
<1>1. IInv => ReplyMatchesRow
  BY DEF IInv
<1> QED BY <1>1, InvariantHolds, PTL

(* A run held only in memory is never mistaken for a saved one. *)
THEOREM PersistedFlagIsTrue == Spec => []PersistedFlagHonest
<1>1. IInv => PersistedFlagHonest
  BY DEF IInv
<1> QED BY <1>1, InvariantHolds, PTL

(* The row of a run and the place of its request agree. *)
THEOREM ProgressIsTrue == Spec => []RowMatchesProgress
<1>1. IInv => RowMatchesProgress
  BY DEF IInv
<1> QED BY <1>1, InvariantHolds, PTL

---------------------------------------------------------------------------
(* A closed run stays closed.                                               *)

(* What the status of a run may become in one step. *)
LEMMA RunStep ==
  ASSUME IInv, [Next]_vars, NEW s \in Scans
  PROVE  /\ runs[s] \in {"completed", "failed"} => runs'[s] \in {runs[s], "deleted"}
         /\ runs[s] = "deleted" => runs'[s] = "deleted"
<1> USE DEF IInv, TypeOK, RowMatchesProgress, HasRow, Locked, dbVars
<1>1. CASE \E z \in Scans : Submit(z) \/ ScanStep(z)
  <2> PICK z \in Scans : Submit(z) \/ ScanStep(z)
    BY <1>1
  <2>1. CASE StartScanRun(z)
    BY <2>1 DEF StartScanRun
  <2>2. CASE StartScanRunFails(z)
    BY <2>2 DEF StartScanRunFails
  <2>3. CASE MarkFailed(z)
    BY <2>3 DEF MarkFailed
  <2>4. CASE Commit(z) \/ CommitReplyLost(z)
    BY <2>4 DEF Commit, CommitReplyLost, Committed
  <2>5. CASE UNCHANGED runs
    BY <2>5
  <2> QED
    BY <2>1, <2>2, <2>3, <2>4, <2>5
    DEF ScanStep, Submit, AcquireConn, AcquireFails, ConnectionExists, ConnectTarget, RunModule, EndSweep, SweepFails, MarkFailedFails, SaveScanResults, FinishScanRun, SaveFails, Release, ReleaseFails
<1>2. CASE \E r \in Readers : BeginRead(r) \/ ReadStep(r)
  BY <1>2
  DEF BeginRead, ReadStep, ReadAcquire, ReadAcquireFails, ReadHeader, ReadRows, ReadFails,
      ReadRelease, ReadReleaseFails
<1>3. CASE Crash \/ Shutdown \/ Restart
  BY <1>3 DEF Crash, Shutdown, Stop, Restart
<1>4. CASE \E t \in Targets : DeleteTarget(t)
  BY <1>4 DEF DeleteTarget
<1>5. CASE UNCHANGED vars
  BY <1>5 DEF vars
<1> QED BY <1>1, <1>2, <1>3, <1>4, <1>5 DEF Next

(* finish_scan_run is an unconditional UPDATE; still no run is closed twice. *)
THEOREM TerminalIsStable == Spec => TerminalStable
<1>1. IInv /\ [Next]_vars
      => [\A s \in Scans : runs[s] \in {"completed", "failed"}
                            => runs'[s] \in {runs[s], "deleted"}]_vars
  BY RunStep
<1> QED BY <1>1, InvariantHolds, PTL DEF Spec, TerminalStable

---------------------------------------------------------------------------
(* A reader that is shown "completed" is shown every finding.               *)

(* What a reader has read so far stays true of the run: "completed" can only *)
(* become "deleted", and findings that were whole stay so.                   *)
ReadsTrue(r) ==
    view[r].answer = "completed" =>
        /\ rpc[r] = "rows" => runs[view[r].scan] \in {"completed", "deleted"}
        /\ rpc[r] \in {"release", "answered"} =>
              view[r].found = NModules \/ runs[view[r].scan] = "deleted"
        /\ rpc[r] \notin {"acquire", "header"}

ReadInv == \A r \in Readers : ReadsTrue(r)

(* Every step keeps what a reader knows between its statements. *)
LEMMA ReadInvStep == IInv /\ ReadInv /\ [Next]_vars => ReadInv'
<1> SUFFICES ASSUME IInv, ReadInv, [Next]_vars PROVE ReadInv'
  OBVIOUS
<1>0. /\ TypeOK /\ OutcomeAtomic /\ PersistedFlagHonest
      /\ \A r \in Readers : view[r].scan \in Scans
  BY DEF IInv, TypeOK, Views
<1>1. ASSUME NEW r \in Readers, view'[r] = view[r], rpc'[r] = rpc[r]
      PROVE  ReadsTrue(r)'
  BY <1>0, <1>1, RunStep DEF ReadInv, ReadsTrue
<1>2. ASSUME UNCHANGED readVars
      PROVE  ReadInv'
  BY <1>1, <1>2 DEF ReadInv, readVars
<1>3. CASE \E r \in Readers : BeginRead(r) \/ ReadStep(r)
  <2> PICK r \in Readers : BeginRead(r) \/ ReadStep(r)
    BY <1>3
  <2>1. \A q \in Readers \ {r} : view'[q] = view[q] /\ rpc'[q] = rpc[q]
    BY <1>0
    DEF TypeOK, BeginRead, ReadStep, ReadAcquire, ReadAcquireFails, ReadHeader, ReadRows,
        ReadFails, ReadRelease, ReadReleaseFails, ReadGoto, Answer, LookupMemory
  <2>2. ReadsTrue(r)'
    <3> DEFINE v == view[r]
               w == view'[r]
    <3>0. /\ ReadsTrue(r) /\ v \in Views /\ v.scan \in Scans
          /\ view \in [Readers -> Views] /\ rpc \in [Readers -> ReadPCs]
      BY <1>0 DEF ReadInv, TypeOK
    <3>1. ASSUME LookupMemory(r)
          PROVE  w.scan = v.scan /\ (w.answer = "completed" => w.found = NModules)
      <4>1. CASE mem[v.scan] # "absent"
        <5>1. w.scan = v.scan /\ w.found = swept[v.scan]
          BY <3>0, <3>1, <4>1 DEF LookupMemory, Views
        <5> QED BY <1>0, <3>0, <4>1, <5>1 DEF PersistedFlagHonest
      <4>2. CASE mem[v.scan] = "absent"
        BY <3>0, <3>1, <4>2 DEF LookupMemory, Answer, Views
      <4> QED BY <4>1, <4>2
    <3>2. CASE BeginRead(r)
      BY <3>0, <3>2 DEF BeginRead, ReadsTrue
    <3>3. CASE ReadAcquire(r)
      <4>1. rpc[r] = "acquire" /\ v.answer # "completed"
        BY <3>0, <3>3 DEF ReadAcquire, ReadsTrue
      <4>2. CASE poolUp
        BY <3>3, <4>1, <4>2 DEF ReadAcquire, ReadsTrue
      <4>3. CASE ~poolUp /\ v.kind = "poll"
        <5>1. LookupMemory(r) /\ rpc'[r] = "answered"
          BY <3>0, <3>3, <4>3 DEF ReadAcquire, ReadGoto
        <5> QED BY <3>1, <5>1 DEF ReadsTrue
      <4>4. CASE ~poolUp /\ v.kind # "poll"
        <5>1. Answer(r, "unavailable")
          BY <3>3, <4>4 DEF ReadAcquire
        <5> QED BY <3>0, <5>1 DEF Answer, ReadsTrue, Views
      <4> QED BY <4>2, <4>3, <4>4
    <3>4. CASE ReadAcquireFails(r)
      BY <3>0, <3>4 DEF ReadAcquireFails, ReadsTrue, Answer, Views
    <3>5. CASE ReadHeader(r)
      <4>1. CASE HasRow(v.scan)
        <5>1. w.answer = runs[v.scan] /\ w.scan = v.scan /\ rpc'[r] = "rows" /\ runs' = runs
          BY <3>0, <3>5, <4>1 DEF ReadHeader, ReadGoto, dbVars, Views
        <5> QED BY <5>1 DEF ReadsTrue
      <4>2. CASE ~HasRow(v.scan)
        BY <3>0, <3>5, <4>2 DEF ReadHeader, Answer, ReadsTrue, Views
      <4> QED BY <4>1, <4>2
    <3>6. CASE ReadRows(r)
      <4>1. /\ rpc[r] = "rows" /\ rpc'[r] = "release"
            /\ w.found = rows[v.scan] /\ w.scan = v.scan /\ w.answer = v.answer
            /\ runs' = runs
        BY <3>0, <3>6 DEF ReadRows, ReadGoto, dbVars, Views
      <4> QED BY <1>0, <3>0, <4>1 DEF ReadsTrue, OutcomeAtomic
    <3>7. CASE ReadFails(r)
      BY <3>0, <3>7 DEF ReadFails, Answer, ReadsTrue, Views
    <3>8. CASE ReadRelease(r)
      <4>1. rpc[r] = "release" /\ rpc'[r] = "answered" /\ runs' = runs
        BY <3>0, <3>8 DEF ReadRelease, ReadGoto, dbVars
      <4>2. CASE v.kind = "poll" /\ v.answer = "notfound"
        BY <3>1, <3>8, <4>1, <4>2 DEF ReadRelease, ReadsTrue
      <4>3. CASE ~(v.kind = "poll" /\ v.answer = "notfound")
        BY <3>0, <3>8, <4>1, <4>3 DEF ReadRelease, ReadsTrue
      <4> QED BY <4>2, <4>3
    <3>9. CASE ReadReleaseFails(r)
      BY <3>0, <3>9 DEF ReadReleaseFails, Answer, ReadsTrue, Views
    <3> QED BY <3>2, <3>3, <3>4, <3>5, <3>6, <3>7, <3>8, <3>9 DEF ReadStep
  <2> QED BY <1>1, <2>1, <2>2 DEF ReadInv
<1>4. CASE \E s \in Scans : Submit(s) \/ ScanStep(s)
  BY <1>2, <1>4
  DEF Submit, ScanStep, AcquireConn, AcquireFails, ConnectionExists, StartScanRun,
      StartScanRunFails, ConnectTarget, RunModule, EndSweep, SweepFails, MarkFailed,
      MarkFailedFails, SaveScanResults, FinishScanRun, Commit, SaveFails, CommitReplyLost,
      Release, ReleaseFails
<1>5. CASE Crash \/ Shutdown
  <2>1. Stop
    BY <1>5 DEF Crash, Shutdown
  <2>2. \A r \in Readers : view'[r].answer = "none"
    BY <1>0, <2>1 DEF Stop, TypeOK, Views
  <2> QED BY <2>2 DEF ReadInv, ReadsTrue
<1>6. CASE Restart \/ UNCHANGED vars \/ (\E t \in Targets : DeleteTarget(t))
  BY <1>2, <1>6 DEF Restart, vars, DeleteTarget
<1> QED BY <1>3, <1>4, <1>5, <1>6 DEF Next

(* The status and the findings are read by two statements, status first. *)
THEOREM AnswerIsWhole == Spec => []WholeAnswer
<1>1. Init => ReadInv
  BY DEF Init, ReadInv, ReadsTrue, Views
<1>2. IInv /\ ReadInv /\ [Next]_vars => ReadInv'
  BY ReadInvStep
<1>3. ReadInv => WholeAnswer
  BY DEF ReadInv, ReadsTrue, WholeAnswer
<1> QED BY <1>1, <1>2, <1>3, InvariantHolds, PTL DEF Spec

---------------------------------------------------------------------------
(* A poll that found no row finds the scan in the dict once it was saved.    *)

(* A reader between the row it did not find and the dict: a run saved since  *)
(* is there.                                                                 *)
Missed(r) ==
    /\ rpc[r] = "rows" => view[r].answer # "notfound"
    /\ rpc[r] = "release" /\ view[r].answer = "notfound" =>
          LET s == view[r].scan IN
          pc[s] = "done" /\ reply[s] = "saved" /\ runs[s] = "completed" => mem[s] # "absent"

MissedInv == \A r \in Readers : Missed(r)

(* A run is told to be saved and enters the dict in one step. *)
LEMMA SavedIsRemembered ==
  ASSUME IInv, NEW s \in Scans, Submit(s) \/ ScanStep(s), NEW z \in Scans,
         pc'[z] = "done", reply'[z] = "saved", runs'[z] = "completed"
  PROVE  \/ mem'[z] # "absent"
         \/ /\ pc[z] = "done" /\ reply[z] = "saved" /\ runs[z] = "completed"
            /\ mem'[z] = mem[z]
<1>0. /\ pc \in [Scans -> PCs] /\ reply \in [Scans -> Replies] /\ mem \in [Scans -> Flags]
      /\ runs \in [Scans -> RunStatuses]
  BY DEF IInv, TypeOK
<1> USE DEF Goto, Leave, Remember, dbVars
<1>1. CASE Release(s)
  BY <1>0, <1>1 DEF Release
<1>2. CASE EndSweep(s)
  BY <1>0, <1>2 DEF EndSweep
<1>3. CASE Commit(s) \/ CommitReplyLost(s)
  <2>1. pc' = [pc EXCEPT ![s] = "release"] /\ mem' = mem /\ pc[s] = "commit"
        /\ reply' \in {[reply EXCEPT ![s] = "saved"], [reply EXCEPT ![s] = "save_error"]}
        /\ runs' = [runs EXCEPT ![s] = "completed"]
    BY <1>3 DEF Commit, CommitReplyLost, Committed
  <2> QED BY <1>0, <2>1
<1>4. CASE StartScanRun(s) \/ StartScanRunFails(s) \/ MarkFailed(s) \/ MarkFailedFails(s)
  <2>1. /\ mem' = mem
        /\ \E at \in {"connect", "release"} : pc' = [pc EXCEPT ![s] = at]
    BY <1>4 DEF StartScanRun, StartScanRunFails, MarkFailed, MarkFailedFails
  <2>2. z # s
    BY <1>0, <2>1
  <2>3. runs' = runs \/ \E st \in RunStatuses : runs' = [runs EXCEPT ![s] = st]
    BY <1>4 DEF StartScanRun, StartScanRunFails, MarkFailed, MarkFailedFails, RunStatuses
  <2>4. reply' = reply \/ \E a \in Replies : reply' = [reply EXCEPT ![s] = a]
    BY <1>4 DEF StartScanRun, StartScanRunFails, MarkFailed, MarkFailedFails, Replies
  <2> QED BY <1>0, <2>1, <2>2, <2>3, <2>4
<1>5. CASE AcquireFails(s) \/ ReleaseFails(s) \/ SweepFails(s)
  <2>1. /\ mem' = mem /\ runs' = runs
        /\ \E at \in {"done", "mark"} : pc' = [pc EXCEPT ![s] = at]
        /\ \/ reply' \in {[reply EXCEPT ![s] = "error"], [reply EXCEPT ![s] = "sweep_error"]}
           \/ reply' = reply /\ pc' = [pc EXCEPT ![s] = "mark"]
    BY <1>5 DEF AcquireFails, ReleaseFails, SweepFails
  <2> QED BY <1>0, <2>1
<1>6. CASE ConnectionExists(s) \/ SaveFails(s)
  <2>1. /\ mem' = mem /\ runs' = runs
        /\ \E at \in {"start", "release"} : pc' = [pc EXCEPT ![s] = at]
        /\ reply' = reply \/ \E a \in Replies : reply' = [reply EXCEPT ![s] = a]
    BY <1>6 DEF ConnectionExists, SaveFails, Replies
  <2> QED BY <1>0, <2>1
<1>7. CASE Submit(s) \/ AcquireConn(s) \/ ConnectTarget(s) \/ RunModule(s) \/ SaveScanResults(s)
           \/ FinishScanRun(s)
  <2>1. /\ mem' = mem /\ runs' = runs /\ reply' = reply
        /\ pc' = pc \/ \E at \in InFlight : pc' = [pc EXCEPT ![s] = at]
    BY <1>7 DEF Submit, AcquireConn, ConnectTarget, RunModule, SaveScanResults, FinishScanRun,
                InFlight, Holding
  <2> QED BY <1>0, <2>1 DEF InFlight, Holding
<1> QED BY <1>1, <1>2, <1>3, <1>4, <1>5, <1>6, <1>7 DEF ScanStep

(* Every step keeps what a poll that missed the row will find. *)
LEMMA MissedStep == IInv /\ MissedInv /\ [Next]_vars => MissedInv'
<1> SUFFICES ASSUME IInv, MissedInv, [Next]_vars PROVE MissedInv'
  OBVIOUS
<1>0. /\ view \in [Readers -> Views] /\ rpc \in [Readers -> ReadPCs]
      /\ \A r \in Readers : view[r].scan \in Scans
  BY DEF IInv, TypeOK, Views
<1>1. CASE \E s \in Scans : Submit(s) \/ ScanStep(s)
  <2> PICK s \in Scans : Submit(s) \/ ScanStep(s)
    BY <1>1
  <2>1. UNCHANGED readVars
    BY DEF Submit, ScanStep, AcquireConn, AcquireFails, ConnectionExists, StartScanRun,
           StartScanRunFails, ConnectTarget, RunModule, EndSweep, SweepFails, MarkFailed,
           MarkFailedFails, SaveScanResults, FinishScanRun, Commit, SaveFails, CommitReplyLost,
           Release, ReleaseFails
  <2>0. \A r \in Readers : rpc[r] = "rows" => view[r].answer # "notfound"
    BY DEF MissedInv, Missed
  <2> SUFFICES ASSUME NEW r \in Readers, rpc[r] = "release", view[r].answer = "notfound",
                      pc'[view[r].scan] = "done", reply'[view[r].scan] = "saved",
                      runs'[view[r].scan] = "completed"
               PROVE  mem'[view[r].scan] # "absent"
    BY <2>0, <2>1 DEF MissedInv, Missed, readVars
  <2>2. Missed(r)
    BY DEF MissedInv
  <2> QED BY <1>0, <2>2, SavedIsRemembered DEF Missed
<1>2. CASE \E r \in Readers : BeginRead(r) \/ ReadStep(r)
  <2> PICK r \in Readers : BeginRead(r) \/ ReadStep(r)
    BY <1>2
  <2>1. \A q \in Readers \ {r} : view'[q] = view[q] /\ rpc'[q] = rpc[q]
    BY <1>0
    DEF BeginRead, ReadStep, ReadAcquire, ReadAcquireFails, ReadHeader, ReadRows,
        ReadFails, ReadRelease, ReadReleaseFails, ReadGoto, Answer, LookupMemory
  <2>2. UNCHANGED <<pc, reply, runs, mem>>
    BY DEF BeginRead, ReadStep, ReadAcquire, ReadAcquireFails, ReadHeader, ReadRows, ReadFails,
           ReadRelease, ReadReleaseFails, scanVars, dbVars
  <2>3. Missed(r)'
    <3>1. CASE ReadHeader(r)
      <4>1. view'[r].scan = view[r].scan
        BY <1>0, <3>1 DEF ReadHeader, Answer, Views
      <4>2. CASE HasRow(view[r].scan)
        <5>1. rpc'[r] = "rows" /\ view'[r].answer = runs[view[r].scan]
          BY <1>0, <3>1, <4>2 DEF ReadHeader, ReadGoto, Views
        <5>2. runs[view[r].scan] # "notfound"
          BY <1>0 DEF IInv, TypeOK, RunStatuses
        <5> QED BY <5>1, <5>2 DEF Missed
      <4>3. CASE ~HasRow(view[r].scan)
        <5>1. rpc'[r] = "release" /\ runs'[view'[r].scan] # "completed"
          BY <1>0, <2>2, <3>1, <4>1, <4>3 DEF ReadHeader, ReadGoto, HasRow
        <5> QED BY <5>1 DEF Missed
      <4> QED BY <4>2, <4>3
    <3>2. CASE ReadRows(r)
      <4>1. rpc[r] = "rows" /\ rpc'[r] = "release"
            /\ view'[r].scan = view[r].scan /\ view'[r].answer = view[r].answer
        BY <1>0, <3>2 DEF ReadRows, ReadGoto, Views
      <4>2. view[r].answer # "notfound"
        BY <4>1 DEF MissedInv, Missed
      <4> QED BY <4>1, <4>2 DEF Missed
    <3>3. CASE ReadFails(r)
      BY <1>0, <3>3 DEF ReadFails, Answer, Missed, Views
    <3>4. ASSUME rpc'[r] \notin {"release", "rows"} PROVE Missed(r)'
      BY <3>4 DEF Missed
    <3>5. ASSUME BeginRead(r) \/ ReadAcquire(r) \/ ReadAcquireFails(r) \/ ReadRelease(r)
                 \/ ReadReleaseFails(r)
          PROVE  rpc'[r] \notin {"release", "rows"}
      BY <1>0, <3>5 DEF BeginRead, ReadAcquire, ReadAcquireFails, ReadRelease, ReadReleaseFails,
                        ReadGoto
    <3> QED BY <3>1, <3>2, <3>3, <3>4, <3>5 DEF ReadStep
  <2>4. ASSUME NEW q \in Readers, q # r PROVE Missed(q)'
    BY <2>1, <2>2, <2>4 DEF MissedInv, Missed
  <2> QED BY <2>3, <2>4 DEF MissedInv
<1>3. CASE Crash \/ Shutdown
  BY <1>3 DEF Crash, Shutdown, Stop, MissedInv, Missed
<1>4. CASE \E t \in Targets : DeleteTarget(t)
  <2>1. UNCHANGED <<pc, reply, mem, rpc, view>>
    BY <1>4 DEF DeleteTarget, scanVars, readVars
  <2>2. \A s \in Scans : runs'[s] = "completed" => runs[s] = "completed"
    BY <1>4 DEF DeleteTarget
  <2> QED BY <1>0, <2>1, <2>2 DEF MissedInv, Missed
<1>5. CASE Restart \/ UNCHANGED vars
  BY <1>5 DEF Restart, vars, scanVars, readVars, dbVars, MissedInv, Missed
<1> QED BY <1>1, <1>2, <1>3, <1>4, <1>5 DEF Next

(* A poll looks for the row first and for the dict afterwards (get_scan),    *)
(* while the request it asks about commits the row before it enters the      *)
(* dict: no order of the two makes a saved scan unknown.                     *)
THEOREM SavedIsFound == Spec => FoundOnceSaved
<1>1. Init => MissedInv
  BY DEF Init, MissedInv, Missed
<1>2. IInv /\ MissedInv /\ [Next]_vars
      => [\A r \in Readers :
             LET s == view[r].scan IN
             ~ /\ poolUp /\ poolUp'
               /\ rpc[r] # "answered" /\ rpc'[r] = "answered"
               /\ view[r].kind = "poll" /\ view'[r].answer = "notfound"
               /\ pc[s] = "done" /\ reply[s] = "saved" /\ runs[s] = "completed"]_vars
  <2> SUFFICES ASSUME IInv, MissedInv, [Next]_vars, NEW r \in Readers, poolUp, poolUp',
                      rpc[r] # "answered", rpc'[r] = "answered",
                      view[r].kind = "poll", view'[r].answer = "notfound"
               PROVE  ~ /\ pc[view[r].scan] = "done" /\ reply[view[r].scan] = "saved"
                        /\ runs[view[r].scan] = "completed"
    OBVIOUS
  <2>0. /\ view \in [Readers -> Views] /\ rpc \in [Readers -> ReadPCs]
        /\ view[r] \in Views /\ view[r].scan \in Scans /\ Missed(r)
    BY DEF IInv, TypeOK, Views, MissedInv
  <2>1. CASE \E s \in Scans : Submit(s) \/ ScanStep(s)
    BY <2>1
    DEF Submit, ScanStep, AcquireConn, AcquireFails, ConnectionExists, StartScanRun,
        StartScanRunFails, ConnectTarget, RunModule, EndSweep, SweepFails, MarkFailed,
        MarkFailedFails, SaveScanResults, FinishScanRun, Commit, SaveFails, CommitReplyLost,
        Release, ReleaseFails, readVars
  <2>2. ASSUME NEW q \in Readers, BeginRead(q) \/ ReadStep(q), q # r PROVE rpc'[r] = rpc[r]
    BY <2>0, <2>2
    DEF BeginRead, ReadStep, ReadAcquire, ReadAcquireFails, ReadHeader, ReadRows, ReadFails,
        ReadRelease, ReadReleaseFails, ReadGoto
  <2>3. CASE ReadRelease(r)
    <3>1. view[r].answer = "notfound" /\ mem[view[r].scan] = "absent" /\ rpc[r] = "release"
      <4>1. CASE view[r].answer = "notfound"
        <5>1. LookupMemory(r) /\ rpc[r] = "release"
          BY <2>3, <4>1 DEF ReadRelease
        <5>2. mem[view[r].scan] # "absent" => view'[r].answer = "completed"
          BY <2>0, <5>1 DEF LookupMemory, Views
        <5> QED BY <4>1, <5>1, <5>2
      <4>2. CASE view[r].answer # "notfound"
        BY <2>3, <4>2 DEF ReadRelease
      <4> QED BY <4>1, <4>2
    <3> QED BY <2>0, <3>1 DEF Missed
  <2>4. CASE ReadAcquireFails(r) \/ ReadReleaseFails(r)
    BY <2>0, <2>4 DEF ReadAcquireFails, ReadReleaseFails, Answer, Views
  <2>5. CASE BeginRead(r) \/ ReadAcquire(r) \/ ReadHeader(r) \/ ReadRows(r) \/ ReadFails(r)
    BY <2>0, <2>5 DEF BeginRead, ReadAcquire, ReadHeader, ReadRows, ReadFails, ReadGoto
  <2>6. CASE Crash \/ Shutdown
    BY <2>6 DEF Crash, Shutdown, Stop
  <2>7. CASE Restart \/ UNCHANGED vars \/ (\E t \in Targets : DeleteTarget(t))
    BY <2>7 DEF Restart, DeleteTarget, vars, readVars
  <2> QED BY <2>1, <2>2, <2>3, <2>4, <2>5, <2>6, <2>7 DEF Next, ReadStep
<1> QED BY <1>1, <1>2, MissedStep, InvariantHolds, PTL DEF Spec, FoundOnceSaved

---------------------------------------------------------------------------
(* ScanLifecycle implements ScanRecord.                                     *)

(* No request has begun, and the record is empty. *)
LEMMA InitRefines == Init => Record!Init
BY DEF Init, Record!Init, Told

(* A request that ends tells its caller what reply says, and only its own. *)
LEMMA Telling ==
  ASSUME IInv, NEW s \in Scans, Goto(s, "done"), pc[s] \notin {"done", "dead"},
         NEW a \in Replies, reply' = [reply EXCEPT ![s] = a]
  PROVE  Told[s] = "none" /\ Told' = [Told EXCEPT ![s] = a]
BY DEF IInv, TypeOK, Goto, Told

(* A step of a request opens a run, closes it, answers, or changes nothing of the record. *)
LEMMA ScanStepRefines ==
  ASSUME IInv, NEW s \in Scans, Submit(s) \/ ScanStep(s)
  PROVE  Record!Next \/ UNCHANGED Record!vars
<1>0. /\ runs \in [Scans -> RunStatuses] /\ rows \in [Scans -> 0..NModules]
      /\ pc \in [Scans -> PCs] /\ reply \in [Scans -> Replies]
      /\ pc[s] \notin {"done", "dead"} => Told[s] = "none"
  BY DEF IInv, TypeOK, Told
<1>1. \A a \in Record!Answers :
         (/\ Told[s] = "none" /\ runs[s] \in Record!MayAccompany(a)
          /\ Told' = [Told EXCEPT ![s] = a] /\ UNCHANGED <<runs, rows>>)
         => Record!Next
  BY DEF Record!Next, Record!Answer
<1>2. CASE AcquireFails(s) \/ ReleaseFails(s)
  <2>1. Told[s] = "none" /\ Told' = [Told EXCEPT ![s] = "error"]
    BY <1>2, Telling DEF AcquireFails, ReleaseFails, Replies
  <2>2. UNCHANGED <<runs, rows>>
    BY <1>2 DEF AcquireFails, ReleaseFails, dbVars
  <2> QED BY <1>0, <1>1, <2>1, <2>2
          DEF Record!Answers, Record!MayAccompany, Record!Statuses, RunStatuses
<1>3. CASE Release(s)
  <2>1. /\ Goto(s, "done") /\ pc[s] = "release" /\ UNCHANGED <<runs, rows>>
        /\ reply' = [reply EXCEPT ![s] = reply[s]] /\ reply[s] \in Replies
    BY <1>0, <1>3 DEF Release, dbVars
  <2>2. Told[s] = "none" /\ Told' = [Told EXCEPT ![s] = reply[s]]
    BY <2>1, Telling
  <2>3. /\ reply[s] \in Record!Answers
        /\ runs[s] \in Record!MayAccompany(reply[s])
    BY <1>0, <2>1
    DEF IInv, ReplyMatchesRow, Replies, RunStatuses, Record!Answers,
        Record!MayAccompany, Record!Statuses
  <2> QED BY <1>1, <2>1, <2>2, <2>3
<1>4. CASE (EndSweep(s) \/ SweepFails(s)) /\ ~poolUp
  <2>1. PICK a \in {"memory", "sweep_error"} : reply' = [reply EXCEPT ![s] = a]
    BY <1>4 DEF EndSweep, SweepFails, Persisting
  <2>2. Goto(s, "done") /\ pc[s] \in {"connect", "sweep"} /\ UNCHANGED <<runs, rows>>
    BY <1>4 DEF EndSweep, SweepFails, Persisting, dbVars
  <2>3. Told[s] = "none" /\ Told' = [Told EXCEPT ![s] = a]
    BY <2>1, <2>2, Telling DEF Replies
  <2>4. runs[s] = "none"
    BY <1>4, <2>2 DEF IInv, RowMatchesProgress
  <2> QED BY <1>1, <2>1, <2>2, <2>3, <2>4
          DEF Record!Answers, Record!MayAccompany, Record!Statuses
<1>5. CASE StartScanRun(s) \/ StartScanRunFails(s)
  <2>1. pc[s] = "start" /\ runs[s] = "none" /\ rows' = rows
    BY <1>5 DEF IInv, RowMatchesProgress, StartScanRun, StartScanRunFails
  <2>2. Told' = Told
    BY <1>5, <2>1, <1>0 DEF StartScanRun, StartScanRunFails, Leave, Goto, Told, PCs
  <2>3. runs' = [runs EXCEPT ![s] = "running"] \/ runs' = runs
    BY <1>5 DEF StartScanRun, StartScanRunFails
  <2> QED BY <1>0, <2>1, <2>2, <2>3 DEF Record!Next, Record!Open, Record!vars
<1>6. CASE MarkFailed(s)
  <2>1. pc[s] = "mark" /\ runs[s] \in {"running", "deleted"} /\ rows' = rows
    BY <1>6 DEF IInv, RowMatchesProgress, MarkFailed
  <2>2. Told' = Told
    BY <1>6, <2>1, <1>0 DEF MarkFailed, Leave, Goto, Told
  <2>3. CASE runs[s] = "running"
    <3>1. runs' = [runs EXCEPT ![s] = "failed"]
      BY <1>6, <2>3 DEF MarkFailed, HasRow
    <3> QED BY <1>0, <2>1, <2>2, <2>3, <3>1 DEF Record!Next, Record!Fail
  <2>4. CASE runs[s] = "deleted"
    BY <1>6, <2>1, <2>2, <2>4 DEF MarkFailed, HasRow, Record!vars
  <2> QED BY <2>1, <2>3, <2>4
<1>7. CASE Commit(s) \/ CommitReplyLost(s)
  <2>1. /\ pc[s] = "commit" /\ runs[s] = "running"
        /\ runs' = [runs EXCEPT ![s] = "completed"]
        /\ rows' = [rows EXCEPT ![s] = NModules]
    BY <1>7 DEF IInv, RowMatchesProgress, Locked, Commit, CommitReplyLost, Committed
  <2>2. Told' = Told
    BY <1>7, <2>1, <1>0 DEF Commit, CommitReplyLost, Leave, Goto, Told
  <2> QED BY <1>0, <2>1, <2>2 DEF Record!Next, Record!Complete
<1>8. CASE \/ Submit(s) \/ AcquireConn(s) \/ ConnectionExists(s) \/ ConnectTarget(s)
           \/ RunModule(s) \/ ((EndSweep(s) \/ SweepFails(s)) /\ poolUp)
           \/ MarkFailedFails(s) \/ SaveScanResults(s) \/ FinishScanRun(s) \/ SaveFails(s)
  <2>1. UNCHANGED <<runs, rows>>
    BY <1>8
    DEF Submit, AcquireConn, ConnectionExists, ConnectTarget, RunModule, EndSweep, SweepFails,
        MarkFailedFails, SaveScanResults, FinishScanRun, SaveFails, dbVars
  <2>2. Told' = Told
    BY <1>0, <1>8
    DEF Submit, AcquireConn, ConnectionExists, ConnectTarget, RunModule, EndSweep, SweepFails,
        MarkFailedFails, SaveScanResults, FinishScanRun, SaveFails, Leave, Goto, Told,
        Persisting
  <2> QED BY <2>1, <2>2 DEF Record!vars
<1>9. CASE EndSweep(s) \/ SweepFails(s)
  BY <1>4, <1>8, <1>9
<1> QED
  BY <1>2, <1>3, <1>5, <1>6, <1>7, <1>8, <1>9 DEF ScanStep

(* Every step is a step of the record, or none. *)
LEMMA NextRefines == IInv /\ [Next]_vars => [Record!Next]_(Record!vars)
<1> SUFFICES ASSUME IInv, [Next]_vars PROVE Record!Next \/ UNCHANGED Record!vars
  OBVIOUS
<1>1. CASE \E s \in Scans : Submit(s) \/ ScanStep(s)
  BY <1>1, ScanStepRefines
<1>2. CASE \E r \in Readers : BeginRead(r) \/ ReadStep(r)
  <2>1. UNCHANGED <<runs, rows, pc, reply>>
    BY <1>2
    DEF BeginRead, ReadStep, ReadAcquire, ReadAcquireFails, ReadHeader, ReadRows, ReadFails,
        ReadRelease, ReadReleaseFails, dbVars, scanVars
  <2> QED BY <2>1 DEF Told, Record!vars
<1>3. CASE Crash \/ Shutdown
  <2> DEFINE S == {s \in Scans : pc[s] \in InFlight}
  <2>1. Stop
    BY <1>3 DEF Crash, Shutdown
  <2>2. \A s \in S : Told[s] = "none"
    BY DEF Told, InFlight, Holding
  <2>3. Told' = [s \in Scans |-> IF s \in S THEN "lost" ELSE Told[s]]
    BY <2>1 DEF Stop, Told, InFlight, Holding
  <2>4. UNCHANGED <<runs, rows>>
    BY <2>1 DEF Stop, dbVars
  <2>5. Record!Lose(S)
    BY <2>2, <2>3, <2>4 DEF Record!Lose
  <2> QED BY <2>5 DEF Record!Next
<1>4. CASE \E t \in Targets : DeleteTarget(t)
  <2> PICK t \in Targets : DeleteTarget(t)
    BY <1>4
  <2> DEFINE S == {s \in Scans : target[s] = t /\ HasRow(s)}
  <2>1. Told' = Told
    BY DEF DeleteTarget, scanVars, Told
  <2>2. \A s \in S : runs[s] # "none"
    BY DEF HasRow
  <2>3. Record!Remove(S)
    BY <2>1, <2>2 DEF DeleteTarget, Record!Remove
  <2> QED BY <2>3 DEF Record!Next
<1>5. CASE Restart \/ UNCHANGED vars
  BY <1>5 DEF Restart, vars, dbVars, scanVars, Told, Record!vars
<1> QED BY <1>1, <1>2, <1>3, <1>4, <1>5 DEF Next

(* The endpoint keeps the promise of ScanRecord: a run is opened once,       *)
(* closed once with all its findings, never written after its caller was     *)
(* answered or lost, and every answer is true of the record.                 *)
THEOREM Refinement == Spec => ImplementsScanRecord
<1>1. Init => Record!Init
  BY InitRefines
<1>2. IInv /\ [Next]_vars => [Record!Next]_(Record!vars)
  BY NextRefines
<1> QED BY <1>1, <1>2, InvariantHolds, PTL DEF Spec, ImplementsScanRecord, Record!Spec

---------------------------------------------------------------------------
(* What ScanRecord promises, the endpoint keeps.                             *)

(* A step of the record leaves the runs alone whose callers were told. *)
LEMMA RecordStepFinal ==
  ASSUME TypeOK, Record!Next \/ UNCHANGED Record!vars, NEW s \in Scans, Told[s] # "none"
  PROVE  /\ Told'[s] = Told[s]
         /\ runs'[s] \in {runs[s], "deleted"}
         /\ rows'[s] \in {rows[s], 0}
<1>0. /\ runs \in [Scans -> RunStatuses] /\ rows \in [Scans -> 0..NModules]
      /\ Told = [t \in Scans |-> Told[t]]
  BY DEF TypeOK, Told
<1>1. CASE \E t \in Scans : Record!Open(t) \/ Record!Complete(t) \/ Record!Fail(t)
                           \/ Record!Answer(t)
  <2>1. PICK t \in Scans : /\ Told[t] = "none"
                           /\ runs' = runs \/ \E a : runs' = [runs EXCEPT ![t] = a]
                           /\ rows' = rows \/ \E a : rows' = [rows EXCEPT ![t] = a]
                           /\ Told' = Told \/ \E a : Told' = [Told EXCEPT ![t] = a]
    BY <1>1 DEF Record!Open, Record!Complete, Record!Fail, Record!Answer
  <2>2. s # t
    BY <2>1
  <2> QED BY <1>0, <2>1, <2>2
<1>2. CASE \E S \in SUBSET Scans : Record!Lose(S)
  BY <1>2 DEF Record!Lose
<1>3. CASE \E S \in SUBSET Scans : Record!Remove(S)
  BY <1>3 DEF Record!Remove
<1>4. CASE UNCHANGED Record!vars
  BY <1>4 DEF Record!vars
<1> QED BY <1>1, <1>2, <1>3, <1>4 DEF Record!Next

(* Once the caller of trigger_scan was answered, or its server died, no      *)
(* handler writes to its run any more, whatever is still under way.          *)
THEOREM NothingWrittenLate == Spec => Record!AnswerIsFinal
<1>1. IInv /\ [Record!Next]_(Record!vars) =>
         [\A s \in Scans : Told[s] # "none" =>
             /\ Told'[s] = Told[s]
             /\ runs'[s] \in {runs[s], "deleted"}
             /\ rows'[s] \in {rows[s], 0}]_(Record!vars)
  BY RecordStepFinal DEF IInv
<1> QED BY <1>1, Refinement, InvariantHolds, PTL DEF ImplementsScanRecord, Record!Spec, Record!AnswerIsFinal

---------------------------------------------------------------------------
(* How long a request can take: the half of EveryScanEndsOrHangs and         *)
(* EveryReadEndsOrHangs that needs no fairness.                              *)

(* How many steps a scan request has still before it, at most. *)
StepsLeft(s) ==
    CASE pc[s] = "new"     -> NModules + 11
      [] pc[s] = "acquire" -> NModules + 10
      [] pc[s] = "check"   -> NModules + 9
      [] pc[s] = "start"   -> NModules + 8
      [] pc[s] = "connect" -> NModules + 7
      [] pc[s] = "sweep"   -> NModules - swept[s] + 6
      [] pc[s] = "save"    -> 5
      [] pc[s] = "finish"  -> 4
      [] pc[s] = "commit"  -> 3
      [] pc[s] = "mark"    -> 2
      [] pc[s] = "release" -> 1
      [] OTHER             -> 0

(* No error path, retry or restart sends a request back: every step of its   *)
(* own takes it nearer to its end, and no other step takes it further away.  *)
ScanProgresses ==
    [][\A s \in Scans : /\ StepsLeft(s)' <= StepsLeft(s)
                        /\ ScanStep(s) => StepsLeft(s)' < StepsLeft(s)]_vars

(* A count of steps. *)
LEMMA StepsLeftType == TypeOK => \A s \in Scans : StepsLeft(s) \in 0..(NModules + 11)
BY ModulesAssumption DEF TypeOK, StepsLeft, PCs, InFlight, Holding

(* Leaving for a later statement. *)
LEMMA ScanStepNearer ==
  ASSUME TypeOK, NEW s \in Scans, ScanStep(s)
  PROVE  StepsLeft(s)' \in Nat /\ StepsLeft(s)' < StepsLeft(s)
<1>0. /\ pc \in [Scans -> PCs] /\ swept \in [Scans -> 0..NModules] /\ NModules \in Nat \ {0}
  BY ModulesAssumption DEF TypeOK
<1> USE <1>0 DEF StepsLeft, Goto, Leave
<1>1. CASE AcquireConn(s) \/ AcquireFails(s) \/ ConnectionExists(s)
  BY <1>1 DEF AcquireConn, AcquireFails, ConnectionExists
<1>2. CASE StartScanRun(s) \/ StartScanRunFails(s) \/ ConnectTarget(s)
  BY <1>2 DEF StartScanRun, StartScanRunFails, ConnectTarget
<1>3. CASE RunModule(s)
  BY <1>3 DEF RunModule
<1>4. CASE EndSweep(s) \/ SweepFails(s)
  BY <1>4 DEF EndSweep, SweepFails
<1>5. CASE MarkFailed(s) \/ MarkFailedFails(s)
  BY <1>5 DEF MarkFailed, MarkFailedFails
<1>6. CASE SaveScanResults(s) \/ FinishScanRun(s) \/ Commit(s) \/ SaveFails(s) \/ CommitReplyLost(s)
  BY <1>6 DEF SaveScanResults, FinishScanRun, Commit, SaveFails, CommitReplyLost
<1>7. CASE Release(s) \/ ReleaseFails(s)
  BY <1>7 DEF Release, ReleaseFails
<1> QED BY <1>1, <1>2, <1>3, <1>4, <1>5, <1>6, <1>7 DEF ScanStep

(* A step that is not its own leaves a request where it is, or ends it. *)
LEMMA OthersNoFurther ==
  ASSUME TypeOK, [Next]_vars, NEW s \in Scans
  PROVE  StepsLeft(s)' <= StepsLeft(s)
<1>0. /\ pc \in [Scans -> PCs] /\ swept \in [Scans -> 0..NModules] /\ NModules \in Nat \ {0}
      /\ StepsLeft(s) \in Nat
  BY StepsLeftType, ModulesAssumption DEF TypeOK
<1>1. UNCHANGED <<pc[s], swept[s]>> => StepsLeft(s)' = StepsLeft(s)
  BY DEF StepsLeft
<1>2. CASE Submit(s)
  BY <1>0, <1>2 DEF Submit, Goto, StepsLeft
<1>3. CASE ScanStep(s)
  BY <1>0, <1>3, ScanStepNearer
<1>4. ASSUME NEW t \in Scans \ {s}, Submit(t) \/ ScanStep(t) PROVE StepsLeft(s)' <= StepsLeft(s)
  <2>1. UNCHANGED <<pc[s], swept[s]>>
    BY <1>0, <1>4
    DEF Submit, ScanStep, AcquireConn, AcquireFails, ConnectionExists, StartScanRun,
        StartScanRunFails, ConnectTarget, RunModule, EndSweep, SweepFails, MarkFailed,
        MarkFailedFails, SaveScanResults, FinishScanRun, Commit, SaveFails, CommitReplyLost,
        Release, ReleaseFails, Goto, Leave
  <2> QED BY <1>0, <1>1, <2>1
<1>5. CASE \E r \in Readers : BeginRead(r) \/ ReadStep(r)
  <2>1. UNCHANGED <<pc, swept>>
    BY <1>5
    DEF BeginRead, ReadStep, ReadAcquire, ReadAcquireFails, ReadHeader, ReadRows, ReadFails,
        ReadRelease, ReadReleaseFails, scanVars
  <2> QED BY <1>0, <1>1, <2>1
<1>6. CASE Crash \/ Shutdown
  <2>1. pc'[s] = IF pc[s] \in InFlight THEN "dead" ELSE pc[s]
    BY <1>6 DEF Crash, Shutdown, Stop
  <2>2. swept' = swept
    BY <1>6 DEF Crash, Shutdown, Stop
  <2>3. CASE pc[s] \in InFlight
    <3>1. StepsLeft(s)' = 0
      BY <2>1, <2>3 DEF StepsLeft
    <3> QED BY <1>0, <3>1
  <2>4. CASE pc[s] \notin InFlight
    BY <1>0, <1>1, <2>1, <2>2, <2>4
  <2> QED BY <2>3, <2>4
<1>7. CASE Restart \/ (\E t \in Targets : DeleteTarget(t)) \/ UNCHANGED vars
  <2>1. UNCHANGED <<pc, swept>>
    BY <1>7 DEF Restart, DeleteTarget, vars, scanVars
  <2> QED BY <1>0, <1>1, <2>1
<1> QED BY <1>2, <1>3, <1>4, <1>5, <1>6, <1>7 DEF Next

(* A scan request comes to its end in NModules + 11 steps at most, however   *)
(* many diagnostics there are and whatever fails.                            *)
THEOREM ScansProgress == Spec => ScanProgresses
<1>1. TypeOK /\ [Next]_vars =>
         [\A s \in Scans : /\ StepsLeft(s)' <= StepsLeft(s)
                           /\ ScanStep(s) => StepsLeft(s)' < StepsLeft(s)]_vars
  BY ScanStepNearer, OthersNoFurther
<1> QED BY <1>1, TypeCorrect, PTL DEF Spec, ScanProgresses

(* The same for a poll or a report, which takes four steps. *)
ReadStepsLeft(r) ==
    CASE rpc[r] = "acquire" -> 4
      [] rpc[r] = "header"  -> 3
      [] rpc[r] = "rows"    -> 2
      [] rpc[r] = "release" -> 1
      [] OTHER              -> 0

(* Until its client sends the next one, a GET request only comes nearer to   *)
(* its end.                                                                  *)
ReadProgresses ==
    [][\A r \in Readers : /\ ReadStep(r) => ReadStepsLeft(r)' < ReadStepsLeft(r)
                          /\ BeginRead(r) \/ ReadStepsLeft(r)' <= ReadStepsLeft(r)]_vars

(* A statement of its own takes a GET request forward. *)
LEMMA ReadStepNearer ==
  ASSUME TypeOK, NEW r \in Readers, ReadStep(r)
  PROVE  ReadStepsLeft(r)' < ReadStepsLeft(r)
<1>0. rpc \in [Readers -> ReadPCs]
  BY DEF TypeOK
<1>1. CASE ReadAcquire(r) \/ ReadAcquireFails(r)
  BY <1>0, <1>1 DEF ReadAcquire, ReadAcquireFails, ReadGoto, ReadStepsLeft
<1>2. CASE ReadHeader(r) \/ ReadRows(r) \/ ReadFails(r)
  BY <1>0, <1>2 DEF ReadHeader, ReadRows, ReadFails, ReadGoto, ReadStepsLeft
<1>3. CASE ReadRelease(r) \/ ReadReleaseFails(r)
  BY <1>0, <1>3 DEF ReadRelease, ReadReleaseFails, ReadGoto, ReadStepsLeft
<1> QED BY <1>1, <1>2, <1>3 DEF ReadStep

(* Every other step leaves it where it is, or ends it with the process. *)
LEMMA OthersLeaveReaders ==
  ASSUME TypeOK, [Next]_vars, NEW r \in Readers
  PROVE  BeginRead(r) \/ ReadStep(r) \/ rpc'[r] = rpc[r] \/ rpc'[r] = "answered"
<1>0. rpc \in [Readers -> ReadPCs]
  BY DEF TypeOK
<1>1. CASE \E s \in Scans : Submit(s) \/ ScanStep(s)
  BY <1>1
  DEF Submit, ScanStep, AcquireConn, AcquireFails, ConnectionExists, StartScanRun,
      StartScanRunFails, ConnectTarget, RunModule, EndSweep, SweepFails, MarkFailed,
      MarkFailedFails, SaveScanResults, FinishScanRun, Commit, SaveFails, CommitReplyLost,
      Release, ReleaseFails, readVars
<1>2. ASSUME NEW q \in Readers \ {r}, BeginRead(q) \/ ReadStep(q) PROVE rpc'[r] = rpc[r]
  BY <1>0, <1>2
  DEF BeginRead, ReadStep, ReadAcquire, ReadAcquireFails, ReadHeader, ReadRows, ReadFails,
      ReadRelease, ReadReleaseFails, ReadGoto
<1>3. CASE Crash \/ Shutdown
  BY <1>3 DEF Crash, Shutdown, Stop
<1>4. CASE Restart \/ (\E t \in Targets : DeleteTarget(t)) \/ UNCHANGED vars
  BY <1>4 DEF Restart, DeleteTarget, vars, readVars
<1> QED BY <1>1, <1>2, <1>3, <1>4 DEF Next

(* A poll or a report is over after four steps, whatever fails and whatever  *)
(* the scans do meanwhile.                                                   *)
THEOREM ReadsProgress == Spec => ReadProgresses
<1>1. TypeOK /\ [Next]_vars =>
         [\A r \in Readers : /\ ReadStep(r) => ReadStepsLeft(r)' < ReadStepsLeft(r)
                             /\ BeginRead(r) \/ ReadStepsLeft(r)' <= ReadStepsLeft(r)]_vars
  <2>. SUFFICES ASSUME TypeOK, [Next]_vars, NEW r \in Readers
                PROVE  /\ ReadStep(r) => ReadStepsLeft(r)' < ReadStepsLeft(r)
                       /\ BeginRead(r) \/ ReadStepsLeft(r)' <= ReadStepsLeft(r)
    OBVIOUS
  <2>1. ReadStepsLeft(r) \in Nat /\ ReadStepsLeft(r)' \in Nat
    BY DEF ReadStepsLeft
  <2>2. rpc'[r] = rpc[r] \/ rpc'[r] = "answered" => ReadStepsLeft(r)' <= ReadStepsLeft(r)
    BY DEF ReadStepsLeft
  <2>. QED  BY <2>1, <2>2, ReadStepNearer, OthersLeaveReaders
<1> QED BY <1>1, TypeCorrect, PTL DEF Spec, ReadProgresses

(* The other half, for the one place where a request waits for another: it   *)
(* waits for a connection that is on loan, to somebody who waits for none.   *)
WaitsForHolder ==
    poolUp /\ idle = 0 =>
        \/ \E s \in Scans : pc[s] \in Holding /\ StepsLeft(s) > 0
        \/ \E r \in Readers : rpc[r] \in ReadHolding /\ ReadStepsLeft(r) > 0

(* The pool never runs dry but for requests that are on their way to giving  *)
(* a connection back, for every size of it: a leak on any path, or a         *)
(* handler that took a second connection, would let all wait for ever.       *)
THEOREM PoolNeverRunsDry == Spec => []WaitsForHolder
<1>1. IInv => WaitsForHolder
  <2>. SUFFICES ASSUME IInv, poolUp, idle = 0 PROVE WaitsForHolder
    BY DEF WaitsForHolder
  <2>1. Cardinality(ScanHolders) + Cardinality(ReadHolders) = PoolSize
    BY HoldersFinite, FS_CardinalityType DEF IInv, PoolConserved
  <2>2. ScanHolders # {} \/ ReadHolders # {}
    BY <2>1, FS_EmptySet, PoolAssumption
  <2>3. \A s \in ScanHolders : StepsLeft(s) > 0
    BY ModulesAssumption DEF ScanHolders, Holding, StepsLeft, IInv, TypeOK
  <2>4. \A r \in ReadHolders : ReadStepsLeft(r) > 0
    BY DEF ReadHolders, ReadHolding, ReadStepsLeft
  <2>. QED  BY <2>2, <2>3, <2>4 DEF WaitsForHolder, ScanHolders, ReadHolders
<1> QED BY <1>1, InvariantHolds, PTL

=============================================================================
