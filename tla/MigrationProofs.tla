-------------------------- MODULE MigrationProofs ---------------------------
(***************************************************************************)
(* That any number of runners, over any number of files, leave the schema  *)
(* as one runner would.  The transaction alone does not: a runner that     *)
(* waited for another one goes on with what it read before.  What does is  *)
(* that two transactions never hold one file, and that the key of the      *)
(* table is looked at inside the transaction.  The database then sees the  *)
(* upgrades of SchemaVersion, and each runner comes to its end.            *)
(***************************************************************************)
EXTENDS Migrations, TLAPS

(* The files before the one a runner is at are in effect; the one it is      *)
(* about to commit is not, and is nobody else's.                             *)
Disjoint ==
    \A m, n \in Runners :
        m # n /\ {mpc[m], mpc[n]} \subseteq InTransaction => mfile[m] # mfile[n]
AtHand ==
    \A m \in Runners :
        /\ mpc[m] \in {"check", "apply"} \cup InTransaction => 1..(mfile[m] - 1) \subseteq recorded
        /\ mpc[m] = "commit" => mfile[m] \notin recorded
        /\ mpc[m] = "track" => mfile[m] = 1

MigrationInv == MigrationTypeOK /\ Disjoint /\ AtHand /\ MigratedInOrder

---------------------------------------------------------------------------
(* An empty database, and no runner in a transaction. *)
LEMMA MigrationInitInv == MigrationInit => MigrationInv
  <1>. SUFFICES ASSUME MigrationInit PROVE MigrationInv
    OBVIOUS
  <1>. USE NFilesAssumption, StartsAssumption DEF MigrationInit
  <1>1. MigrationTypeOK
    BY DEF MigrationTypeOK, Files
  <1>2. Disjoint /\ AtHand
    BY DEF Disjoint, AtHand, InTransaction
  <1>3. MigratedInOrder
    BY DEF MigratedInOrder
  <1>. QED  BY <1>1, <1>2, <1>3 DEF MigrationInv

(* The file after one that is not the last. *)
LEMMA NextFile == \A f \in Files : f # NFiles => f + 1 \in Files
  BY NFilesAssumption DEF Files

(* What a commit makes of the record has its type. *)
LEMMA CommittedType ==
  ASSUME MigrationTypeOK, NEW f \in Files, Committed(f)
  PROVE  recorded' \subseteq Files /\ applied' \in [Files -> Nat]
  <1>1. applied[f] + 1 \in Nat
    BY DEF MigrationTypeOK
  <1>. QED  BY <1>1 DEF MigrationTypeOK, Committed

(* Every step keeps every variable in its type. *)
LEMMA MigrationTypeStep == MigrationTypeOK /\ [MigrationNext]_migrationVars => MigrationTypeOK'
  <1>. SUFFICES ASSUME MigrationTypeOK, [MigrationNext]_migrationVars PROVE MigrationTypeOK'
    OBVIOUS
  <1>. USE NFilesAssumption, StartsAssumption
       DEF MigrationTypeOK, Running, InTransaction, MigrationStep
  <1>1. ASSUME NEW m \in Runners, Begin(m) PROVE MigrationTypeOK'
    <2>1. 1 \in Files
      BY DEF Files
    <2>2. starts[m] + 1 \in 0..MaxStarts
      BY <1>1 DEF Begin
    <2>. QED  BY <1>1, <2>1, <2>2 DEF Begin
  <1>2. ASSUME NEW m \in Runners, Track(m) \/ NotApplied(m) \/ Apply(m) \/ Record(m) \/ MigrationFails(m)
        PROVE MigrationTypeOK'
    BY <1>2 DEF Track, NotApplied, Apply, Record, MigrationFails
  <1>3. ASSUME NEW m \in Runners, Skip(m) PROVE MigrationTypeOK'
    <2>1. CASE mfile[m] = NFiles
      BY <1>3, <2>1 DEF Skip
    <2>2. CASE mfile[m] # NFiles
      BY <1>3, <2>2, NextFile DEF Skip
    <2>. QED  BY <2>1, <2>2
  <1>4. ASSUME NEW m \in Runners, Commit(m) PROVE MigrationTypeOK'
    <2>1. recorded' \subseteq Files /\ applied' \in [Files -> Nat]
      BY <1>4, CommittedType DEF Commit
    <2>2. CASE mfile[m] = NFiles
      BY <1>4, <2>1, <2>2 DEF Commit
    <2>3. CASE mfile[m] # NFiles
      BY <1>4, <2>1, <2>3, NextFile DEF Commit
    <2>. QED  BY <2>2, <2>3
  <1>5. ASSUME NEW m \in Runners, MigrationReplyLost(m) PROVE MigrationTypeOK'
    <2>1. recorded' \subseteq Files /\ applied' \in [Files -> Nat]
      BY <1>5, CommittedType DEF MigrationReplyLost
    <2>. QED  BY <1>5, <2>1 DEF MigrationReplyLost
  <1>6. CASE UNCHANGED migrationVars
    BY <1>6 DEF migrationVars
  <1>. QED  BY <1>1, <1>2, <1>3, <1>4, <1>5, <1>6 DEF MigrationNext, RunnerStep

(* A commit, acknowledged or not, extends the files in effect by the next. *)
LEMMA CommitExtends ==
  ASSUME MigrationInv, NEW m \in Runners, mpc[m] = "commit", Committed(mfile[m]),
         \A n \in Runners : mpc'[n] = "done" =>
            mpc[n] = "done" \/ (n = m /\ mfile[m] = NFiles)
  PROVE  MigratedInOrder'
  <1>. USE NFilesAssumption DEF MigrationInv, MigrationTypeOK, MigratedInOrder, Committed, Files
  <1>1. mfile[m] \in Files /\ mfile[m] \notin recorded /\ 1..(mfile[m] - 1) \subseteq recorded
    BY DEF AtHand, InTransaction
  <1>2. \A f \in Files : applied'[f] = IF f \in recorded' THEN 1 ELSE 0
    BY <1>1
  <1>3. 1..mfile[m] \subseteq recorded'
    <2>1. 1..mfile[m] \subseteq (1..(mfile[m] - 1)) \cup {mfile[m]}
      BY <1>1
    <2>. QED  BY <1>1, <2>1
  <1>4. \A f \in recorded' : 1..f \subseteq recorded'
    BY <1>3
  <1>5. recorded' \subseteq Files
    BY <1>1
  <1>6. \A n \in Runners : mpc'[n] = "done" => recorded' = Files
    <2>. SUFFICES ASSUME NEW n \in Runners, mpc'[n] = "done" PROVE recorded' = Files
      OBVIOUS
    <2>1. CASE mpc[n] = "done"
      BY <1>5, <2>1
    <2>2. CASE mfile[m] = NFiles
      BY <1>3, <1>5, <2>2
    <2>. QED  BY <2>1, <2>2
  <1>. QED  BY <1>2, <1>4, <1>6

(* Every step keeps the invariant. *)
LEMMA MigrationStepInv == MigrationInv /\ [MigrationNext]_migrationVars => MigrationInv'
  <1>. SUFFICES ASSUME MigrationInv, [MigrationNext]_migrationVars
                PROVE  (Disjoint /\ AtHand /\ MigratedInOrder)'
    BY MigrationTypeStep DEF MigrationInv
  <1>. MigrationTypeOK /\ Disjoint /\ AtHand /\ MigratedInOrder
    BY DEF MigrationInv
  <1>. USE NFilesAssumption DEF MigrationTypeOK, Disjoint, AtHand, Running, InTransaction,
                                MigrationStep
  <1>1. ASSUME NEW m \in Runners, Begin(m) PROVE (Disjoint /\ AtHand /\ MigratedInOrder)'
    BY <1>1 DEF Begin, MigratedInOrder
  <1>2. ASSUME NEW m \in Runners, Track(m) \/ NotApplied(m) \/ Record(m) \/ MigrationFails(m)
        PROVE  (Disjoint /\ AtHand /\ MigratedInOrder)'
    <2>1. /\ UNCHANGED <<recorded, applied, mfile>>
          /\ \A n \in Runners \ {m} : mpc'[n] = mpc[n]
      BY <1>2 DEF Track, NotApplied, Record, MigrationFails
    <2>2. /\ mpc'[m] \in InTransaction => mpc[m] \in InTransaction
          /\ mpc'[m] = "commit" => mfile[m] \notin recorded
          /\ mpc'[m] \notin {"track", "done"}
          /\ mpc'[m] \in {"check", "apply"} => mfile[m] = 1 \/ mpc[m] = "check"
          /\ mpc'[m] \in InTransaction => mpc[m] = "record"
      BY <1>2 DEF Track, NotApplied, Record, MigrationFails
    <2>3. Disjoint'
      BY <2>1, <2>2
    <2>4. AtHand'
      BY <2>1, <2>2 DEF Files
    <2>5. MigratedInOrder'
      BY <2>1, <2>2 DEF MigratedInOrder
    <2>. QED  BY <2>3, <2>4, <2>5
  <1>3. ASSUME NEW m \in Runners, Apply(m) PROVE (Disjoint /\ AtHand /\ MigratedInOrder)'
    BY <1>3 DEF Apply, MigratedInOrder
  <1>4. ASSUME NEW m \in Runners, Skip(m) PROVE (Disjoint /\ AtHand /\ MigratedInOrder)'
    <2>1. 1..mfile[m] \subseteq recorded
      BY <1>4 DEF Skip, MigratedInOrder
    <2>2. Disjoint'
      BY <1>4 DEF Skip
    <2>3. AtHand'
      BY <1>4, <2>1 DEF Skip, Files
    <2>4. MigratedInOrder'
      BY <1>4, <2>1 DEF Skip, MigratedInOrder, Files
    <2>. QED  BY <2>2, <2>3, <2>4
  <1>5. ASSUME NEW m \in Runners, Commit(m) PROVE (Disjoint /\ AtHand /\ MigratedInOrder)'
    <2>1. MigratedInOrder'
      BY <1>5, CommitExtends DEF Commit
    <2>2. Disjoint'
      BY <1>5 DEF Commit
    <2>3. AtHand'
      BY <1>5 DEF Commit, Committed, Files
    <2>. QED  BY <2>1, <2>2, <2>3
  <1>6. ASSUME NEW m \in Runners, MigrationReplyLost(m)
        PROVE  (Disjoint /\ AtHand /\ MigratedInOrder)'
    <2>1. MigratedInOrder'
      BY <1>6, CommitExtends DEF MigrationReplyLost
    <2>2. Disjoint' /\ AtHand'
      BY <1>6 DEF MigrationReplyLost, Committed, Files
    <2>. QED  BY <2>1, <2>2
  <1>7. CASE UNCHANGED migrationVars
    BY <1>7 DEF migrationVars, MigratedInOrder
  <1>. QED  BY <1>1, <1>2, <1>3, <1>4, <1>5, <1>6, <1>7 DEF MigrationNext, RunnerStep

---------------------------------------------------------------------------
(* MigrationInv holds however the runners interleave. *)
THEOREM MigrationInvariant == MigrationSpec => []MigrationInv
  BY MigrationInitInv, MigrationStepInv, PTL DEF MigrationSpec

(* The recorded files are the ones in effect, each once, a first part of all *)
(* of them, for any number of runners, files and starts.                     *)
THEOREM SchemaIsInOrder == MigrationSpec => []MigratedInOrder
  <1>1. MigrationInv => MigratedInOrder
    BY DEF MigrationInv
  <1>. QED  BY MigrationInvariant, <1>1, PTL

(* Type correctness. *)
THEOREM MigrationTypeCorrect == MigrationSpec => []MigrationTypeOK
  <1>1. MigrationInv => MigrationTypeOK
    BY DEF MigrationInv
  <1>. QED  BY MigrationInvariant, <1>1, PTL

---------------------------------------------------------------------------
(* Migrations implements SchemaVersion. *)

(* There is a last file up to which all are recorded, and none after it. *)
Prefix == \E v \in 0..NFiles : recorded = 1..v

(* What is in effect then is the content of that version. *)
LEMMA ContentIs ==
  ASSUME MigrationTypeOK, MigratedInOrder, NEW v \in 0..NFiles, recorded = 1..v
  PROVE  applied = Schema!UpTo(v)
  <1>1. \A f \in 1..NFiles : f \in recorded <=> f <= v
    BY NFilesAssumption
  <1>. QED  BY <1>1 DEF MigrationTypeOK, MigratedInOrder, Schema!UpTo, Files

(* A commit is an upgrade by one file, the one the runner is at. *)
LEMMA CommitUpgrades ==
  ASSUME MigrationInv, Prefix, NEW m \in Runners, mpc[m] = "commit", Committed(mfile[m])
  PROVE  /\ Prefix'
         /\ mfile[m] \in 1..NFiles
         /\ applied = Schema!UpTo(mfile[m] - 1) /\ applied' = Schema!UpTo(mfile[m])
  <1>. USE NFilesAssumption
  <1>1. PICK v \in 0..NFiles : recorded = 1..v
    BY DEF Prefix
  <1>2. /\ mfile[m] \in 1..NFiles /\ mfile[m] \notin recorded
        /\ 1..(mfile[m] - 1) \subseteq recorded
    BY DEF MigrationInv, MigrationTypeOK, AtHand, InTransaction, Files
  <1>3. mfile[m] = v + 1
    <2>1. mfile[m] > v
      BY <1>1, <1>2
    <2>2. mfile[m] - 1 <= v
      <3>1. CASE mfile[m] = 1
        BY <3>1
      <3>2. CASE mfile[m] # 1
        <4>1. mfile[m] - 1 \in 1..(mfile[m] - 1)
          BY <1>2, <3>2
        <4>. QED  BY <1>1, <1>2, <4>1
      <3>. QED  BY <3>1, <3>2
    <2>. QED  BY <1>2, <2>1, <2>2
  <1>4. recorded' = 1..(v + 1) /\ v + 1 \in 0..NFiles
    BY <1>1, <1>2, <1>3 DEF Committed
  <1>5. applied = Schema!UpTo(v)
    BY <1>1, ContentIs DEF MigrationInv
  <1>6. applied' = Schema!UpTo(v + 1)
    <2>1. applied \in [1..NFiles -> Nat]
      BY DEF MigrationInv, MigrationTypeOK, Files
    <2>2. applied' = [applied EXCEPT ![v + 1] = applied[v + 1] + 1] /\ v + 1 \in 1..NFiles
      BY <1>2, <1>3 DEF Committed
    <2>3. \A f \in 1..NFiles : applied[f] = IF f <= v THEN 1 ELSE 0
      BY <1>5 DEF Schema!UpTo
    <2>4. \A f \in 1..NFiles : applied'[f] = IF f <= v + 1 THEN 1 ELSE 0
      BY <2>1, <2>2, <2>3
    <2>5. applied' = [f \in 1..NFiles |-> applied'[f]]
      BY <2>1, <2>2
    <2>. QED  BY <2>4, <2>5 DEF Schema!UpTo
  <1>. QED  BY <1>2, <1>3, <1>4, <1>5, <1>6 DEF Prefix

(* A runner that finds the last file recorded finds all in effect. *)
LEMMA LastIsCurrent ==
  ASSUME MigrationInv, Prefix, NFiles \in recorded
  PROVE  applied = Schema!UpTo(NFiles)
  <1>1. PICK v \in 0..NFiles : recorded = 1..v
    BY DEF Prefix
  <1>2. v = NFiles
    BY <1>1, NFilesAssumption
  <1>. QED  BY <1>1, <1>2, ContentIs DEF MigrationInv

(* Every step upgrades, reports, begins again, or changes nothing of the     *)
(* schema.                                                                   *)
LEMMA MigrationStepRefines ==
  MigrationInv /\ Prefix /\ [MigrationNext]_migrationVars => Prefix' /\ [Schema!Next]_(Schema!vars)
  <1>. SUFFICES ASSUME MigrationInv, Prefix, [MigrationNext]_migrationVars
                PROVE  Prefix' /\ [Schema!Next]_(Schema!vars)
    OBVIOUS
  <1>. DEFINE told == {n \in Runners : mpc[n] = "done"}
  <1>. mpc \in [Runners -> {"idle", "done", "failed"} \cup Running]
    BY DEF MigrationInv, MigrationTypeOK
  <1>1. recorded' = recorded => Prefix'
    BY DEF Prefix
  <1>2. ASSUME NEW m \in Runners, Begin(m) PROVE Prefix' /\ Schema!Again
    <2>1. UNCHANGED <<recorded, applied>> /\ told' = told \ {m}
      BY <1>2 DEF Begin
    <2>. QED  BY <1>1, <2>1 DEF Schema!Again
  <1>3. ASSUME NEW m \in Runners,
               \/ Track(m) \/ NotApplied(m) \/ Apply(m) \/ Record(m) \/ MigrationFails(m)
        PROVE  Prefix' /\ UNCHANGED Schema!vars
    <2>1. UNCHANGED <<recorded, applied>> /\ told' = told
      BY <1>3 DEF Track, NotApplied, Apply, Record, MigrationFails, MigrationStep, Running,
                  InTransaction
    <2>. QED  BY <1>1, <2>1 DEF Schema!vars
  <1>4. ASSUME NEW m \in Runners, Skip(m) PROVE Prefix' /\ [Schema!Next]_(Schema!vars)
    <2>1. CASE mfile[m] = NFiles
      <3>1. UNCHANGED <<recorded, applied>> /\ told' = told \cup {m} /\ NFiles \in recorded
        BY <1>4, <2>1 DEF Skip
      <3>. QED  BY <1>1, <3>1, LastIsCurrent DEF Schema!Next, Schema!Report
    <2>2. CASE mfile[m] # NFiles
      <3>1. UNCHANGED <<recorded, applied>> /\ told' = told
        BY <1>4, <2>2 DEF Skip
      <3>. QED  BY <1>1, <3>1 DEF Schema!vars
    <2>. QED  BY <2>1, <2>2
  <1>5. ASSUME NEW m \in Runners, Commit(m) PROVE Prefix' /\ Schema!Upgrade
    <2>1. /\ Prefix' /\ mfile[m] \in 1..NFiles
          /\ applied = Schema!UpTo(mfile[m] - 1) /\ applied' = Schema!UpTo(mfile[m])
      BY <1>5, CommitUpgrades DEF Commit
    <2>2. told' = IF mfile[m] = NFiles THEN told \cup {m} ELSE told
      BY <1>5 DEF Commit
    <2>. QED  BY <2>1, <2>2 DEF Schema!Upgrade
  <1>6. ASSUME NEW m \in Runners, MigrationReplyLost(m) PROVE Prefix' /\ Schema!Upgrade
    <2>1. /\ Prefix' /\ mfile[m] \in 1..NFiles
          /\ applied = Schema!UpTo(mfile[m] - 1) /\ applied' = Schema!UpTo(mfile[m])
      BY <1>6, CommitUpgrades DEF MigrationReplyLost
    <2>2. told' = told
      BY <1>6 DEF MigrationReplyLost
    <2>. QED  BY <2>1, <2>2 DEF Schema!Upgrade
  <1>7. CASE UNCHANGED migrationVars
    BY <1>1, <1>7 DEF migrationVars, Schema!vars
  <1>. QED  BY <1>2, <1>3, <1>4, <1>5, <1>6, <1>7 DEF MigrationNext, RunnerStep, Schema!Next

(* The schema is upgraded one file at a time, whatever the number of runners *)
(* and wherever they stop, and success is reported of the last version only. *)
THEOREM SchemaIsUpgraded == MigrationSpec => ImplementsSchemaVersion
  <1>1. MigrationInit => Prefix /\ Schema!Init
    <2>. SUFFICES ASSUME MigrationInit PROVE Prefix /\ Schema!Init
      OBVIOUS
    <2>1. recorded = 1..0 /\ 0 \in 0..NFiles
      BY NFilesAssumption DEF MigrationInit
    <2>2. applied = Schema!UpTo(0)
      BY NFilesAssumption DEF MigrationInit, Schema!UpTo, Files
    <2>. QED  BY <2>1, <2>2 DEF Prefix, Schema!Init, MigrationInit
  <1>. QED  BY <1>1, MigrationInvariant, MigrationStepRefines, PTL
            DEF MigrationSpec, ImplementsSchemaVersion, Schema!Spec

---------------------------------------------------------------------------
(* How many steps a runner has still before it, at most: four for a file it  *)
(* has to apply.                                                             *)
Remaining(m) ==
    CASE mpc[m] = "track"  -> 4 * (NFiles - mfile[m]) + 5
      [] mpc[m] = "check"  -> 4 * (NFiles - mfile[m]) + 4
      [] mpc[m] = "apply"  -> 4 * (NFiles - mfile[m]) + 3
      [] mpc[m] = "record" -> 4 * (NFiles - mfile[m]) + 2
      [] mpc[m] = "commit" -> 4 * (NFiles - mfile[m]) + 1
      [] OTHER             -> 0

(* A runner that lost a file to another does not come back to it. *)
RunnersProgress ==
    [][\A m \in Runners :
          \/ Begin(m)
          \/ mpc'[m] = mpc[m] /\ mfile'[m] = mfile[m]
          \/ Remaining(m)' < Remaining(m)]_migrationVars

(* A runner that was started ends after 4 * NFiles + 1 statements, however   *)
(* many others there are: none is sent back to a file by what others do.     *)
THEOREM RunnersEnd == MigrationSpec => RunnersProgress
  <1>1. MigrationTypeOK /\ [MigrationNext]_migrationVars =>
           [\A m \in Runners :
              \/ Begin(m)
              \/ mpc'[m] = mpc[m] /\ mfile'[m] = mfile[m]
              \/ Remaining(m)' < Remaining(m)]_migrationVars
    <2>. SUFFICES ASSUME MigrationTypeOK, NEW n \in Runners, RunnerStep(n), NEW m \in Runners
                  PROVE  \/ Begin(m)
                         \/ mpc'[m] = mpc[m] /\ mfile'[m] = mfile[m]
                         \/ Remaining(m)' < Remaining(m)
      BY DEF MigrationNext
    <2>1. CASE n # m
      BY <2>1 DEF RunnerStep, Begin, Track, Skip, NotApplied, Apply, Record, Commit,
                  MigrationReplyLost, MigrationFails, MigrationStep, MigrationTypeOK
    <2>2. CASE n = m
      <3>1. /\ mfile[m] \in 1..NFiles /\ NFiles \in Nat
            /\ mpc \in [Runners -> {"idle", "done", "failed"} \cup Running]
            /\ mfile \in [Runners -> Files]
        BY NFilesAssumption DEF MigrationTypeOK, Files
      <3>2. CASE Track(m) \/ NotApplied(m) \/ Apply(m) \/ Record(m)
        BY <3>1, <3>2 DEF Track, NotApplied, Apply, Record, MigrationStep, Remaining
      <3>3. CASE Skip(m) \/ Commit(m)
        BY <3>1, <3>3 DEF Skip, Commit, Remaining
      <3>4. CASE MigrationReplyLost(m) \/ MigrationFails(m)
        BY <3>1, <3>4 DEF MigrationReplyLost, MigrationFails, Running, InTransaction, Remaining
      <3>. QED  BY <2>2, <3>2, <3>3, <3>4 DEF RunnerStep
    <2>. QED  BY <2>1, <2>2
  <1>2. MigrationInv => MigrationTypeOK
    BY DEF MigrationInv
  <1>. QED  BY <1>1, <1>2, MigrationInvariant, PTL DEF MigrationSpec, RunnersProgress
============================================================================
