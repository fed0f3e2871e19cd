----------------------------- MODULE Migrations ------------------------------
(***************************************************************************)
(* run_migrations.py against one database, possibly from several shells or *)
(* deployments at once.  Files are applied in lexicographic order, each    *)
(* with its row in _schema_migrations in one transaction; whether that row *)
(* is there is read before the transaction begins.                         *)
(***************************************************************************)
EXTENDS Naturals

CONSTANTS
    Runners,
    NFiles,         \* files are 1..NFiles, in lexicographic order
    MaxStarts       \* bound on how often a runner is started

ASSUME NFilesAssumption == NFiles \in Nat \ {0}
ASSUME StartsAssumption == MaxStarts \in Nat

Files == 1..NFiles

VARIABLES
    recorded,   \* rows of _schema_migrations
    applied,    \* how often the content of a file was committed
    mpc,        \* the next statement of a runner
    mfile,      \* the file it is at
    starts

migrationVars == <<recorded, applied, mpc, mfile, starts>>

(* In a transaction are "record" and "commit". *)
InTransaction == {"record", "commit"}
Running == {"track", "check", "apply"} \cup InTransaction

MigrationInit ==
    /\ recorded = {}
    /\ applied = [f \in Files |-> 0]
    /\ mpc = [m \in Runners |-> "idle"]
    /\ mfile = [m \in Runners |-> 1]
    /\ starts = [m \in Runners |-> 0]

MigrationStep(m, from, to) == mpc[m] = from /\ mpc' = [mpc EXCEPT ![m] = to]

Begin(m) ==
    /\ mpc[m] \notin Running
    /\ starts[m] < MaxStarts
    /\ starts' = [starts EXCEPT ![m] = @ + 1]
    /\ mpc' = [mpc EXCEPT ![m] = "track"]
    /\ mfile' = [mfile EXCEPT ![m] = 1]
    /\ UNCHANGED <<recorded, applied>>

(* CREATE TABLE IF NOT EXISTS _schema_migrations *)
Track(m) ==
    /\ MigrationStep(m, "track", "check")
    /\ UNCHANGED <<recorded, applied, mfile, starts>>

Skip(m) ==
    /\ mpc[m] = "check"
    /\ mfile[m] \in recorded
    /\ IF mfile[m] = NFiles
       THEN mpc' = [mpc EXCEPT ![m] = "done"] /\ UNCHANGED mfile
       ELSE mfile' = [mfile EXCEPT ![m] = @ + 1] /\ UNCHANGED mpc
    /\ UNCHANGED <<recorded, applied, starts>>

NotApplied(m) ==
    /\ MigrationStep(m, "check", "apply")
    /\ mfile[m] \notin recorded
    /\ UNCHANGED <<recorded, applied, mfile, starts>>

(* Fault: the content is committed by itself. *)
ApplyAndCommit(m) ==
    /\ MigrationStep(m, "apply", "record")
    /\ applied' = [applied EXCEPT ![mfile[m]] = @ + 1]
    /\ UNCHANGED <<recorded, mfile, starts>>

(* The transaction begins.  It waits for the locks of one that has the same  *)
(* file; the files say IF NOT EXISTS, so afterwards they may well succeed.   *)
Apply(m) ==
    /\ \A n \in Runners \ {m} : ~(mpc[n] \in InTransaction /\ mfile[n] = mfile[m])
    /\ MigrationStep(m, "apply", "record")
    /\ UNCHANGED <<recorded, applied, mfile, starts>>

(* Fault: ON CONFLICT DO NOTHING. *)
RecordOrSkip(m) ==
    /\ MigrationStep(m, "record", "commit")
    /\ UNCHANGED <<recorded, applied, mfile, starts>>

(* The file name is the primary key: a second row raises, and rolls back. *)
Record(m) ==
    /\ IF mfile[m] \in recorded
       THEN MigrationStep(m, "record", "failed")
       ELSE MigrationStep(m, "record", "commit")
    /\ UNCHANGED <<recorded, applied, mfile, starts>>

Committed(f) ==
    /\ recorded' = recorded \cup {f}
    /\ applied' = [applied EXCEPT ![f] = @ + 1]

Commit(m) ==
    /\ mpc[m] = "commit"
    /\ Committed(mfile[m])
    /\ IF mfile[m] = NFiles
       THEN mpc' = [mpc EXCEPT ![m] = "done"] /\ UNCHANGED mfile
       ELSE mpc' = [mpc EXCEPT ![m] = "check"] /\ mfile' = [mfile EXCEPT ![m] = @ + 1]
    /\ UNCHANGED starts

(* It took effect, and the acknowledgement did not arrive. *)
MigrationReplyLost(m) ==
    /\ mpc[m] = "commit"
    /\ Committed(mfile[m])
    /\ mpc' = [mpc EXCEPT ![m] = "failed"]
    /\ UNCHANGED <<mfile, starts>>

(* Fault: a file that failed is passed over. *)
MigrationFailsGoesOn(m) ==
    /\ mpc[m] \in Running \ {"track"}
    /\ mfile[m] < NFiles
    /\ mpc' = [mpc EXCEPT ![m] = "check"]
    /\ mfile' = [mfile EXCEPT ![m] = @ + 1]
    /\ UNCHANGED <<recorded, applied, starts>>

(* A statement raises, two of the CREATE statements among themselves too, or *)
(* the runner is killed: what was not committed is rolled back.              *)
MigrationFails(m) ==
    /\ mpc[m] \in Running
    /\ mpc' = [mpc EXCEPT ![m] = "failed"]
    /\ UNCHANGED <<recorded, applied, mfile, starts>>

RunnerStep(m) ==
    \/ Begin(m) \/ Track(m) \/ Skip(m) \/ NotApplied(m)
    \/ Apply(m) \/ Record(m) \/ Commit(m)
    \/ MigrationReplyLost(m) \/ MigrationFails(m)

MigrationNext == \E m \in Runners : RunnerStep(m)

MigrationSpec == MigrationInit /\ [][MigrationNext]_migrationVars

---------------------------------------------------------------------------
(* Every variable has its type. *)
MigrationTypeOK ==
    /\ recorded \subseteq Files
    /\ applied \in [Files -> Nat]
    /\ mpc \in [Runners -> {"idle", "done", "failed"} \cup Running]
    /\ mfile \in [Runners -> Files]
    /\ starts \in [Runners -> 0..MaxStarts]

(* However many runners there are, and wherever they stop: the table names   *)
(* exactly the files whose content is in effect, each once, and they are the *)
(* first ones, so that a later runner completes the schema.  The check       *)
(* outside the transaction (run_migrations.py) does not see to that, the key *)
(* of the table does.                                                        *)
MigratedInOrder ==
    /\ \A f \in Files : applied[f] = IF f \in recorded THEN 1 ELSE 0
    /\ \A f \in recorded : 1..f \subseteq recorded
    /\ \A m \in Runners : mpc[m] = "done" => recorded = Files

---------------------------------------------------------------------------
(* Migrations implements SchemaVersion: what counts is the content, and the  *)
(* table that records it is how the program gets there.                      *)
Schema == INSTANCE SchemaVersion
             WITH content <- applied, reported <- {m \in Runners : mpc[m] = "done"}

(* However the runners interleave, fail or are killed, the database sees one *)
(* upgrade after the other: no file twice, none skipped, none taken back,    *)
(* and no success reported before the last one.                              *)
ImplementsSchemaVersion == Schema!Spec
============================================================================
