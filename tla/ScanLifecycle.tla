--------------------------- MODULE ScanLifecycle ---------------------------
(***************************************************************************)
(* POST /scans/{connection_id}/run, GET /scans/{scan_id} and               *)
(* GET /api/reports/{scan_run_id} of backend/app/main.py, running          *)
(* concurrently in one server process over the control-plane connection    *)
(* pool, the tables target_connections, scan_runs and scan_results, and    *)
(* the process-local dict _in_memory_scans.                                *)
(*                                                                         *)
(* Between two awaits a handler runs undisturbed, so an action is what a   *)
(* handler does from one await to the next.  Every statement sent to the   *)
(* control plane may raise; a write that raises may have taken effect.     *)
(*                                                                         *)
(* A definition marked "Fault:" is a plausible mistake in the code of the  *)
(* definition after it.  No behaviour of Spec uses one; each stands for a  *)
(* change of the code that a property below has to notice.                 *)
(***************************************************************************)
EXTENDS Naturals, FiniteSets

CONSTANTS
    Scans,        \* POST requests; a request is known by its scan_id
    Readers,      \* clients that issue GET requests, one after the other
    Targets,      \* ids of target connections, registered or not
    PoolSize,     \* max_size of the control-plane pool
    NModules,     \* diagnostics in a sweep
    MaxRestarts   \* bound on the restarts of the server

ASSUME PoolAssumption == PoolSize \in Nat \ {0}
ASSUME ModulesAssumption == NModules \in Nat \ {0}
ASSUME RestartsAssumption == MaxRestarts \in Nat
ASSUME SetsAssumption == IsFiniteSet(Scans) /\ IsFiniteSet(Readers)
ASSUME TargetsAssumption == "none" \notin Targets

VARIABLES
    serverUp,    \* the process is running
    restarts,    \* how often it was started again
    poolUp,      \* _pool is not None
    idle,        \* connections of the pool nobody holds
    targets,     \* rows of target_connections
    runs,        \* rows of scan_runs: the status of each run
    rows,        \* rows of scan_results: how many each run has
    mem,         \* _in_memory_scans: the persisted flag of the entry
    pc,          \* where each POST request is
    target,      \* its connection_id
    swept,       \* len(results) inside run_full_scan
    reply,       \* the response it is about to send or has sent
    rpc,         \* where each GET request is
    view         \* what it was asked, has read and has answered

dbVars == <<targets, runs, rows>>
serverVars == <<serverUp, restarts, poolUp>>
scanVars == <<pc, target, swept, reply>>
readVars == <<rpc, view>>
vars == <<serverVars, idle, dbVars, mem, scanVars, readVars>>

---------------------------------------------------------------------------
(* Where a POST request can be.  "acquire" waits for the pool; "check",     *)
(* "start", "mark", "save", "finish" and "commit" are about to send the     *)
(* statement of that name; "connect" and "sweep" talk to the target;        *)
(* "release" is leaving the async with block.                               *)
Holding == {"check", "start", "connect", "sweep", "mark", "save", "finish",
            "commit", "release"}
InFlight == Holding \cup {"acquire"}
PCs == InFlight \cup {"new", "done", "dead"}

Replies == {"none", "saved", "memory", "notfound", "sweep_error",
            "save_error", "error"}

(* "none" and "deleted" both say that there is no row: a run that is         *)
(* "deleted" once had one.                                                   *)
RunStatuses == {"none", "running", "completed", "failed", "deleted"}
HasRow(s) == runs[s] \notin {"none", "deleted"}

Flags == {"absent", "memory", "saved"}

ReadHolding == {"header", "rows", "release"}
ReadPCs == ReadHolding \cup {"acquire", "answered"}

(* A poll is GET /scans/{id}, a report GET /api/reports/{id}.  "count" is    *)
(* the report header's module_count, "found" the number of findings sent.    *)
ReadAnswers == {"none", "notfound", "error", "unavailable",
                "running", "completed", "failed"}
Views == [scan : Scans, kind : {"poll", "report"}, answer : ReadAnswers,
          count : 0..NModules, found : 0..NModules]

(* The connections of the pool that are out on loan. *)
ScanHolders == {s \in Scans : pc[s] \in Holding}
ReadHolders == {r \in Readers : rpc[r] \in ReadHolding}

(* persisting = cp_conn is not None.  _pool changes only while no request    *)
(* is being served (lifespan), so a request that is in flight has a          *)
(* control-plane connection exactly when the pool is up.                     *)
Persisting == poolUp

(* A request enters the dict under its own id when it returns normally. *)
Remember(s, flag) == mem' = [mem EXCEPT ![s] = flag]

---------------------------------------------------------------------------
(* The application starts with any subset of the targets registered, and     *)
(* with or without a pool: init_control_plane_pool only warns on failure.    *)
Init ==
    /\ serverUp = TRUE
    /\ restarts = 0
    /\ poolUp \in BOOLEAN
    /\ idle = IF poolUp THEN PoolSize ELSE 0
    /\ targets \in SUBSET Targets
    /\ runs = [s \in Scans |-> "none"]
    /\ rows = [s \in Scans |-> 0]
    /\ mem = [s \in Scans |-> "absent"]
    /\ pc = [s \in Scans |-> "new"]
    /\ target = [s \in Scans |-> "none"]
    /\ swept = [s \in Scans |-> 0]
    /\ reply = [s \in Scans |-> "none"]
    /\ rpc = [r \in Readers |-> "answered"]
    /\ view \in [Readers -> {v \in Views : v.answer = "none" /\ v.kind = "poll"
                                           /\ v.count = 0 /\ v.found = 0}]

---------------------------------------------------------------------------
(* POST /scans/{connection_id}/run *)

Goto(s, at) == pc' = [pc EXCEPT ![s] = at]

(* Leave the body of the async with block with response a. *)
Leave(s, a) ==
    /\ Goto(s, "release")
    /\ reply' = [reply EXCEPT ![s] = a]

Submit(s) ==
    /\ serverUp
    /\ pc[s] = "new"
    /\ \E t \in Targets : target' = [target EXCEPT ![s] = t]
    /\ Goto(s, "acquire")
    /\ UNCHANGED <<serverVars, idle, dbVars, mem, swept, reply, readVars>>

AcquireConn(s) ==
    /\ pc[s] = "acquire"
    /\ \/ /\ poolUp
          /\ idle > 0
          /\ idle' = idle - 1
          /\ Goto(s, "check")
       \/ /\ ~poolUp
          /\ Goto(s, "connect")
          /\ UNCHANGED idle
    /\ UNCHANGED <<serverVars, dbVars, mem, target, swept, reply, readVars>>

(* _pool.acquire() raises: the request has no connection to give back. *)
AcquireFails(s) ==
    /\ pc[s] = "acquire"
    /\ poolUp
    /\ idle > 0
    /\ Goto(s, "done")
    /\ reply' = [reply EXCEPT ![s] = "error"]
    /\ UNCHANGED <<serverVars, idle, dbVars, mem, target, swept, readVars>>

(* Fault: the 404 leaves without giving the connection back. *)
ConnectionExistsLeaks(s) ==
    /\ pc[s] = "check"
    /\ IF target[s] \in targets
       THEN Goto(s, "start") /\ UNCHANGED reply
       ELSE Goto(s, "done") /\ reply' = [reply EXCEPT ![s] = "notfound"]
    /\ UNCHANGED <<serverVars, idle, dbVars, mem, target, swept, readVars>>

ConnectionExists(s) ==
    /\ pc[s] = "check"
    /\ \/ /\ target[s] \in targets
          /\ Goto(s, "start")
          /\ UNCHANGED reply
       \/ /\ target[s] \notin targets
          /\ Leave(s, "notfound")
       \/ Leave(s, "error")
    /\ UNCHANGED <<serverVars, idle, dbVars, mem, target, swept, readVars>>

(* INSERT ... 'running'.  The foreign key refuses a target that was deleted *)
(* since it was checked.                                                     *)
StartScanRun(s) ==
    /\ pc[s] = "start"
    /\ target[s] \in targets
    /\ runs' = [runs EXCEPT ![s] = "running"]
    /\ Goto(s, "connect")
    /\ UNCHANGED <<serverVars, idle, targets, rows, mem, target, swept, reply, readVars>>

(* The INSERT raises.  It stands outside every try, so nothing marks a row   *)
(* that was written all the same.                                            *)
StartScanRunFails(s) ==
    /\ pc[s] = "start"
    /\ \/ UNCHANGED runs
       \/ target[s] \in targets /\ runs' = [runs EXCEPT ![s] = "running"]
    /\ Leave(s, "error")
    /\ UNCHANGED <<serverVars, idle, targets, rows, mem, target, swept, readVars>>

ConnectTarget(s) ==
    /\ pc[s] = "connect"
    /\ Goto(s, "sweep")
    /\ UNCHANGED <<serverVars, idle, dbVars, mem, target, swept, reply, readVars>>

(* Fault: a diagnostic that raises late has its error appended as well. *)
RunModuleTwice(s) ==
    /\ pc[s] = "sweep"
    /\ swept[s] <= NModules
    /\ swept' = [swept EXCEPT ![s] = @ + 1]
    /\ UNCHANGED <<serverVars, idle, dbVars, mem, pc, target, reply, readVars>>

(* A diagnostic that raises still appends a result: run_full_scan catches    *)
(* each of the five on its own.                                              *)
RunModule(s) ==
    /\ pc[s] = "sweep"
    /\ swept[s] < NModules
    /\ swept' = [swept EXCEPT ![s] = @ + 1]
    /\ UNCHANGED <<serverVars, idle, dbVars, mem, pc, target, reply, readVars>>

(* Fault: a sweep that broke off is saved as far as it came. *)
EndSweepEarly(s) ==
    /\ pc[s] = "sweep"
    /\ Persisting
    /\ Goto(s, "save")
    /\ UNCHANGED <<serverVars, idle, dbVars, mem, target, swept, reply, readVars>>

(* The sweep is over and both target connections are closed. *)
EndSweep(s) ==
    /\ pc[s] = "sweep"
    /\ swept[s] = NModules
    /\ \/ /\ Persisting
          /\ Goto(s, "save")
          /\ UNCHANGED <<mem, reply>>
       \/ /\ ~Persisting
          /\ Goto(s, "done")
          /\ reply' = [reply EXCEPT ![s] = "memory"]
          /\ Remember(s, "memory")
    /\ UNCHANGED <<serverVars, idle, dbVars, target, swept, readVars>>

(* Connecting to the target raises, or closing it after the sweep does. *)
SweepFails(s) ==
    /\ \/ pc[s] = "connect"
       \/ pc[s] = "sweep" /\ swept[s] = NModules
    /\ \/ /\ Persisting
          /\ Goto(s, "mark")
          /\ UNCHANGED reply
       \/ /\ ~Persisting
          /\ Goto(s, "done")
          /\ reply' = [reply EXCEPT ![s] = "sweep_error"]
    /\ UNCHANGED <<serverVars, idle, dbVars, mem, target, swept, readVars>>

(* Fault: an upsert in place of the UPDATE. *)
MarkFailedUpserts(s) ==
    /\ pc[s] = "mark"
    /\ runs' = [runs EXCEPT ![s] = "failed"]
    /\ Leave(s, "sweep_error")
    /\ UNCHANGED <<serverVars, idle, targets, rows, mem, target, swept, readVars>>

(* finish_scan_run(FAILED).  An UPDATE of a deleted row changes nothing, and *)
(* an exception is logged and dropped, whether or not the UPDATE took effect.*)
MarkFailed(s) ==
    /\ pc[s] = "mark"
    /\ runs' = IF HasRow(s) THEN [runs EXCEPT ![s] = "failed"] ELSE runs
    /\ Leave(s, "sweep_error")
    /\ UNCHANGED <<serverVars, idle, targets, rows, mem, target, swept, readVars>>

MarkFailedFails(s) ==
    /\ pc[s] = "mark"
    /\ Leave(s, "sweep_error")
    /\ UNCHANGED <<serverVars, idle, dbVars, mem, target, swept, readVars>>

(* The INSERTs of the transaction: nobody else sees them before the COMMIT,  *)
(* and their foreign key refuses a run that was deleted.                     *)
SaveScanResults(s) ==
    /\ pc[s] = "save"
    /\ HasRow(s)
    /\ Goto(s, "finish")
    /\ UNCHANGED <<serverVars, idle, dbVars, mem, target, swept, reply, readVars>>

(* Fault: the status is updated outside the transaction. *)
FinishScanRunOutside(s) ==
    /\ pc[s] = "finish"
    /\ runs' = [runs EXCEPT ![s] = "completed"]
    /\ Goto(s, "commit")
    /\ UNCHANGED <<serverVars, idle, targets, rows, mem, target, swept, reply, readVars>>

FinishScanRun(s) ==
    /\ pc[s] = "finish"
    /\ Goto(s, "commit")
    /\ UNCHANGED <<serverVars, idle, dbVars, mem, target, swept, reply, readVars>>

(* What a COMMIT makes visible. *)
Committed(s) ==
    /\ rows' = [rows EXCEPT ![s] = swept[s]]
    /\ runs' = [runs EXCEPT ![s] = "completed"]

Commit(s) ==
    /\ pc[s] = "commit"
    /\ Committed(s)
    /\ Leave(s, "saved")
    /\ UNCHANGED <<serverVars, idle, targets, mem, target, swept, readVars>>

(* Fault: the exception is logged and dropped. *)
SaveFailsSilently(s) ==
    /\ pc[s] \in {"save", "finish", "commit"}
    /\ Leave(s, "saved")
    /\ UNCHANGED <<serverVars, idle, dbVars, mem, target, swept, readVars>>

(* A statement of the transaction raises: it is rolled back. *)
SaveFails(s) ==
    /\ pc[s] \in {"save", "finish", "commit"}
    /\ Leave(s, "save_error")
    /\ UNCHANGED <<serverVars, idle, dbVars, mem, target, swept, readVars>>

(* Fault: a run whose save raised is marked failed. *)
CommitReplyLostMarks(s) ==
    /\ pc[s] = "commit"
    /\ Committed(s)
    /\ Goto(s, "mark")
    /\ UNCHANGED <<serverVars, idle, targets, mem, target, swept, reply, readVars>>

(* The COMMIT took effect and its acknowledgement was lost. *)
CommitReplyLost(s) ==
    /\ pc[s] = "commit"
    /\ Committed(s)
    /\ Leave(s, "save_error")
    /\ UNCHANGED <<serverVars, idle, targets, mem, target, swept, readVars>>

(* Fault: the dict is written only for scans without a control plane. *)
ReleaseForgets(s) ==
    /\ pc[s] = "release"
    /\ idle' = idle + 1
    /\ Goto(s, "done")
    /\ UNCHANGED <<serverVars, dbVars, mem, target, swept, reply, readVars>>

(* Fault: the flag is set before the transaction, the dict in a finally. *)
ReleaseRemembersAll(s) ==
    /\ pc[s] = "release"
    /\ idle' = idle + 1
    /\ Goto(s, "done")
    /\ IF swept[s] = NModules THEN Remember(s, "saved") ELSE UNCHANGED mem
    /\ UNCHANGED <<serverVars, dbVars, target, swept, reply, readVars>>

(* The connection goes back to the pool; a request that returns normally     *)
(* then enters the dict.                                                     *)
Release(s) ==
    /\ pc[s] = "release"
    /\ idle' = idle + 1
    /\ Goto(s, "done")
    /\ IF reply[s] = "saved" THEN Remember(s, "saved") ELSE UNCHANGED mem
    /\ UNCHANGED <<serverVars, dbVars, target, swept, reply, readVars>>

(* Resetting the connection raises: the pool gets its slot back, and the     *)
(* exception takes the place of the response, a successful one too.          *)
ReleaseFails(s) ==
    /\ pc[s] = "release"
    /\ idle' = idle + 1
    /\ Goto(s, "done")
    /\ reply' = [reply EXCEPT ![s] = "error"]
    /\ UNCHANGED <<serverVars, dbVars, mem, target, swept, readVars>>

---------------------------------------------------------------------------
(* GET /scans/{scan_id} and GET /api/reports/{scan_run_id} *)

ReadGoto(r, at) == rpc' = [rpc EXCEPT ![r] = at]
Answer(r, a) == view' = [view EXCEPT ![r].answer = a]

BeginRead(r) ==
    /\ serverUp
    /\ rpc[r] = "answered"
    /\ ReadGoto(r, "acquire")
    /\ \E s \in Scans, k \in {"poll", "report"} :
          view' = [view EXCEPT ![r] = [scan |-> s, kind |-> k, answer |-> "none",
                                       count |-> 0, found |-> 0]]
    /\ UNCHANGED <<serverVars, idle, dbVars, mem, scanVars>>

(* A scan of the dict was swept completely; a report never looks there. *)
LookupMemory(r) ==
    LET s == view[r].scan IN
    IF mem[s] # "absent"
    THEN view' = [view EXCEPT ![r].answer = "completed", ![r].found = swept[s]]
    ELSE Answer(r, "notfound")

ReadAcquire(r) ==
    /\ rpc[r] = "acquire"
    /\ \/ /\ poolUp
          /\ idle > 0
          /\ idle' = idle - 1
          /\ ReadGoto(r, "header")
          /\ UNCHANGED view
       \/ /\ ~poolUp
          /\ ReadGoto(r, "answered")
          /\ IF view[r].kind = "poll" THEN LookupMemory(r) ELSE Answer(r, "unavailable")
          /\ UNCHANGED idle
    /\ UNCHANGED <<serverVars, dbVars, mem, scanVars>>

ReadAcquireFails(r) ==
    /\ rpc[r] = "acquire"
    /\ poolUp
    /\ idle > 0
    /\ ReadGoto(r, "answered")
    /\ Answer(r, "error")
    /\ UNCHANGED <<serverVars, idle, dbVars, mem, scanVars>>

(* The first SELECT of load_scan_run, or load_scan_run_header.  The report's *)
(* header counts the findings in the same statement.                         *)
ReadHeader(r) ==
    LET s == view[r].scan IN
    /\ rpc[r] = "header"
    /\ IF HasRow(s)
       THEN /\ ReadGoto(r, "rows")
            /\ view' = [view EXCEPT ![r].answer = runs[s],
                                    ![r].count = IF view[r].kind = "report"
                                                 THEN rows[s] ELSE 0]
       ELSE /\ ReadGoto(r, "release")
            /\ Answer(r, "notfound")
    /\ UNCHANGED <<serverVars, idle, dbVars, mem, scanVars>>

(* Fault: the findings are read by the first statement, the status by the *)
(* second.                                                                  *)
ReadRowsFirst(r) ==
    /\ rpc[r] = "rows"
    /\ ReadGoto(r, "release")
    /\ view' = [view EXCEPT ![r].answer = runs[view[r].scan], ![r].found = view[r].count]
    /\ UNCHANGED <<serverVars, idle, dbVars, mem, scanVars>>

(* The second SELECT: a statement, and a snapshot, of its own. *)
ReadRows(r) ==
    /\ rpc[r] = "rows"
    /\ ReadGoto(r, "release")
    /\ view' = [view EXCEPT ![r].found = rows[view[r].scan]]
    /\ UNCHANGED <<serverVars, idle, dbVars, mem, scanVars>>

(* Fault: an exception leaves without giving the connection back. *)
ReadFailsLeaks(r) ==
    /\ rpc[r] \in {"header", "rows"}
    /\ ReadGoto(r, "answered")
    /\ Answer(r, "error")
    /\ UNCHANGED <<serverVars, idle, dbVars, mem, scanVars>>

ReadFails(r) ==
    /\ rpc[r] \in {"header", "rows"}
    /\ ReadGoto(r, "release")
    /\ Answer(r, "error")
    /\ UNCHANGED <<serverVars, idle, dbVars, mem, scanVars>>

(* A poll that found no row falls back to the dict, after the release. *)
ReadRelease(r) ==
    /\ rpc[r] = "release"
    /\ idle' = idle + 1
    /\ ReadGoto(r, "answered")
    /\ IF view[r].kind = "poll" /\ view[r].answer = "notfound"
       THEN LookupMemory(r)
       ELSE UNCHANGED view
    /\ UNCHANGED <<serverVars, dbVars, mem, scanVars>>

ReadReleaseFails(r) ==
    /\ rpc[r] = "release"
    /\ idle' = idle + 1
    /\ ReadGoto(r, "answered")
    /\ Answer(r, "error")
    /\ UNCHANGED <<serverVars, dbVars, mem, scanVars>>

---------------------------------------------------------------------------
(* The process and the operator *)

(* The process ends: its requests, its dict and its pool are gone, and       *)
(* PostgreSQL rolls its open transactions back.                              *)
Stop ==
    /\ serverUp' = FALSE
    /\ poolUp' = FALSE
    /\ idle' = 0
    /\ mem' = [s \in Scans |-> "absent"]
    /\ pc' = [s \in Scans |-> IF pc[s] \in InFlight THEN "dead" ELSE pc[s]]
    /\ rpc' = [r \in Readers |-> "answered"]
    /\ view' = [r \in Readers |-> [view[r] EXCEPT !.answer = "none",
                                                  !.count = 0, !.found = 0]]
    /\ UNCHANGED <<restarts, dbVars, target, swept, reply>>

Crash ==
    /\ serverUp
    /\ restarts < MaxRestarts
    /\ Stop

(* The server ends its requests before lifespan closes the pool. *)
Shutdown ==
    /\ serverUp
    /\ restarts < MaxRestarts
    /\ \A s \in Scans : pc[s] \notin InFlight
    /\ \A r \in Readers : rpc[r] = "answered"
    /\ Stop

(* init_control_plane_pool: a failure prints a warning and leaves no pool. *)
Restart ==
    /\ ~serverUp
    /\ restarts < MaxRestarts
    /\ serverUp' = TRUE
    /\ restarts' = restarts + 1
    /\ poolUp' \in BOOLEAN
    /\ idle' = IF poolUp' THEN PoolSize ELSE 0
    /\ UNCHANGED <<dbVars, mem, scanVars, readVars>>

(* The transaction that inserted results of a run holds a lock on the run    *)
(* until it ends.                                                            *)
Locked(s) == pc[s] \in {"finish", "commit"}

(* The operator deletes a target connection, and ON DELETE CASCADE its runs  *)
(* and their results.                                                        *)
DeleteTarget(t) ==
    LET gone == {s \in Scans : target[s] = t /\ HasRow(s)} IN
    /\ t \in targets
    /\ \A s \in gone : ~Locked(s)
    /\ targets' = targets \ {t}
    /\ runs' = [s \in Scans |-> IF s \in gone THEN "deleted" ELSE runs[s]]
    /\ rows' = [s \in Scans |-> IF s \in gone THEN 0 ELSE rows[s]]
    /\ UNCHANGED <<serverVars, idle, mem, scanVars, readVars>>

---------------------------------------------------------------------------
ScanStep(s) ==
    \/ AcquireConn(s) \/ AcquireFails(s)
    \/ ConnectionExists(s)
    \/ StartScanRun(s) \/ StartScanRunFails(s)
    \/ ConnectTarget(s) \/ RunModule(s) \/ EndSweep(s) \/ SweepFails(s)
    \/ MarkFailed(s) \/ MarkFailedFails(s)
    \/ SaveScanResults(s) \/ FinishScanRun(s) \/ Commit(s)
    \/ SaveFails(s) \/ CommitReplyLost(s)
    \/ Release(s) \/ ReleaseFails(s)

ReadStep(r) ==
    \/ ReadAcquire(r) \/ ReadAcquireFails(r)
    \/ ReadHeader(r) \/ ReadRows(r) \/ ReadFails(r)
    \/ ReadRelease(r) \/ ReadReleaseFails(r)

Next ==
    \/ \E s \in Scans : Submit(s) \/ ScanStep(s)
    \/ \E r \in Readers : BeginRead(r) \/ ReadStep(r)
    \/ Crash \/ Shutdown \/ Restart
    \/ \E t \in Targets : DeleteTarget(t)

Spec == Init /\ [][Next]_vars
---------------------------------------------------------------------------
(* Every variable has its type: a sweep never yields more findings than      *)
(* there are diagnostics (runner.py), the pool never holds more than its     *)
(* max_size (control_plane.py).                                              *)
TypeOK ==
    /\ serverUp \in BOOLEAN /\ poolUp \in BOOLEAN
    /\ restarts \in 0..MaxRestarts
    /\ idle \in 0..PoolSize
    /\ targets \in SUBSET Targets
    /\ runs \in [Scans -> RunStatuses]
    /\ rows \in [Scans -> 0..NModules]
    /\ mem \in [Scans -> Flags]
    /\ pc \in [Scans -> PCs]
    /\ target \in [Scans -> Targets \cup {"none"}]
    /\ swept \in [Scans -> 0..NModules]
    /\ reply \in [Scans -> Replies]
    /\ rpc \in [Readers -> ReadPCs]
    /\ view \in [Readers -> Views]

(* Every connection of the pool is either idle or on loan to one request     *)
(* that is still being served: no error path of trigger_scan, get_scan or    *)
(* api_get_report keeps one, which is what acquire_control_plane_conn is for *)
(* ("the connection must return to the pool on every path").                 *)
PoolConserved ==
    /\ poolUp => serverUp
    /\ IF poolUp
       THEN idle + Cardinality(ScanHolders) + Cardinality(ReadHolders) = PoolSize
       ELSE idle = 0 /\ ReadHolders = {}

(* A run has all its findings or none: they are in scan_results exactly when *)
(* scan_runs says "completed", whatever failed, crashed or was deleted in    *)
(* between (the transaction of trigger_scan).                                *)
OutcomeAtomic ==
    \A s \in Scans : rows[s] = IF runs[s] = "completed" THEN NModules ELSE 0

(* What the caller is told agrees with the recorded run.  "saved" means a    *)
(* complete run, a failed sweep never shows as completed, a failed save      *)
(* never as failed, and a row left at "running" is the trace of a crash or   *)
(* of an error answer, never of a successful one.                            *)
ReplyMatchesRow ==
    \A s \in Scans : pc[s] \in {"release", "done"} =>
        /\ reply[s] # "none"
        /\ reply[s] = "saved" => runs[s] \in {"completed", "deleted"} /\ swept[s] = NModules
        /\ reply[s] \in {"memory", "notfound"} => runs[s] = "none"
        /\ reply[s] = "sweep_error" => runs[s] # "completed"
        /\ reply[s] = "save_error" => runs[s] \in {"running", "completed", "deleted"}

(* An entry of _in_memory_scans is whole, and its persisted flag is true     *)
(* exactly when the run was recorded: "a run held only in memory cannot be   *)
(* mistaken for a saved one" (README, control-plane persistence).            *)
PersistedFlagHonest ==
    \A s \in Scans :
        /\ mem[s] # "absent" => pc[s] = "done" /\ swept[s] = NModules
        /\ mem[s] = "saved" => runs[s] \in {"completed", "deleted"}
        /\ mem[s] = "memory" => runs[s] = "none"

(* A closed run is never reopened or closed differently: finish_scan_run is  *)
(* an unconditional UPDATE, only the handler's control flow keeps the late   *)
(* "failed" away from a committed run.                                       *)
TerminalStable ==
    [][\A s \in Scans : runs[s] \in {"completed", "failed"}
                            => runs'[s] \in {runs[s], "deleted"}]_vars

(* A reader that is shown "completed" is shown every finding, although the   *)
(* status and the findings come from two statements outside any transaction: *)
(* load_scan_run reads the status first.                                     *)
WholeAnswer ==
    \A r \in Readers :
        LET v == view[r] IN
        (rpc[r] = "answered" /\ v.answer = "completed" /\ runs[v.scan] # "deleted")
            => v.found = NModules

(* While the pool is up, a poll never answers 404 for a scan whose caller    *)
(* was already told it was saved: a poll that looked for the row before it   *)
(* was written finds the scan in the dict.                                   *)
FoundOnceSaved ==
    [][\A r \in Readers :
          LET s == view[r].scan IN
          ~ /\ poolUp /\ poolUp'
            /\ rpc[r] # "answered" /\ rpc'[r] = "answered"
            /\ view[r].kind = "poll" /\ view'[r].answer = "notfound"
            /\ pc[s] = "done" /\ reply[s] = "saved" /\ runs[s] = "completed"]_vars

(* How far the recorded run is, by where its request is: no row before the   *)
(* INSERT, a running one until the transaction or the UPDATE that closes it, *)
(* and a whole sweep before anything is saved.  A request is in flight only  *)
(* in a running process, and past the sweep only with a pool.                *)
RowMatchesProgress ==
    \A s \in Scans :
        /\ pc[s] \in {"new", "acquire", "check", "start"} => runs[s] = "none"
        /\ pc[s] \in {"connect", "sweep"} =>
              IF poolUp THEN runs[s] \in {"running", "deleted"} ELSE runs[s] = "none"
        /\ pc[s] \in {"mark", "save"} => runs[s] \in {"running", "deleted"}
        /\ Locked(s) => runs[s] = "running"
        /\ pc[s] \in {"save", "finish", "commit"} => swept[s] = NModules
        /\ pc[s] \in InFlight => serverUp
        /\ pc[s] \in Holding \ {"connect", "sweep"} => poolUp

(* The inductive invariant: what every step preserves. *)
IInv ==
    /\ TypeOK
    /\ PoolConserved
    /\ RowMatchesProgress
    /\ OutcomeAtomic
    /\ ReplyMatchesRow
    /\ PersistedFlagHonest

---------------------------------------------------------------------------
(* ScanLifecycle implements ScanRecord: the caller's answer is what was sent *)
(* once the connection was released.                                         *)
Told == [s \in Scans |-> CASE pc[s] = "done" -> reply[s]
                           [] pc[s] = "dead" -> "lost"
                           [] OTHER -> "none"]

Record == INSTANCE ScanRecord WITH record <- runs, findings <- rows, answer <- Told

(* The record of every run is opened once, closed once with its findings,    *)
(* never written after its caller was answered or lost, and agrees with the  *)
(* answer.                                                                   *)
ImplementsScanRecord == Record!Spec

---------------------------------------------------------------------------
(* Only one wait of a request can be counted on to end.  The timeouts of     *)
(* control_plane.py and target.py bound connecting; no statement has one, to *)
(* the control plane or to the target, where a lock can hold it for ever,    *)
(* and neither has acquire().  But asyncpg wakes those that wait for a       *)
(* connection in the order they came, so a waiter is not overtaken for ever: *)
(* strong fairness for the acquisition, and none for anything else.          *)
Fairness ==
    /\ \A s \in Scans : SF_vars(AcquireConn(s) \/ AcquireFails(s))
    /\ \A r \in Readers : SF_vars(ReadAcquire(r) \/ ReadAcquireFails(r))

FairSpec == Spec /\ Fairness

(* The whole pool is on loan to requests that are still being served. *)
PoolOnLoan ==
    idle = 0 /\ Cardinality(ScanHolders) + Cardinality(ReadHolders) = PoolSize

(* A scan request that waits for a connection is answered, or dies with the  *)
(* server, unless it gets one and then hangs at a statement, or as many      *)
(* requests as the pool has connections do.  acquire() has no timeout, so    *)
(* nothing else may keep it waiting: not a connection that was not given     *)
(* back, not a stream of polls.                                              *)
EveryScanEndsOrHangs ==
    \A s \in Scans : pc[s] = "acquire" ~>
        (pc[s] \in {"done", "dead"} \/ [](pc[s] \in Holding) \/ []PoolOnLoan)

(* Nor does anything else keep a poll or a report request from its answer,   *)
(* although sweeps hold their connection for as long as the diagnostics take.*)
EveryReadEndsOrHangs ==
    \A r \in Readers : rpc[r] = "acquire" ~>
        (rpc[r] = "answered" \/ [](rpc[r] \in ReadHolding) \/ []PoolOnLoan)
============================================================================
