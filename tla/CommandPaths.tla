----------------------------- MODULE CommandPaths -----------------------------
(***************************************************************************)
(* The two older paths to the same terminals (app_rewrite/runtime.py and   *)
(* executor.py), side by side:                                             *)
(*   - external commands, prepared by one call and executed by another or  *)
(*     by a worker thread: rows of external_prepare_store.py and           *)
(*     external_execute_store.py, one remembered id, every section under   *)
(*     _external_prepare_lock (variable call);                             *)
(*   - jobs: submitted, approved and taken by the one thread of            *)
(*     ExecutionEngine, rows of job_store.py;                              *)
(*   - cancel (of a job), force_stop (the window's button), the window     *)
(*     polling snapshot(), recycles and shells.                            *)
(* Rows survive a restart of the process; nothing else does.               *)
(*                                                                         *)
(* Texts and ids are compared by the request alone: a repeated id with     *)
(* another text or terminal raises and changes nothing.                    *)
(***************************************************************************)
EXTENDS TerminalManager

CONSTANTS
    Externals,      \* external commands, named by the id they are prepared under
    Jobs,           \* commands of the job queue
    TargetOf,       \* the terminal of each command
    MaxRestarts,    \* bound: restarts of the process
    Environments    \* what surrounds the two paths: commands sent, other events

Events == {"discard", "cancel", "force_stop", "snapshot", "session_loss", "raise", "restart"}

ASSUME PathsAssumption ==
    /\ Requests = Externals \cup Jobs /\ Externals \cap Jobs = {}
    /\ TargetOf \in [Requests -> Targets]
    /\ MaxRestarts \in Nat
    /\ Environments \subseteq [commands : SUBSET Requests, events : SUBSET Events]
    /\ Cancellers = {"cancel", "force_stop"}
    /\ Recyclers = Cancellers \cup {"snapshot"}

VARIABLES
    prepRow,     \* external_prepares: state of a row ("NONE": no row)
    current,     \* rows of external_prepares whose runtime_instance is ours
    execRow,     \* external_executions: state of the row for a prepared id
    remembered,  \* _external_prepared_request_id
    call,        \* the section under _external_prepare_lock, and its command
    starting,    \* start_external_async calls between their two sections
    workers,     \* threads of _run_external_async that wait for the lock
    job,         \* jobs: state of a row
    engine,      \* what the engine's thread took with claim_next
    activeJob,   \* ExecutionEngine._active_job_id
    cancelJob,   \* ExecutionEngine._cancel_requested
    pc,          \* command -> where the thread that drives it stands
    verdict,     \* how the engine will conclude its job
    cancel,      \* canceller -> where it stands and what it looked at
    snap,        \* where snapshot() stands
    stale,       \* the targets snapshot() read as taken or executing
    presses,     \* history: command -> times its own thread pressed Enter
    withdrawn,   \* history: jobs cancelled in the store before they ran
    restarts,    \* counter of restarts, for the bound
    environment  \* what happens in this behaviour; it never changes

rows      == <<prepRow, current, execRow>>
external  == <<rows, remembered, call, starting, workers>>
jobs      == <<job, engine, activeJob, cancelJob, verdict>>
callers   == <<cancel, snap, stale>>
record    == <<presses, withdrawn, restarts, environment>>
vars      == <<manager, external, jobs, pc, callers, record>>

Free == [op |-> "none", on |-> None]
Idle == [at |-> "idle", on |-> None]

PrepareSteps == {"admit", "claim", "type"}
ExecuteSteps == {"admitted", "claimed", "entered", "release"}
ConcludedJob == {"SUCCESS", "FAILED", "CANCELLED", "INTERRUPTED"}

TypeOK ==
    /\ ManagerTypeOK
    /\ prepRow \in [Externals -> {"NONE", "RESERVED", "PREPARING", "PREPARED", "FAILED", "DISCARDED"}]
    /\ current \subseteq Externals
    /\ execRow \in [Externals -> {"NONE", "RESERVED", "EXECUTING", "FINISHED", "FAILED"}]
    /\ remembered \in Externals \cup {None}
    /\ call \in [op : {"none", "prepare", "async", "execute"}, on : Externals \cup {None}]
    /\ starting \subseteq Externals /\ workers \subseteq Externals
    /\ job \in [Jobs -> {"NONE", "PENDING", "APPROVED", "PREPARING", "PREPARED", "RUNNING"} \cup ConcludedJob]
    /\ engine \in Jobs \cup {None} /\ activeJob \in Jobs \cup {None}
    /\ cancelJob \subseteq Jobs
    /\ verdict \in ConcludedJob \cup {None}
    /\ pc \in [Requests -> {"idle", "raised", "typed", "marked", "preview", "run", "told",
                            "conclude", "look", "drop", "close"} \cup PrepareSteps \cup ExecuteSteps]
    /\ cancel \in [Cancellers -> [at : {"idle", "look", "signal", "discard", "pending", "request", "external"},
                                  on : Targets \cup Requests \cup {None}]]
    /\ snap \in {"idle", "owner", "recover", "forget", "recycle", "await"}
    /\ stale \subseteq Targets
    /\ presses \in [Requests -> Nat]
    /\ withdrawn \subseteq Jobs
    /\ restarts \in 0..MaxRestarts
    /\ environment \in Environments

Init ==
    /\ ManagerInit
    /\ prepRow = [p \in Externals |-> "NONE"] /\ current = {}
    /\ execRow = [p \in Externals |-> "NONE"]
    /\ remembered = None /\ call = Free /\ starting = {} /\ workers = {}
    /\ job = [j \in Jobs |-> "NONE"]
    /\ engine = None /\ activeJob = None /\ cancelJob = {} /\ verdict = None
    /\ pc = [r \in Requests |-> "idle"]
    /\ cancel = [c \in Cancellers |-> Idle]
    /\ snap = "idle" /\ stale = {}
    /\ presses = [r \in Requests |-> 0]
    /\ withdrawn = {} /\ restarts = 0
    /\ environment \in Environments

Goto(r, step) == pc' = [pc EXCEPT ![r] = step]

\* What a thread that only drives a terminal leaves alone.
terminalFrame == <<external, jobs, callers, withdrawn, restarts, environment>>

-----------------------------------------------------------------------------
(* TerminalManager.prepare, called for r by the thread that drives it *)

PrepareAdmit(r) ==
    /\ pc[r] = "admit"
    /\ Goto(r, IF TargetOf[r] \in recovering THEN "raised" ELSE "claim")
    /\ UNCHANGED <<manager, presses, terminalFrame>>

PrepareClaim(r) ==
    /\ pc[r] = "claim"
    /\ \/ ClaimAuthority(TargetOf[r]) /\ Goto(r, "type")
       \/ /\ \/ Busy /\ EnsureSession(TargetOf[r])
             \/ TargetOf[r] \notin online /\ UNCHANGED sessions
          /\ Goto(r, "raised")
          /\ UNCHANGED <<authority, history, recovery>>
    /\ UNCHANGED <<presses, terminalFrame>>

\* Only a terminal that reads its line back can reject what it typed; one that
\* takes a single line refuses a text of several.
PrepareType(r) ==
    /\ pc[r] = "type"
    /\ \/ TypeCommand(r, TargetOf[r]) /\ Goto(r, "typed")
       \/ "raise" \in environment.events /\ TypeCommandRaises(r, TargetOf[r]) /\ Goto(r, "raised")
       \/ TargetOf[r] \notin ClearingTargets /\ DiscardPrepared /\ Goto(r, "raised")
    /\ UNCHANGED <<presses, terminalFrame>>

-----------------------------------------------------------------------------
(* TerminalManager.execute_prepared *)

Refused(r) == Report(r, "refused") /\ Goto(r, "told")

ExecuteAdmit(r) ==
    /\ pc[r] = "admitted"
    /\ IF TargetOf[r] \in recovering
         THEN Refused(r) /\ UNCHANGED <<online, execution, executor, line>>
         ELSE Goto(r, "claimed") /\ UNCHANGED sessions
    /\ UNCHANGED <<authority, history, recovery, presses, terminalFrame>>

ExecuteClaim(r) ==
    /\ pc[r] = "claimed"
    /\ \/ ClaimExecution(TargetOf[r]) /\ Goto(r, "entered")
       \/ /\ prepared # TargetOf[r] \/ TargetOf[r] \notin online
          /\ Refused(r)
          /\ UNCHANGED <<authority, online, execution, executor, line, history, recovery>>
    /\ UNCHANGED <<presses, terminalFrame>>

ExecuteEnter(r) ==
    /\ pc[r] = "entered"
    /\ executor[TargetOf[r]] # r
    /\ \/ /\ PressEnter(r, TargetOf[r])
          /\ presses' = [presses EXCEPT ![r] = @ + 1]
          /\ UNCHANGED pc
       \/ EnterRefused(r, TargetOf[r]) /\ Goto(r, "release") /\ UNCHANGED presses
    /\ UNCHANGED terminalFrame

ExecuteLeave(r) ==
    /\ pc[r] = "entered"
    /\ LeaveSession(r, TargetOf[r])
    /\ Goto(r, "release")
    /\ UNCHANGED <<presses, terminalFrame>>

ExecuteRelease(r) ==
    /\ pc[r] = "release"
    /\ ReleaseAuthority
    /\ Goto(r, "told")
    /\ UNCHANGED <<presses, terminalFrame>>

Terminal(r) ==
    \/ PrepareAdmit(r) \/ PrepareClaim(r) \/ PrepareType(r)
    \/ ExecuteAdmit(r) \/ ExecuteClaim(r) \/ ExecuteEnter(r)
    \/ ExecuteLeave(r) \/ ExecuteRelease(r)

-----------------------------------------------------------------------------
(* External commands: prepare_external, start_external_async *)

ExternalOnly == <<manager, jobs, callers, record>>

SetPreparation(p, s) == prepRow' = [prepRow EXCEPT ![p] = s]
SetExecution(p, s)   == execRow' = [execRow EXCEPT ![p] = s]
Leave(p)             == call' = Free /\ Goto(p, "idle")

\* A row of this runtime whose command stands prepared is answered again: the
\* terminal is compared, not the command that stands there.
PrepareAgain(op, p) ==
    /\ call = Free
    /\ op = "async" => execRow[p] = "NONE"
    /\ p \in current /\ prepRow[p] = "PREPARED"
    /\ prepared = TargetOf[p]
    /\ remembered' = p
    /\ starting' = IF op = "async" THEN starting \cup {p} ELSE starting
    /\ UNCHANGED <<ExternalOnly, rows, call, workers, pc>>

\* A new row, a concluded one, or one of a former runtime, which is reset even
\* if its command was executed.  A busy terminal refuses, after the row is made.
PrepareExternal(op, p) ==
    /\ p \in environment.commands
    /\ call = Free
    /\ op = "async" => execRow[p] = "NONE"
    /\ p \in current => prepRow[p] \notin {"PREPARING", "PREPARED"}
    /\ current' = current \cup {p}
    /\ IF Busy
         THEN /\ SetPreparation(p, IF p \in current THEN prepRow[p] ELSE "RESERVED")
              /\ UNCHANGED <<call, pc>>
         ELSE /\ SetPreparation(p, "PREPARING")
              /\ call' = [op |-> op, on |-> p]
              /\ Goto(p, "admit")
    /\ UNCHANGED <<ExternalOnly, execRow, remembered, starting, workers>>

PrepareRaised(p) ==
    /\ call.on = p /\ pc[p] = "raised"
    /\ SetPreparation(p, "FAILED")
    /\ Leave(p)
    /\ UNCHANGED <<ExternalOnly, current, execRow, remembered, starting, workers>>

PrepareMark(p) ==
    /\ call.on = p /\ pc[p] = "typed"
    /\ SetPreparation(p, "PREPARED")
    /\ Goto(p, "marked")
    /\ UNCHANGED <<ExternalOnly, current, execRow, remembered, call, starting, workers>>

PrepareRemember(p) ==
    /\ call.on = p /\ pc[p] = "marked"
    /\ remembered' = p
    /\ starting' = IF call.op = "async" THEN starting \cup {p} ELSE starting
    /\ Leave(p)
    /\ UNCHANGED <<ExternalOnly, rows, workers>>

\* The second section of start_external_async: one worker for a new row.
AsyncReserve(p) ==
    /\ p \in starting /\ call = Free
    /\ starting' = starting \ {p}
    /\ IF execRow[p] = "NONE"
         THEN SetExecution(p, "RESERVED") /\ workers' = workers \cup {p}
         ELSE UNCHANGED <<execRow, workers>>
    /\ UNCHANGED <<ExternalOnly, prepRow, current, remembered, call, pc>>

-----------------------------------------------------------------------------
(* execute_external, _run_external_async: the lock is held while it runs *)

Execute(p) ==
    /\ SetExecution(p, "EXECUTING")
    /\ call' = [op |-> "execute", on |-> p]
    /\ Goto(p, "admitted")

\* Faulty variant: a prepared command is executed again.
ExecuteExternalAgain(p) ==
    /\ call = Free /\ remembered = p
    /\ Execute(p)
    /\ UNCHANGED <<ExternalOnly, prepRow, current, remembered, starting, workers>>

\* A prepared id with a row is answered or raises, and stays remembered.
ExecuteExternal(p) ==
    /\ call = Free /\ remembered = p
    /\ execRow[p] = "NONE"
    /\ Execute(p)
    /\ UNCHANGED <<ExternalOnly, prepRow, current, remembered, starting, workers>>

\* Faulty variant: a worker whose command is gone ends without a word.
WorkerForgets(p) ==
    /\ p \in workers /\ call = Free
    /\ \/ /\ execRow[p] = "RESERVED" /\ remembered = p
          /\ Execute(p)
          /\ UNCHANGED workers
       \/ /\ execRow[p] # "RESERVED" \/ remembered # p
          /\ workers' = workers \ {p}
          /\ UNCHANGED <<execRow, call, pc>>
    /\ UNCHANGED <<ExternalOnly, prepRow, current, remembered, starting>>

WorkerBegin(p) ==
    /\ p \in workers /\ call = Free
    /\ \/ /\ execRow[p] = "RESERVED" /\ remembered = p
          /\ Execute(p)
          /\ UNCHANGED workers
       \/ /\ execRow[p] # "RESERVED" \/ remembered # p
          /\ workers' = workers \ {p}
          /\ IF execRow[p] = "RESERVED" THEN SetExecution(p, "FAILED")
                                           ELSE UNCHANGED execRow
          /\ UNCHANGED <<call, pc>>
    /\ UNCHANGED <<ExternalOnly, prepRow, current, remembered, starting>>

\* Whatever the row says by now is overwritten.
ExternalConclude(p) ==
    /\ call = [op |-> "execute", on |-> p] /\ pc[p] = "told"
    /\ SetExecution(p, IF outcome[p] = "ok" THEN "FINISHED" ELSE "FAILED")
    /\ Report(p, "unset")
    /\ remembered' = None
    /\ workers' = workers \ {p}
    /\ Leave(p)
    /\ UNCHANGED <<authority, online, execution, executor, line, history, recovery,
                   jobs, callers, record, prepRow, current, starting>>

\* discard_external: nothing may execute.  The prompt it erases may hold nothing
\* of the remembered command any more.
DiscardRemembered ==
    /\ remembered # None /\ \A t \in Targets : executing[t] = None
    /\ DiscardPrepared
    /\ IF prepared # None
         THEN SetPreparation(remembered, "DISCARDED") /\ remembered' = None
         ELSE UNCHANGED <<prepRow, remembered>>
    /\ UNCHANGED <<current, execRow, call, starting, workers>>

DiscardExternal ==
    /\ "discard" \in environment.events
    /\ call = Free
    /\ DiscardRemembered
    /\ UNCHANGED <<jobs, pc, callers, record>>

-----------------------------------------------------------------------------
(* Jobs: JobStore and ExecutionEngine._loop, _run_job *)

JobsOnly == <<external, callers, presses, restarts, environment>>

SetJob(j, s) == job' = [job EXCEPT ![j] = s]

Submit(j) ==
    /\ j \in environment.commands
    /\ job[j] = "NONE"
    /\ SetJob(j, "PENDING")
    /\ UNCHANGED <<manager, JobsOnly, engine, activeJob, cancelJob, verdict, pc, withdrawn>>

Approve(j) ==
    /\ job[j] = "PENDING"
    /\ SetJob(j, "APPROVED")
    /\ UNCHANGED <<manager, JobsOnly, engine, activeJob, cancelJob, verdict, pc, withdrawn>>

ClaimNext(j) ==
    /\ engine = None /\ job[j] = "APPROVED"
    /\ engine' = j
    /\ SetJob(j, "PREPARING")
    /\ UNCHANGED <<manager, JobsOnly, activeJob, cancelJob, verdict, pc, withdrawn>>

JobBegin ==
    /\ engine # None /\ activeJob = None
    /\ activeJob' = engine
    /\ Goto(engine, "admit")
    /\ UNCHANGED <<manager, JobsOnly, job, engine, cancelJob, verdict, withdrawn>>

JobStep(j) == activeJob = j /\ UNCHANGED <<JobsOnly, engine, activeJob, cancelJob, withdrawn>>

\* The job will be concluded so, unless a cancel was asked for.
Conclude(j, how) == verdict' = how /\ Goto(j, "conclude")

Unless(how) == IF activeJob \in cancelJob THEN "CANCELLED" ELSE how

\* Faulty variant: a refused prepare is not written down.
JobPrepareForgotten(j) ==
    /\ pc[j] = "raised"
    /\ Goto(j, "close")
    /\ UNCHANGED <<manager, job, verdict>>
    /\ JobStep(j)

\* prepare() raised: nothing of this job is discarded in the end.
JobPrepareRaised(j) ==
    /\ pc[j] = "raised"
    /\ SetJob(j, Unless("FAILED"))
    /\ Goto(j, "close")
    /\ UNCHANGED <<manager, verdict>>
    /\ JobStep(j)

JobMarkPrepared(j) ==
    /\ pc[j] = "typed"
    /\ IF job[j] = "PREPARING"
         THEN SetJob(j, "PREPARED") /\ Goto(j, "preview") /\ UNCHANGED verdict
         ELSE Conclude(j, Unless("FAILED")) /\ UNCHANGED job
    /\ UNCHANGED manager
    /\ JobStep(j)

JobPreview(j) ==
    /\ pc[j] = "preview"
    /\ IF j \in cancelJob THEN Conclude(j, "CANCELLED") ELSE Goto(j, "run") /\ UNCHANGED verdict
    /\ UNCHANGED <<manager, job>>
    /\ JobStep(j)

\* Faulty variant: the row is not asked.
JobRunsAnyway(j) ==
    /\ pc[j] = "run"
    /\ SetJob(j, "RUNNING") /\ Goto(j, "admitted") /\ UNCHANGED verdict
    /\ UNCHANGED manager
    /\ JobStep(j)

JobRun(j) ==
    /\ pc[j] = "run"
    /\ IF job[j] = "PREPARED"
         THEN SetJob(j, "RUNNING") /\ Goto(j, "admitted") /\ UNCHANGED verdict
         ELSE Conclude(j, Unless("FAILED")) /\ UNCHANGED job
    /\ UNCHANGED manager
    /\ JobStep(j)

JobTold(j) ==
    /\ pc[j] = "told"
    /\ Conclude(j, CASE outcome[j] = "ok"          -> "SUCCESS"
                     [] outcome[j] = "cancelled"   -> "CANCELLED"
                     [] outcome[j] = "interrupted" -> Unless("INTERRUPTED")
                     [] OTHER                      -> Unless("FAILED"))
    /\ Report(j, "unset")
    /\ UNCHANGED <<authority, online, execution, executor, line, history, recovery, job>>
    /\ JobStep(j)

\* store.finish: whatever the row says by now.
JobConclude(j) ==
    /\ pc[j] = "conclude"
    /\ SetJob(j, verdict)
    /\ verdict' = None
    /\ Goto(j, "look")
    /\ UNCHANGED manager
    /\ JobStep(j)

\* The finally of _run_job erases the prompt that is prepared by now, whoever
\* prepared it.
JobLook(j) ==
    /\ pc[j] = "look"
    /\ Goto(j, IF prepared # None THEN "drop" ELSE "close")
    /\ UNCHANGED <<manager, job, verdict>>
    /\ JobStep(j)

JobDrop(j) ==
    /\ pc[j] = "drop"
    /\ DiscardPrepared
    /\ Goto(j, "close")
    /\ UNCHANGED <<job, verdict>>
    /\ JobStep(j)

JobClose(j) ==
    /\ pc[j] = "close" /\ activeJob = j
    /\ cancelJob' = cancelJob \ {j}
    /\ activeJob' = None /\ engine' = None
    /\ Goto(j, "idle")
    /\ UNCHANGED <<manager, JobsOnly, job, verdict, withdrawn>>

RunJob(j) ==
    \/ JobPrepareRaised(j) \/ JobMarkPrepared(j) \/ JobPreview(j) \/ JobRun(j)
    \/ JobTold(j) \/ JobConclude(j) \/ JobLook(j) \/ JobDrop(j) \/ JobClose(j)

-----------------------------------------------------------------------------
(* ExecutionEngine.cancel, BridgeRuntime.force_stop_active, cancel_active *)

CancelOnly == <<external, pc, snap, stale, presses, restarts, environment>>
JobsRest   == <<job, engine, activeJob, cancelJob, verdict>>

CancelAt(c, step, x) == cancel' = [cancel EXCEPT ![c] = [at |-> step, on |-> x]]
CancelDone(c)        == cancel' = [cancel EXCEPT ![c] = Idle]

\* cancel(job_id): the engine's job is interrupted, another one is cancelled in
\* the store.  The job may have ended, or begun, before the next step.
CancelCall(j) ==
    /\ "cancel" \in environment.events
    /\ cancel["cancel"].at = "idle" /\ job[j] # "NONE"
    /\ CancelAt("cancel", IF activeJob = j THEN "request" ELSE "pending", j)
    /\ UNCHANGED <<manager, CancelOnly, JobsRest, withdrawn>>

CancelRequest(c) ==
    /\ cancel[c].at = "request"
    /\ cancelJob' = cancelJob \cup {cancel[c].on}
    /\ CancelAt(c, "look", None)
    /\ UNCHANGED <<manager, CancelOnly, job, engine, activeJob, verdict, withdrawn>>

Withdraws(j) == job[j] \in {"PENDING", "APPROVED", "PREPARING", "PREPARED"}

CancelPending(c) ==
    LET j == cancel[c].on IN
    /\ cancel[c].at = "pending"
    /\ IF Withdraws(j) THEN SetJob(j, "CANCELLED") /\ withdrawn' = withdrawn \cup {j}
                       ELSE UNCHANGED <<job, withdrawn>>
    /\ CancelDone(c)
    /\ UNCHANGED <<manager, CancelOnly, engine, activeJob, cancelJob, verdict>>

\* The stop button looks at the terminals, then at the remembered command, then
\* at the authority, and at last at the engine.
ForceStop ==
    /\ "force_stop" \in environment.events
    /\ cancel["force_stop"].at = "idle"
    /\ IF \E t \in Targets : executing[t] # None THEN CancelAt("force_stop", "look", None)
       ELSE IF prepared # None /\ remembered # None THEN CancelAt("force_stop", "external", remembered)
       ELSE IF active # None THEN CancelAt("force_stop", "look", None)
       ELSE activeJob # None /\ CancelAt("force_stop", "request", activeJob)
    /\ UNCHANGED <<manager, CancelOnly, JobsRest, withdrawn>>

ForceDiscard ==
    /\ cancel["force_stop"].at = "external"
    /\ call = Free
    /\ \/ remembered = cancel["force_stop"].on /\ DiscardRemembered
       \/ /\ remembered # cancel["force_stop"].on \/ \E t \in Targets : executing[t] # None
          /\ UNCHANGED <<manager, external>>
    /\ CancelDone("force_stop")
    /\ UNCHANGED <<JobsRest, pc, snap, stale, record>>

CancelLook(c) ==
    /\ cancel[c].at = "look"
    /\ IF active # None /\ executing[active] # None
         THEN MarkRecovering(active) /\ CancelAt(c, "signal", active)
         ELSE /\ UNCHANGED manager
              /\ IF prepared # None THEN CancelAt(c, "discard", None) ELSE CancelDone(c)
    /\ UNCHANGED <<CancelOnly, JobsRest, withdrawn>>

CancelSignal(c) ==
    /\ cancel[c].at = "signal"
    /\ SignalCancel(c, cancel[c].on) \/ SignalCancelFails(cancel[c].on)
    /\ CancelDone(c)
    /\ UNCHANGED <<CancelOnly, JobsRest, withdrawn>>

CancelDiscard(c) ==
    /\ cancel[c].at = "discard"
    /\ DiscardPrepared
    /\ CancelDone(c)
    /\ UNCHANGED <<CancelOnly, JobsRest, withdrawn>>

Cancelling(c) ==
    \/ CancelRequest(c) \/ CancelPending(c)
    \/ CancelLook(c) \/ CancelSignal(c) \/ CancelDiscard(c)

-----------------------------------------------------------------------------
(* snapshot(), recycles, shells, restart *)

SnapshotOnly == <<jobs, pc, cancel, record>>

\* Faulty variant: looks at what executes, not at what is taken.
SnapshotReadExecuting ==
    /\ "snapshot" \in environment.events
    /\ snap = "idle"
    /\ stale' = {t \in Targets : executing[t] # None}
    /\ snap' = "owner"
    /\ UNCHANGED <<manager, external, SnapshotOnly>>

SnapshotRead ==
    /\ "snapshot" \in environment.events
    /\ snap = "idle"
    /\ stale' = {t \in Targets : executing[t] # None} \cup ({active, prepared} \ {None})
    /\ snap' = "owner"
    /\ UNCHANGED <<manager, external, SnapshotOnly>>

HasOwner == activeJob # None \/ remembered # None \/ workers # {}

SnapshotOwner ==
    /\ snap = "owner"
    /\ IF HasOwner THEN snap' = "idle" /\ UNCHANGED manager
       ELSE IF stale # {} THEN snap' = "recover" /\ UNCHANGED manager
       ELSE /\ snap' = "await"
            /\ pending' = IF Busy \/ recovering # {} THEN pending
                          ELSE pending \cup ((Targets \ online) \X {"snapshot"})
            /\ UNCHANGED <<authority, sessions, history, recovering, recycler>>
    /\ stale' = IF HasOwner THEN {} ELSE stale
    /\ UNCHANGED <<external, SnapshotOnly>>

\* Live executions of this runtime, all of them by now, and its preparations.
FailLive == execRow' = [p \in Externals |->
    IF execRow[p] \in {"RESERVED", "EXECUTING"} THEN "FAILED" ELSE execRow[p]]

SnapshotRecover ==
    /\ snap = "recover"
    /\ FailLive
    /\ prepRow' = [p \in Externals |->
           IF p \in current /\ prepRow[p] \in {"PREPARING", "PREPARED"}
             THEN "DISCARDED" ELSE prepRow[p]]
    /\ snap' = "forget"
    /\ UNCHANGED <<manager, current, remembered, call, starting, workers, stale, SnapshotOnly>>

SnapshotForget ==
    /\ snap = "forget"
    /\ remembered' = None
    /\ snap' = "recycle"
    /\ UNCHANGED <<manager, rows, call, starting, workers, stale, SnapshotOnly>>

SnapshotRecycle ==
    /\ snap = "recycle"
    /\ pending' = pending \cup (stale \X {"snapshot"})
    /\ snap' = "await"
    /\ UNCHANGED <<authority, sessions, history, recovering, recycler, external,
                   stale, SnapshotOnly>>

SnapshotAwait ==
    /\ snap = "await"
    /\ \A t \in Targets : <<t, "snapshot">> \notin pending /\ recycler # <<t, "snapshot">>
    /\ snap' = "idle" /\ stale' = {}
    /\ UNCHANGED <<manager, external, SnapshotOnly>>

Snapshot == SnapshotRead \/ SnapshotOwner \/ SnapshotRecover \/ SnapshotForget
            \/ SnapshotRecycle \/ SnapshotAwait

Others == <<external, jobs, pc, callers, record>>

Recycle(t, who) ==
    /\ RecycleBegin(t, who) \/ RecycleClose(t, who) \/ RecycleFinish(t, who)
    /\ UNCHANGED Others

ShellEnds(t)   == CommandEnds(t) /\ UNCHANGED Others
ShellForced(t) == ForceCompletion(t) /\ UNCHANGED Others
ShellLost(t)   == "session_loss" \in environment.events /\ SessionDies(t) /\ UNCHANGED Others

\* JobStore.__init__ and recover_stale conclude what was running; preparations
\* keep their state under a runtime that is gone.
Restart ==
    /\ "restart" \in environment.events
    /\ restarts < MaxRestarts
    /\ restarts' = restarts + 1
    /\ job' = [j \in Jobs |-> IF job[j] \in {"PREPARING", "PREPARED", "RUNNING"}
                                THEN "INTERRUPTED" ELSE job[j]]
    /\ FailLive
    /\ current' = {} /\ remembered' = None /\ call' = Free
    /\ starting' = {} /\ workers' = {}
    /\ engine' = None /\ activeJob' = None /\ cancelJob' = {} /\ verdict' = None
    /\ pc' = [r \in Requests |-> "idle"]
    /\ cancel' = [c \in Cancellers |-> Idle]
    /\ snap' = "idle" /\ stale' = {}
    /\ active' = None /\ prepared' = None
    /\ recovering' = {} /\ pending' = {} /\ recycler' = None
    /\ online' = Targets
    /\ executing' = [t \in Targets |-> None] /\ cancelling' = {} /\ completing' = {}
    /\ executor' = [t \in Targets |-> None]
    /\ line' = [t \in Targets |-> {}]
    /\ outcome' = [r \in Requests |-> "unset"]
    /\ UNCHANGED <<history, prepRow, presses, withdrawn, environment>>

-----------------------------------------------------------------------------
External(p) ==
    \/ \E op \in {"prepare", "async"} : PrepareAgain(op, p) \/ PrepareExternal(op, p)
    \/ PrepareRaised(p) \/ PrepareMark(p) \/ PrepareRemember(p)
    \/ AsyncReserve(p) \/ ExecuteExternal(p) \/ WorkerBegin(p) \/ ExternalConclude(p)

Next ==
    \/ \E p \in Externals : External(p)
    \/ DiscardExternal
    \/ \E j \in Jobs : Submit(j) \/ Approve(j) \/ ClaimNext(j) \/ RunJob(j) \/ CancelCall(j)
    \/ JobBegin
    \/ \E r \in Requests : Terminal(r)
    \/ ForceStop \/ ForceDiscard
    \/ \E c \in Cancellers : Cancelling(c)
    \/ Snapshot
    \/ \E t \in Targets : ShellEnds(t) \/ ShellForced(t) \/ ShellLost(t)
    \/ \E t \in Targets, who \in Recyclers : Recycle(t, who)
    \/ Restart

Spec == Init /\ [][Next]_vars

-----------------------------------------------------------------------------
(* Safety *)

Running(r) == \E t \in Targets : executing[t] = r

\* Whatever is repeated, prepared again after a restart, or recovered as an
\* orphan: the execution of a command presses Enter once at most.
EnterOnce == \A r \in Requests : presses[r] <= 1

\* A job whose cancel was answered "cancelled" while it was not the engine's
\* never presses Enter, although the engine may be preparing it meanwhile.
WithdrawnNeverRuns == \A j \in withdrawn : presses[j] = 0

\* While only prepared calls use the terminals, a command is reported FINISHED
\* if its own Enter delivered its own text and nothing else.
FinishedRan == \A p \in Externals : execRow[p] = "FINISHED" => entered[p] = {p}

\* While only one of the two paths is in use and nobody discards, cancels or
\* polls, Enter delivers the command it is pressed for and nothing else.
OnePath ==
    /\ environment.commands \subseteq Externals \/ environment.commands \subseteq Jobs
    /\ environment.events \subseteq {"restart", "raise"}

OnePathRunsItsText == OnePath => \A r \in Requests : entered[r] \in {NotEntered, {r}}

-----------------------------------------------------------------------------
(* Liveness.  Threads run: one that finds _external_prepare_lock free again   *)
(* and again gets it, the window keeps polling, a completion thread wakes.    *)
(* Clients are free to send what they like, and commands to run on.           *)

Fairness ==
    /\ \A r \in Requests : WF_vars(Terminal(r))
    /\ \A p \in Externals :
         /\ WF_vars(PrepareRaised(p) \/ PrepareMark(p) \/ PrepareRemember(p) \/ ExternalConclude(p))
         /\ SF_vars(AsyncReserve(p)) /\ SF_vars(WorkerBegin(p))
    /\ WF_vars(JobBegin) /\ \A j \in Jobs : WF_vars(RunJob(j))
    /\ \A c \in Cancellers : WF_vars(Cancelling(c))
    /\ SF_vars(ForceDiscard)
    /\ SF_vars(\E t \in Targets, who \in Recyclers : Recycle(t, who))
    /\ WF_vars(\E t \in Targets : ShellForced(t))
    /\ SF_vars(Snapshot)

FairSpec == Spec /\ Fairness

\* Every job the engine took is concluded, unless a command runs on.
JobsConclude ==
    \A j \in Jobs : job[j] \in {"PREPARING", "PREPARED", "RUNNING"}
                      ~> (job[j] \in ConcludedJob \/ Running(j))

\* So is every recorded execution, although its worker may wait for the lock
\* behind other calls, find its text gone, or be declared an orphan.  A command
\* that runs on keeps the lock, and with it every other command.
ExecutionsConclude ==
    \A p \in Externals : execRow[p] \in {"RESERVED", "EXECUTING"}
                           ~> (execRow[p] \in {"FINISHED", "FAILED"} \/ \E r \in Requests : Running(r))

\* What a failing prepare leaves taken, the polled recovery gives back, as long
\* as no prepared command is remembered.
AuthorityReturns ==
    "snapshot" \in environment.events =>
        (active # None ~> active = None \/ remembered # None \/ \E r \in Requests : Running(r))

-----------------------------------------------------------------------------
\* Enter is pressed once for an execution, and for its own text while one path
\* is in use.
EntersOnceItsText == TypeOK /\ EnterOnce /\ OnePathRunsItsText

\* Jobs and executions conclude and the authority comes back.
PathsConclude == JobsConclude /\ ExecutionsConclude /\ AuthorityReturns
=============================================================================
