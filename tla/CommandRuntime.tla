---------------------------- MODULE CommandRuntime ----------------------------
(***************************************************************************)
(* The v2 execution path of app_rewrite/runtime.py (BridgeRuntime) over    *)
(* the durable rows of app_rewrite/execution_ledger.py and the terminals   *)
(* of TerminalManager.  Threads:                                           *)
(*   - one API call of start_phase5b_local per request, then the worker    *)
(*     _run_phase5b_local it starts (program counter pc[r]);               *)
(*   - the threads that cancel: stop_phase5d_execution of an API call and  *)
(*     force_stop_active of the desktop window (program counter cancel[c]);*)
(*   - the desktop window polling snapshot(), which recovers terminals     *)
(*     without an owner (program counter snap);                            *)
(*   - the recycles the last two ask for, and the shells.                  *)
(* The ledger survives a restart of the process; nothing else does.        *)
(*                                                                         *)
(* The execution id is drawn once per row and rows are unique per request, *)
(* so both are the request here.  A repeated start of a request returns    *)
(* its row, or raises on different data, and changes nothing: no step.     *)
(***************************************************************************)
EXTENDS TerminalManager, TLC

CONSTANTS
    Environments    \* what may surround the runtime: sets of events

Events == {"stop_created", "stop_running", "force_stop", "snapshot", "session_loss", "restart"}

ASSUME EnvironmentAssumption == Environments \subseteq SUBSET Events
ASSUME CancellersAssumption == Cancellers = {"stop", "force_stop"}
ASSUME StopIsNoRequest == "stop" \notin Requests \cup {None}
ASSUME RecyclersAreKnown == Recyclers = Cancellers \cup {"snapshot"}

VARIABLES
    state,      \* ledger: request -> state of its row ("NONE": no row)
    target,     \* ledger: request -> terminal of its row
    lock,       \* thread holding _phase5b_lock across steps
    activeId,   \* _phase5b_active_execution_id
    pc,         \* request -> where its start call, then its worker, stands
    cancel,     \* canceller -> where it stands and the terminal it looked at
    snap,       \* where snapshot() stands
    stale,      \* the targets snapshot() read as taken or executing
    unstarted,  \* history: rows cancelled before Enter
    environment \* the events that can happen in this behaviour; it never changes

ledger  == <<state, target>>
runtime == <<lock, activeId, pc>>
callers == <<cancel, snap, stale>>
vars    == <<manager, ledger, runtime, callers, unstarted, environment>>

Live == {"CREATED", "RUNNING"}
Terminal == {"FINISHED", "FAILED", "CANCELLED", "INTERRUPTED"}

Allowed(from, to) ==
    \/ from = "CREATED" /\ to \in {"RUNNING", "FAILED", "CANCELLED", "INTERRUPTED"}
    \/ from = "RUNNING" /\ to \in Terminal

\* Faulty variant: writes whatever it is told.
Overwrite(r, to) == state' = [state EXCEPT ![r] = to]

\* ExecutionLedger.transition: an illegal one raises and writes nothing.
Transition(r, to) ==
    state' = IF Allowed(state[r], to) THEN [state EXCEPT ![r] = to] ELSE state

StartSteps  == {"admit", "claim", "type"}
WorkerSteps == {"preview", "admitted", "claimed", "entered", "release", "record", "exit"}
CancelSteps == {"idle", "look", "signal", "discard", "discard_created"}
SnapSteps   == {"idle", "owner", "interrupt", "forget", "recycle", "await"}

TypeOK ==
    /\ ManagerTypeOK
    /\ state \in [Requests -> {"NONE"} \cup Live \cup Terminal]
    /\ target \in [Requests -> Targets \cup {None}]
    /\ lock \in Requests \cup {"stop", None}
    /\ activeId \in Requests \cup {None}
    /\ pc \in [Requests -> {"idle", "done"} \cup StartSteps \cup WorkerSteps]
    /\ cancel \in [Cancellers -> [at : CancelSteps, on : Targets \cup Requests \cup {None}]]
    /\ snap \in SnapSteps
    /\ stale \subseteq Targets
    /\ unstarted \subseteq Requests
    /\ environment \in Environments

Idle == [at |-> "idle", on |-> None]

Init ==
    /\ ManagerInit
    /\ state = [r \in Requests |-> "NONE"]
    /\ target = [r \in Requests |-> None]
    /\ lock = None
    /\ activeId = None
    /\ pc = [r \in Requests |-> "idle"]
    /\ cancel = [c \in Cancellers |-> Idle]
    /\ snap = "idle"
    /\ stale = {}
    /\ unstarted = {}
    /\ environment \in Environments

Goto(r, step) == pc' = [pc EXCEPT ![r] = step]

-----------------------------------------------------------------------------
(* start_phase5b_local: holds _phase5b_lock from the first step to the last *)

\* Faulty variant: a repeated request is prepared again.
StartAgain(r, t) ==
    /\ lock = None
    /\ pc[r] \in {"idle", "done"}
    /\ ~Busy
    /\ lock' = r
    /\ state' = [state EXCEPT ![r] = "CREATED"]
    /\ target' = [target EXCEPT ![r] = t]
    /\ Goto(r, "admit")
    /\ UNCHANGED <<manager, activeId, callers, unstarted, environment>>

Start(r, t) ==
    /\ lock = None
    /\ state[r] = "NONE"
    /\ ~Busy
    /\ lock' = r
    /\ state' = [state EXCEPT ![r] = "CREATED"]
    /\ target' = [target EXCEPT ![r] = t]
    /\ Goto(r, "admit")
    /\ UNCHANGED <<manager, activeId, callers, unstarted, environment>>

\* Faulty variant: the row is forgotten.
StartFailsSilently(r) ==
    /\ Goto(r, "done")
    /\ lock' = None
    /\ UNCHANGED <<ledger, activeId, callers, unstarted, environment>>

\* prepare() raised: the row fails, the lock is released, no worker starts.
StartFails(r) ==
    /\ Transition(r, "FAILED")
    /\ Goto(r, "done")
    /\ lock' = None
    /\ UNCHANGED <<target, activeId, callers, unstarted, environment>>

StartAdmit(r) ==
    /\ pc[r] = "admit"
    /\ IF target[r] \in recovering
         THEN StartFails(r) /\ UNCHANGED manager
         ELSE /\ Goto(r, "claim")
              /\ UNCHANGED <<manager, ledger, lock, activeId, callers, unstarted, environment>>

StartClaim(r) ==
    /\ pc[r] = "claim"
    /\ ClaimAuthority(target[r])
    /\ Goto(r, "type")
    /\ UNCHANGED <<ledger, lock, activeId, callers, unstarted, environment>>

\* Someone took the authority meanwhile, or the session cannot be started.
StartClaimRefused(r) ==
    /\ pc[r] = "claim"
    /\ \/ Busy /\ EnsureSession(target[r])
       \/ target[r] \notin online /\ UNCHANGED sessions
    /\ StartFails(r)
    /\ UNCHANGED <<authority, history, recovery>>

\* The text stands on the prompt; the worker thread starts its preview pause.
StartType(r) ==
    /\ pc[r] = "type"
    /\ TypeCommand(r, target[r])
    /\ Goto(r, "preview")
    /\ lock' = None
    /\ UNCHANGED <<ledger, activeId, callers, unstarted, environment>>

StartTypeRaises(r) ==
    /\ pc[r] = "type"
    /\ TypeCommandRaises(r, target[r])
    /\ StartFails(r)

\* A command of several lines is refused by a terminal that takes one line.
StartTypeRefused(r) ==
    /\ pc[r] = "type"
    /\ target[r] \notin ClearingTargets
    /\ DiscardPrepared
    /\ StartFails(r)

-----------------------------------------------------------------------------
(* _run_phase5b_local *)

WorkerBegin(r) ==
    /\ pc[r] = "preview"
    /\ lock = None
    /\ IF state[r] = "CREATED"
         THEN /\ Transition(r, "RUNNING")
              /\ activeId' = r
              /\ Goto(r, "admitted")
         ELSE /\ Goto(r, "exit")
              /\ UNCHANGED <<state, activeId>>
    /\ UNCHANGED <<manager, target, lock, callers, unstarted, environment>>

\* execute_prepared() raised before its try block.
WorkerRefused(r) ==
    /\ Report(r, "refused")
    /\ Goto(r, "record")

WorkerAdmit(r) ==
    /\ pc[r] = "admitted"
    /\ IF target[r] \in recovering
         THEN /\ WorkerRefused(r)
              /\ UNCHANGED <<online, execution, executor, line>>
         ELSE /\ Goto(r, "claimed")
              /\ UNCHANGED sessions
    /\ UNCHANGED <<authority, history, recovery, ledger, lock, activeId, callers, unstarted, environment>>

WorkerClaim(r) ==
    /\ pc[r] = "claimed"
    /\ \/ /\ ClaimExecution(target[r])
          /\ Goto(r, "entered")
       \/ /\ prepared # target[r] \/ target[r] \notin online
          /\ WorkerRefused(r)
          /\ UNCHANGED <<authority, online, execution, executor, line,
                         history, recovery>>
    /\ UNCHANGED <<ledger, lock, activeId, callers, unstarted, environment>>

WorkerEnter(r) ==
    /\ pc[r] = "entered"
    /\ executor[target[r]] # r
    /\ \/ PressEnter(r, target[r]) /\ UNCHANGED pc
       \/ EnterRefused(r, target[r]) /\ Goto(r, "release")
    /\ UNCHANGED <<ledger, lock, activeId, callers, unstarted, environment>>

WorkerLeaveSession(r) ==
    /\ pc[r] = "entered"
    /\ LeaveSession(r, target[r])
    /\ Goto(r, "release")
    /\ UNCHANGED <<ledger, lock, activeId, callers, unstarted, environment>>

WorkerRelease(r) ==
    /\ pc[r] = "release"
    /\ ReleaseAuthority
    /\ Goto(r, "record")
    /\ UNCHANGED <<ledger, lock, activeId, callers, unstarted, environment>>

\* If the row is already INTERRUPTED the transition raises: the thread goes on
\* to its finally with the row as it was.
Verdict(r) == CASE outcome[r] = "ok"        -> "FINISHED"
                [] outcome[r] = "cancelled" -> "CANCELLED"
                [] OTHER                    -> "FAILED"

WorkerRecord(r) ==
    /\ pc[r] = "record"
    /\ Transition(r, Verdict(r))
    /\ Report(r, "unset")     \* a local of the thread, not read again
    /\ Goto(r, "exit")
    /\ UNCHANGED <<authority, online, execution, executor, line, history,
                   recovery, target, lock, activeId, callers, unstarted, environment>>

WorkerExit(r) ==
    /\ pc[r] = "exit"
    /\ lock = None
    /\ activeId' = IF activeId = r THEN None ELSE activeId
    /\ Goto(r, "done")
    /\ UNCHANGED <<manager, ledger, lock, callers, unstarted, environment>>

-----------------------------------------------------------------------------
(* stop_phase5d_execution, holding _phase5b_lock throughout *)

CancelAt(c, step, t) == cancel' = [cancel EXCEPT ![c] = [at |-> step, on |-> t]]

StopCreated(r) ==
    /\ "stop_created" \in environment
    /\ cancel["stop"].at = "idle" /\ lock = None
    /\ state[r] = "CREATED"
    /\ pc[r] \in WorkerSteps
    /\ prepared = target[r]
    /\ lock' = "stop"
    /\ CancelAt("stop", "discard_created", r)
    /\ UNCHANGED <<manager, ledger, activeId, pc, snap, stale, unstarted, environment>>

StopDiscards ==
    LET r == cancel["stop"].on IN
    /\ cancel["stop"].at = "discard_created"
    /\ DiscardPrepared
    /\ IF prepared # None
         THEN /\ Transition(r, "CANCELLED")
              /\ unstarted' = IF state[r] = "CREATED" THEN unstarted \cup {r} ELSE unstarted
         ELSE UNCHANGED <<state, unstarted>>
    /\ cancel' = [cancel EXCEPT !["stop"] = Idle]
    /\ lock' = None
    /\ UNCHANGED <<target, activeId, pc, snap, stale, environment>>

StopRunning(r) ==
    /\ "stop_running" \in environment
    /\ cancel["stop"].at = "idle" /\ lock = None
    /\ state[r] = "RUNNING"
    /\ activeId = r
    /\ lock' = "stop"
    /\ CancelAt("stop", "look", None)
    /\ UNCHANGED <<manager, ledger, activeId, pc, snap, stale, unstarted, environment>>

\* force_stop_active: the window's stop button takes no lock and names no
\* execution.
ForceStop ==
    /\ "force_stop" \in environment
    /\ cancel["force_stop"].at = "idle"
    /\ active # None \/ \E t \in Targets : executing[t] # None
    /\ CancelAt("force_stop", "look", None)
    /\ UNCHANGED <<manager, ledger, runtime, snap, stale, unstarted, environment>>

-----------------------------------------------------------------------------
(* TerminalManager.cancel_active, run by the thread c *)

CancelDone(c) ==
    /\ cancel' = [cancel EXCEPT ![c] = Idle]
    /\ lock' = IF c = "stop" THEN None ELSE lock

CancelLook(c) ==
    /\ cancel[c].at = "look"
    /\ IF active # None /\ executing[active] # None
         THEN /\ MarkRecovering(active)
              /\ CancelAt(c, "signal", active)
              /\ UNCHANGED lock
         ELSE /\ UNCHANGED manager
              /\ IF prepared # None THEN CancelAt(c, "discard", None) /\ UNCHANGED lock
                                    ELSE CancelDone(c)
    /\ UNCHANGED <<ledger, activeId, pc, snap, stale, unstarted, environment>>

CancelSignal(c) ==
    /\ cancel[c].at = "signal"
    /\ \/ SignalCancel(c, cancel[c].on)
       \/ SignalCancelFails(cancel[c].on)
    /\ CancelDone(c)
    /\ UNCHANGED <<ledger, activeId, pc, snap, stale, unstarted, environment>>

CancelDiscard(c) ==
    /\ cancel[c].at = "discard"
    /\ DiscardPrepared
    /\ CancelDone(c)
    /\ UNCHANGED <<ledger, activeId, pc, snap, stale, unstarted, environment>>

-----------------------------------------------------------------------------
(* snapshot() and _recover_orphaned_terminal_state *)

\* Faulty variant: looks at what executes, not at what is taken.
SnapshotReadExecuting ==
    /\ "snapshot" \in environment
    /\ snap = "idle"
    /\ stale' = {t \in Targets : executing[t] # None}
    /\ snap' = "owner"
    /\ UNCHANGED <<manager, ledger, runtime, cancel, unstarted, environment>>

SnapshotRead ==
    /\ "snapshot" \in environment
    /\ snap = "idle"
    /\ stale' = {t \in Targets : executing[t] # None} \cup ({active, prepared} \ {None})
    /\ snap' = "owner"
    /\ UNCHANGED <<manager, ledger, runtime, cancel, unstarted, environment>>

HasOwner ==
    \/ \E r \in Requests : pc[r] \in WorkerSteps
    \/ activeId # None /\ state[activeId] \in Live

\* Without an owner and without anything taken, sessions that are down are
\* recycled, unless the manager became busy.
SnapshotOwner ==
    /\ snap = "owner"
    /\ lock = None
    /\ IF HasOwner
         THEN snap' = "idle" /\ UNCHANGED manager
         ELSE IF stale # {}
         THEN snap' = "interrupt" /\ UNCHANGED manager
         ELSE /\ snap' = "await"
              /\ pending' = IF Busy \/ recovering # {} THEN pending
                            ELSE pending \cup ((Targets \ online) \X {"snapshot"})
              /\ UNCHANGED <<authority, sessions, history, recovering, recycler>>
    /\ stale' = IF HasOwner THEN {} ELSE stale
    /\ UNCHANGED <<ledger, runtime, cancel, unstarted, environment>>

\* Faulty variant: forgets the rows whose worker has not begun.
InterruptRunning ==
    state' = [r \in Requests |-> IF state[r] = "RUNNING" THEN "INTERRUPTED" ELSE state[r]]

InterruptLive ==
    state' = [r \in Requests |-> IF state[r] \in Live THEN "INTERRUPTED" ELSE state[r]]

SnapshotInterrupt ==
    /\ snap = "interrupt"
    /\ InterruptLive
    /\ snap' = "forget"
    /\ UNCHANGED <<manager, target, runtime, cancel, stale, unstarted, environment>>

SnapshotForget ==
    /\ snap = "forget"
    /\ lock = None
    /\ activeId' = None
    /\ snap' = "recycle"
    /\ UNCHANGED <<manager, ledger, lock, pc, cancel, stale, unstarted, environment>>

SnapshotRecycle ==
    /\ snap = "recycle"
    /\ pending' = pending \cup (stale \X {"snapshot"})
    /\ snap' = "await"
    /\ UNCHANGED <<authority, sessions, history, recovering, recycler, ledger, runtime,
                   cancel, stale, unstarted, environment>>

\* The recycles of local terminals are synchronous.
SnapshotAwait ==
    /\ snap = "await"
    /\ \A t \in Targets : <<t, "snapshot">> \notin pending /\ recycler # <<t, "snapshot">>
    /\ snap' = "idle"
    /\ stale' = {}
    /\ UNCHANGED <<manager, ledger, runtime, cancel, unstarted, environment>>

-----------------------------------------------------------------------------
Recycle(t, who) ==
    /\ \/ RecycleBegin(t, who)
       \/ RecycleClose(t, who)
       \/ RecycleFinish(t, who)
    /\ UNCHANGED <<ledger, runtime, callers, unstarted, environment>>

ShellEnds(t) ==
    /\ CommandEnds(t)
    /\ UNCHANGED <<ledger, runtime, callers, unstarted, environment>>

ShellForced(t) ==
    /\ ForceCompletion(t)
    /\ UNCHANGED <<ledger, runtime, callers, unstarted, environment>>

ShellLost(t) ==
    /\ "session_loss" \in environment
    /\ SessionDies(t)
    /\ UNCHANGED <<ledger, runtime, callers, unstarted, environment>>

\* The process dies and start() runs again under a new instance id: memory
\* and sessions are new, unfinished rows of the old instance are INTERRUPTED.
Restart ==
    /\ "restart" \in environment
    /\ InterruptLive
    /\ active' = None /\ prepared' = None
    /\ recovering' = {} /\ pending' = {} /\ recycler' = None
    /\ online' = Targets
    /\ executing' = [t \in Targets |-> None]
    /\ cancelling' = {} /\ completing' = {}
    /\ executor' = [t \in Targets |-> None]
    /\ line' = [t \in Targets |-> {}]
    /\ outcome' = [r \in Requests |-> "unset"]
    /\ lock' = None
    /\ activeId' = None
    /\ pc' = [r \in Requests |-> "idle"]
    /\ cancel' = [c \in Cancellers |-> Idle]
    /\ snap' = "idle" /\ stale' = {}
    /\ UNCHANGED <<history, target, unstarted, environment>>

-----------------------------------------------------------------------------
StartCall(r) ==
    \/ StartAdmit(r)
    \/ StartClaim(r)
    \/ StartClaimRefused(r)
    \/ StartType(r)
    \/ StartTypeRaises(r)
    \/ StartTypeRefused(r)

Worker(r) ==
    \/ WorkerBegin(r)
    \/ WorkerAdmit(r)
    \/ WorkerClaim(r)
    \/ WorkerEnter(r)
    \/ WorkerLeaveSession(r)
    \/ WorkerRelease(r)
    \/ WorkerRecord(r)
    \/ WorkerExit(r)

CancelActive(c) == CancelLook(c) \/ CancelSignal(c) \/ CancelDiscard(c)

Snapshot ==
    \/ SnapshotRead
    \/ SnapshotOwner
    \/ SnapshotInterrupt
    \/ SnapshotForget
    \/ SnapshotRecycle
    \/ SnapshotAwait

Next ==
    \/ \E r \in Requests, t \in Targets : Start(r, t)
    \/ \E r \in Requests : StartCall(r) \/ Worker(r) \/ StopCreated(r) \/ StopRunning(r)
    \/ StopDiscards
    \/ ForceStop
    \/ \E c \in Cancellers : CancelActive(c)
    \/ Snapshot
    \/ \E t \in Targets, who \in Recyclers : Recycle(t, who)
    \/ \E t \in Targets : ShellEnds(t) \/ ShellForced(t) \/ ShellLost(t)
    \/ Restart

Spec == Init /\ [][Next]_vars

\* Threads run: a worker that finds _phase5b_lock free again and again gets it,
\* the window's timer keeps calling snapshot(), and a completion thread wakes.
\* Nothing is assumed of the commands: one that was not cancelled may run on.
Fairness ==
    /\ WF_vars(\E r \in Requests : StartCall(r))
    /\ \A r \in Requests : SF_vars(Worker(r))
    /\ WF_vars(StopDiscards \/ \E c \in Cancellers : CancelActive(c))
    /\ SF_vars(\E t \in Targets, who \in Recyclers : Recycle(t, who))
    /\ WF_vars(\E t \in Targets : ShellForced(t))
    /\ SF_vars(Snapshot)

FairSpec == Spec /\ Fairness

-----------------------------------------------------------------------------
(* Properties that hold whatever surrounds the runtime. *)

\* A command whose request is repeated, or whose runtime restarts, is never
\* given to a shell twice: start_phase5b_local returns the row it finds, and
\* no other path types a command.
AtMostOnce == \A r \in Requests : typedAndRun[r] <= 1

\* No row waits for a thread that is gone: a CREATED row has its start call or
\* a worker in its preview pause, a RUNNING row has the worker that will record
\* how it ended.  Restart, stop, recovery and a failing prepare() keep it so.
RowMatchesThread ==
    \A r \in Requests :
        /\ state[r] = "CREATED" => pc[r] \in StartSteps \cup {"preview"}
        /\ state[r] = "RUNNING" => pc[r] \in WorkerSteps \ {"preview", "exit"}

\* A concluded row keeps its state and its terminal, although the worker, stop,
\* the recovery of orphans and a restart all write to it.
ConcludedRowsAreFinal ==
    [][\A r \in Requests :
          state[r] \in Terminal => state'[r] = state[r] /\ target'[r] = target[r]]_vars

\* The runtime implements the promise of CommandService.
Status(r) == CASE state[r] = "NONE"    -> "absent"
               [] state[r] = "CREATED" -> "accepted"
               [] state[r] = "RUNNING" -> "running"
               [] OTHER                -> "ended"

Service == INSTANCE CommandService
             WITH status <- [r \in Requests |-> Status(r)], delivered <- typedAndRun

ImplementsService == Service!Spec

-----------------------------------------------------------------------------
(* Properties of quieter surroundings.  Each holds for the environments it    *)
(* names and fails in any larger one; the README says how.                  *)

Running(r) == \E t \in Targets : executing[t] = r

\* Nobody but the worker presses Enter, cancels or recycles.
Quiet == environment \subseteq {"stop_created", "restart"}

\* Nobody cancels what runs, and nobody recovers what looks abandoned: the window
\* acts on what it read before it looked for an owner.
Undisputed == environment \cap {"stop_running", "force_stop", "snapshot"} = {}

\* The terminals are not polled for orphans.
Unpolled == "snapshot" \notin environment

\* In quiet surroundings Enter delivers the command it is pressed for and
\* nothing else: no text of another command stands on the prompt and its own
\* text is still there.
EnterRunsOwnText == Quiet => \A r \in Requests : entered[r] \in {NotEntered, {r}}

\* A command reported FINISHED was given to the shell by its own Enter.
FinishedRan == \A r \in Requests : state[r] = "FINISHED" => r \in entered[r]

\* "outro comando ja possui autoridade sobre os terminais": two terminals never
\* execute at the same time.
AuthorityIsExclusive == \A r, q \in Requests : Running(r) /\ Running(q) => r = q

\* The authority that prepare() hands out is exclusive while nobody disputes it.
OneCommandAtATime == Undisputed => AuthorityIsExclusive

\* A command that stop cancelled "before Enter" never reaches a shell, neither
\* by its own worker nor as left-over text under the next command's Enter.
CancelledBeforeEnterNeverRuns == Undisputed => \A r \in unstarted : typedAndRun[r] = 0

\* When a row is concluded its command no longer runs on any terminal.
ConcludedIsNotRunning ==
    Unpolled => \A r \in Requests : state[r] \in Terminal => ~Running(r)

\* So one command runs at a time, and none of a row that is concluded.
TerminalIsExclusive == OneCommandAtATime /\ ConcludedIsNotRunning

-----------------------------------------------------------------------------
(* Liveness under FairSpec. *)

\* The authority over the terminals is given back unless a command is running:
\* what a failing prepare() leaves taken, the polled recovery frees.
AuthorityIsReleased == active # None ~> (active = None \/ \E r \in Requests : Running(r))

\* Every row concludes unless its command runs on.
EveryRowConcludes ==
    \A r \in Requests : state[r] \in Live ~> (state[r] \in Terminal \/ Running(r))

\* A cancel that was accepted ends the command, even one that ignores Ctrl+C
\* and even after an earlier Ctrl+C could not be sent.
AcceptedCancelEndsCommand ==
    \A r \in Requests, t \in Targets :
        executing[t] = r /\ (\E c \in Cancellers : <<t, c>> \in pending) ~> executing[t] # r

\* Under fairness authority comes back and rows conclude, whatever fails.
CommandsConclude == AuthorityIsReleased /\ EveryRowConcludes

\* Any two requests may be exchanged.
RequestSymmetry == Permutations(Requests)
=============================================================================
