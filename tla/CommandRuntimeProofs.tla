-------------------------- MODULE CommandRuntimeProofs --------------------------
(* What holds of CommandRuntime for any terminals and any number of commands. *)
EXTENDS CommandRuntime, TLAPS

-----------------------------------------------------------------------------
(* What the operations of TerminalManager preserve, whatever thread calls them. *)

\* Giving, using and taking back the authority over the terminals keeps types.
LEMMA AuthorityTypes ==
    ASSUME ManagerTypeOK, NEW r \in Requests, NEW t \in Targets,
           \/ ClaimAuthority(t) \/ TypeCommand(r, t) \/ TypeCommandRaises(r, t)
           \/ ClaimExecution(t) \/ ReleaseAuthority
    PROVE  ManagerTypeOK'
<1> USE DEF ManagerTypeOK, authority, execution, sessions, history, recovery
<1>1. CASE ClaimAuthority(t)
  BY <1>1 DEF ClaimAuthority, EnsureSession
<1>2. CASE TypeCommand(r, t)
  BY <1>2 DEF TypeCommand
<1>3. CASE TypeCommandRaises(r, t)
  BY <1>3 DEF TypeCommandRaises
<1>4. CASE ClaimExecution(t)
  BY <1>4 DEF ClaimExecution, EnsureSession
<1>5. CASE ReleaseAuthority
  BY <1>5 DEF ReleaseAuthority
<1> QED
  BY <1>1, <1>2, <1>3, <1>4, <1>5

\* Pressing Enter and what follows it keep the types of the manager.
LEMMA SessionTypes ==
    ASSUME ManagerTypeOK, NEW r \in Requests, NEW t \in Targets,
           PressEnter(r, t) \/ EnterRefused(r, t) \/ LeaveSession(r, t)
    PROVE  ManagerTypeOK'
<1> USE DEF ManagerTypeOK, authority, execution, sessions, history, recovery,
            Report, DropExecution, Outcomes
<1>1. CASE PressEnter(r, t)
  BY <1>1 DEF PressEnter
<1>2. CASE EnterRefused(r, t)
  BY <1>2 DEF EnterRefused
<1>3. CASE LeaveSession(r, t)
  BY <1>3 DEF LeaveSession
<1> QED
  BY <1>1, <1>2, <1>3

\* What happens to a shell keeps the types of the manager.
LEMMA ShellTypes ==
    ASSUME ManagerTypeOK, NEW t \in Targets,
           CommandEnds(t) \/ ForceCompletion(t) \/ SessionDies(t)
    PROVE  ManagerTypeOK'
<1> USE DEF ManagerTypeOK, authority, execution, sessions, history, recovery,
            Report, DropExecution, Outcomes
<1>1. CASE CommandEnds(t)
  BY <1>1 DEF CommandEnds
<1>2. CASE ForceCompletion(t)
  BY <1>2 DEF ForceCompletion
<1>3. CASE SessionDies(t)
  BY <1>3 DEF SessionDies
<1> QED
  BY <1>1, <1>2, <1>3

\* Erasing what is prepared keeps them too.
LEMMA DiscardTypes == ManagerTypeOK /\ DiscardPrepared => ManagerTypeOK'
  BY DEF ManagerTypeOK, DiscardPrepared, execution, history, recovery

\* Cancelling and recycling a terminal keep the types of the manager.
LEMMA RecoveryTypes ==
    ASSUME ManagerTypeOK, NEW t \in Targets, NEW who \in Recyclers, NEW c \in Cancellers,
           \/ MarkRecovering(t) \/ SignalCancel(c, t) \/ SignalCancelFails(t)
           \/ RecycleBegin(t, who) \/ RecycleClose(t, who) \/ RecycleFinish(t, who)
    PROVE  ManagerTypeOK'
<1> USE RecyclersAssumption
    DEF ManagerTypeOK, authority, execution, sessions, history, recovery,
        Report, DropExecution, Outcomes
<1>1. CASE MarkRecovering(t)
  BY <1>1 DEF MarkRecovering
<1>2. CASE SignalCancel(c, t)
  BY <1>2 DEF SignalCancel
<1>3. CASE SignalCancelFails(t)
  BY <1>3 DEF SignalCancelFails
<1>4. CASE RecycleBegin(t, who)
  BY <1>4 DEF RecycleBegin
<1>5. CASE RecycleClose(t, who)
  BY <1>5 DEF RecycleClose
<1>6. CASE RecycleFinish(t, who)
  BY <1>6 DEF RecycleFinish, EnsureSession
<1> QED
  BY <1>1, <1>2, <1>3, <1>4, <1>5, <1>6

\* Steps that do not touch the manager keep its types.
LEMMA ManagerUnchangedTypes == ManagerTypeOK /\ UNCHANGED manager => ManagerTypeOK'
  BY DEF ManagerTypeOK, manager, authority, sessions, execution, history, recovery

-----------------------------------------------------------------------------
(* Type correctness of the threads.                                           *)

\* Threads that stand on a terminal know which.
Placed ==
    /\ \A r \in Requests : pc[r] \in StartSteps \cup WorkerSteps => target[r] \in Targets
    /\ \A c \in Cancellers : cancel[c].at = "signal" => cancel[c].on \in Targets
    /\ cancel["stop"].at = "discard_created" => cancel["stop"].on \in Requests

Typed == TypeOK /\ Placed

\* The runtime starts well typed.
LEMMA InitTyped == Init => Typed
  BY EnvironmentAssumption, CancellersAssumption, NoneAssumption
  DEF Init, Typed, TypeOK, Placed, ManagerInit, ManagerTypeOK, Outcomes, NotEntered, Idle,
      CancelSteps, SnapSteps, Live, Terminal, StartSteps, WorkerSteps

\* start_phase5b_local keeps types, whatever prepare answers.
LEMMA StartTyped ==
    ASSUME Typed, NEW r \in Requests, NEW t \in Targets, Start(r, t) \/ StartCall(r)
    PROVE  Typed'
<1> USE DEF Typed, TypeOK, Placed, Goto, Live, Terminal, StartSteps, WorkerSteps, ledger, runtime, callers
<1>1. CASE Start(r, t)
  BY <1>1, ManagerUnchangedTypes DEF Start
<1>2. CASE StartAdmit(r)
  BY <1>2, ManagerUnchangedTypes DEF StartAdmit, StartFails, Transition, Allowed
<1>3. CASE StartClaim(r)
  BY <1>3, AuthorityTypes DEF StartClaim
<1>4. CASE StartClaimRefused(r)
  <2>1. ManagerTypeOK'
    BY <1>4 DEF StartClaimRefused, EnsureSession, ManagerTypeOK, authority, sessions,
                execution, history, recovery
  <2> QED
    BY <1>4, <2>1 DEF StartClaimRefused, StartFails, Transition, Allowed
<1>5. CASE StartType(r)
  BY <1>5, AuthorityTypes DEF StartType
<1>6. CASE StartTypeRaises(r)
  BY <1>6, AuthorityTypes DEF StartTypeRaises, StartFails, Transition, Allowed
<1>7. CASE StartTypeRefused(r)
  BY <1>7, DiscardTypes DEF StartTypeRefused, StartFails, Transition, Allowed
<1> QED
  BY <1>1, <1>2, <1>3, <1>4, <1>5, <1>6, <1>7 DEF StartCall

\* The thread of a command keeps types; its verdict is a state of the ledger.
LEMMA WorkerTyped ==
    ASSUME Typed, NEW r \in Requests, Worker(r)
    PROVE  Typed'
<1> USE DEF Typed, TypeOK, Placed, Goto, Live, Terminal, StartSteps, WorkerSteps, ledger, runtime, callers
<1>1. CASE WorkerBegin(r)
  BY <1>1, ManagerUnchangedTypes DEF WorkerBegin, Transition, Allowed
<1>2. CASE WorkerAdmit(r)
  <2>1. ManagerTypeOK'
    BY <1>2 DEF WorkerAdmit, WorkerRefused, Report, Outcomes, ManagerTypeOK, authority,
                sessions, execution, history, recovery
  <2> QED
    BY <1>2, <2>1 DEF WorkerAdmit, WorkerRefused
<1>3. CASE WorkerClaim(r)
  <2>1. ManagerTypeOK'
    BY <1>3 DEF WorkerClaim, WorkerRefused, ClaimExecution, EnsureSession, Report, Outcomes,
                ManagerTypeOK, authority, sessions, execution, history, recovery
  <2> QED
    BY <1>3, <2>1 DEF WorkerClaim, WorkerRefused
<1>4. CASE WorkerEnter(r)
  BY <1>4, SessionTypes DEF WorkerEnter
<1>5. CASE WorkerLeaveSession(r)
  BY <1>5, SessionTypes DEF WorkerLeaveSession
<1>6. CASE WorkerRelease(r)
  BY <1>6, AuthorityTypes DEF WorkerRelease
<1>7. CASE WorkerRecord(r)
  <2>1. ManagerTypeOK'
    BY <1>7 DEF WorkerRecord, Report, Outcomes, ManagerTypeOK, authority, execution,
                history, recovery
  <2> QED
    BY <1>7, <2>1 DEF WorkerRecord, Transition, Allowed, Verdict
<1>8. CASE WorkerExit(r)
  BY <1>8, ManagerUnchangedTypes DEF WorkerExit
<1> QED
  BY <1>1, <1>2, <1>3, <1>4, <1>5, <1>6, <1>7, <1>8 DEF Worker

\* Stop requests keep types.
LEMMA CancelTyped ==
    ASSUME Typed,
           \/ \E r \in Requests : StopCreated(r) \/ StopRunning(r)
           \/ StopDiscards
           \/ ForceStop
           \/ \E c \in Cancellers : CancelActive(c)
    PROVE  Typed'
<1> USE CancellersAssumption, NoneAssumption
    DEF Typed, TypeOK, Placed, Live, Terminal, StartSteps, WorkerSteps, CancelSteps, Idle,
        CancelAt, CancelDone, ledger, runtime, callers
<1>1. ASSUME NEW r \in Requests, StopCreated(r) PROVE Typed'
  BY <1>1, ManagerUnchangedTypes DEF StopCreated
<1>2. ASSUME NEW r \in Requests, StopRunning(r) PROVE Typed'
  BY <1>2, ManagerUnchangedTypes DEF StopRunning
<1>3. CASE StopDiscards
  <2>1. ManagerTypeOK'
    BY <1>3 DEF StopDiscards, DiscardPrepared, ManagerTypeOK, execution, history, recovery
  <2>2. cancel["stop"].on \in Requests
    BY <1>3 DEF StopDiscards
  <2> QED
    BY <1>3, <2>1, <2>2 DEF StopDiscards, Transition, Allowed
<1>4. CASE ForceStop
  BY <1>4, ManagerUnchangedTypes DEF ForceStop
<1>5. ASSUME NEW c \in Cancellers, CancelLook(c) PROVE Typed'
  <2>1. CASE active # None /\ executing[active] # None
    <3>1. active \in Targets
      BY <2>1 DEF ManagerTypeOK
    <3>2. ManagerTypeOK'
      BY <1>5, <2>1, <3>1 DEF CancelLook, MarkRecovering, ManagerTypeOK, authority, sessions,
                              execution, history
    <3> QED
      BY <1>5, <2>1, <3>1, <3>2 DEF CancelLook
  <2>2. CASE ~(active # None /\ executing[active] # None)
    BY <1>5, <2>2, ManagerUnchangedTypes DEF CancelLook
  <2> QED
    BY <2>1, <2>2
<1>6. ASSUME NEW c \in Cancellers, CancelSignal(c) PROVE Typed'
  <2>1. cancel[c].on \in Targets
    BY <1>6 DEF CancelSignal
  <2>2. ManagerTypeOK'
    BY <1>6, <2>1, RecyclersAssumption
    DEF CancelSignal, SignalCancel, SignalCancelFails, ManagerTypeOK, authority, history
  <2> QED
    BY <1>6, <2>2 DEF CancelSignal
<1>7. ASSUME NEW c \in Cancellers, CancelDiscard(c) PROVE Typed'
  <2>1. ManagerTypeOK'
    BY <1>7 DEF CancelDiscard, DiscardPrepared, ManagerTypeOK, execution, history, recovery
  <2> QED
    BY <1>7, <2>1 DEF CancelDiscard
<1> QED
  BY <1>1, <1>2, <1>3, <1>4, <1>5, <1>6, <1>7 DEF CancelActive

\* A snapshot with its recovery of orphans keeps types.
LEMMA SnapshotTyped ==
    ASSUME Typed, Snapshot
    PROVE  Typed'
<1> USE DEF Typed, TypeOK, Placed, Live, Terminal, StartSteps, WorkerSteps, SnapSteps,
            ledger, runtime, callers
<1>1. CASE SnapshotRead
  BY <1>1, ManagerUnchangedTypes DEF SnapshotRead, ManagerTypeOK
<1>2. CASE SnapshotOwner
  <2>1. ManagerTypeOK'
    BY <1>2, RecyclersAreKnown
    DEF SnapshotOwner, ManagerTypeOK, manager, authority, sessions, execution, history, recovery
  <2> QED
    BY <1>2, <2>1 DEF SnapshotOwner
<1>3. CASE SnapshotInterrupt
  BY <1>3, ManagerUnchangedTypes DEF SnapshotInterrupt, InterruptLive
<1>4. CASE SnapshotForget
  BY <1>4, ManagerUnchangedTypes DEF SnapshotForget
<1>5. CASE SnapshotRecycle
  <2>1. ManagerTypeOK'
    BY <1>5, RecyclersAreKnown
    DEF SnapshotRecycle, ManagerTypeOK, authority, sessions, execution, history
  <2> QED
    BY <1>5, <2>1 DEF SnapshotRecycle
<1>6. CASE SnapshotAwait
  BY <1>6, ManagerUnchangedTypes DEF SnapshotAwait
<1> QED
  BY <1>1, <1>2, <1>3, <1>4, <1>5, <1>6 DEF Snapshot

\* Recycling threads, shells and a restart keep types.
LEMMA SurroundingsTyped ==
    ASSUME Typed,
           \/ \E t \in Targets, who \in Recyclers : Recycle(t, who)
           \/ \E t \in Targets : ShellEnds(t) \/ ShellForced(t) \/ ShellLost(t)
           \/ Restart
           \/ UNCHANGED vars
    PROVE  Typed'
<1> USE DEF Typed, TypeOK, Placed, Live, Terminal, StartSteps, WorkerSteps,
            ledger, runtime, callers
<1>1. ASSUME NEW t \in Targets, NEW who \in Recyclers, Recycle(t, who) PROVE Typed'
  BY <1>1, RecoveryTypes, CancellersAssumption DEF Recycle
<1>2. ASSUME NEW t \in Targets, ShellEnds(t) \/ ShellForced(t) \/ ShellLost(t)
      PROVE  Typed'
  BY <1>2, ShellTypes DEF ShellEnds, ShellForced, ShellLost
<1>3. CASE Restart
  BY <1>3, NoneAssumption, CancellersAssumption
  DEF Restart, InterruptLive, ManagerTypeOK, Outcomes, Idle, CancelSteps, SnapSteps, history
<1>4. CASE UNCHANGED vars
  BY <1>4, ManagerUnchangedTypes DEF vars
<1> QED
  BY <1>1, <1>2, <1>3, <1>4

\* Typed is inductive.
LEMMA TypedStep == Typed /\ [Next]_vars => Typed'
<1> SUFFICES ASSUME Typed, [Next]_vars PROVE Typed'
  OBVIOUS
<1>1. ASSUME NEW r \in Requests, NEW t \in Targets, Start(r, t) PROVE Typed'
  BY <1>1, StartTyped
<1>2. ASSUME NEW r \in Requests, StartCall(r) PROVE Typed'
  <2>1. CASE Targets = {}
    BY <1>2, <2>1 DEF Typed, Placed, StartCall, StartAdmit, StartClaim, StartClaimRefused,
                      StartType, StartTypeRaises, StartTypeRefused, StartSteps
  <2> QED
    BY <1>2, <2>1, StartTyped
<1>3. ASSUME NEW r \in Requests, Worker(r) PROVE Typed'
  BY <1>3, WorkerTyped
<1>4. CASE \/ \E r \in Requests : StopCreated(r) \/ StopRunning(r)
           \/ StopDiscards
           \/ ForceStop
           \/ \E c \in Cancellers : CancelActive(c)
  BY <1>4, CancelTyped
<1>5. CASE Snapshot
  BY <1>5, SnapshotTyped
<1>6. CASE \/ \E t \in Targets, who \in Recyclers : Recycle(t, who)
           \/ \E t \in Targets : ShellEnds(t) \/ ShellForced(t) \/ ShellLost(t)
           \/ Restart
           \/ UNCHANGED vars
  BY <1>6, SurroundingsTyped
<1> QED
  BY <1>1, <1>2, <1>3, <1>4, <1>5, <1>6 DEF Next

\* Every variable keeps the type its declaration gives it, and a thread that
\* stands on a terminal knows which.
THEOREM AlwaysTyped == Spec => []Typed
<1>1. Init => Typed
  BY InitTyped
<1>2. Typed /\ [Next]_vars => Typed'
  BY TypedStep
<1> QED
  BY <1>1, <1>2, PTL DEF Spec

\* The states of the rows, the threads and the terminals are those the code names
\* (execution_ledger.py, runtime.py, terminal_manager.py).
THEOREM TypeCorrect == Spec => []TypeOK
<1>1. Typed => TypeOK
  BY DEF Typed
<1> QED
  BY <1>1, AlwaysTyped, PTL

-----------------------------------------------------------------------------
(* Most steps leave the rows, the threads of the commands and the texts      *)
(* alone, except that a prompt may lose text.                                *)

LeavesRowsAlone ==
    /\ UNCHANGED <<state, target, pc, typedAndRun>>
    /\ \A t \in Targets : line'[t] \subseteq line[t]

\* A stop, but for the discard it may end in, touches no row.
LEMMA CancelLeavesRows ==
    ASSUME Typed,
           \/ \E r \in Requests : StopCreated(r) \/ StopRunning(r)
           \/ ForceStop
           \/ \E c \in Cancellers : CancelActive(c)
    PROVE  LeavesRowsAlone
<1> USE DEF LeavesRowsAlone, Typed, TypeOK, ManagerTypeOK, manager, sessions, history, ledger, runtime
<1>1. ASSUME NEW r \in Requests, StopCreated(r) \/ StopRunning(r) PROVE LeavesRowsAlone
  BY <1>1 DEF StopCreated, StopRunning
<1>2. CASE ForceStop
  BY <1>2 DEF ForceStop
<1>3. ASSUME NEW c \in Cancellers, CancelLook(c) PROVE LeavesRowsAlone
  BY <1>3 DEF CancelLook, MarkRecovering
<1>4. ASSUME NEW c \in Cancellers, CancelSignal(c) PROVE LeavesRowsAlone
  BY <1>4 DEF CancelSignal, SignalCancel, SignalCancelFails
<1>5. ASSUME NEW c \in Cancellers, CancelDiscard(c) PROVE LeavesRowsAlone
  BY <1>5 DEF CancelDiscard, DiscardPrepared
<1> QED
  BY <1>1, <1>2, <1>3, <1>4, <1>5 DEF CancelActive

\* A snapshot, but for the interruption of rows, and the shells touch no row.
LEMMA SurroundingsLeaveRows ==
    ASSUME Typed,
           \/ SnapshotRead \/ SnapshotOwner \/ SnapshotForget
           \/ SnapshotRecycle \/ SnapshotAwait
           \/ \E t \in Targets, who \in Recyclers : Recycle(t, who)
           \/ \E t \in Targets : ShellEnds(t) \/ ShellForced(t) \/ ShellLost(t)
           \/ UNCHANGED vars
    PROVE  LeavesRowsAlone
<1> USE DEF LeavesRowsAlone, Typed, TypeOK, ManagerTypeOK, manager, sessions, history, ledger, runtime
<1>1. CASE \/ SnapshotRead \/ SnapshotOwner \/ SnapshotForget
           \/ SnapshotRecycle \/ SnapshotAwait
  BY <1>1 DEF SnapshotRead, SnapshotOwner, SnapshotForget, SnapshotRecycle, SnapshotAwait
<1>2. ASSUME NEW t \in Targets, NEW who \in Recyclers, Recycle(t, who) PROVE LeavesRowsAlone
  BY <1>2 DEF Recycle, RecycleBegin, RecycleClose, RecycleFinish, EnsureSession
<1>3. ASSUME NEW t \in Targets, ShellEnds(t) \/ ShellForced(t) \/ ShellLost(t)
      PROVE  LeavesRowsAlone
  BY <1>3 DEF ShellEnds, ShellForced, ShellLost, CommandEnds, ForceCompletion, SessionDies
<1>4. CASE UNCHANGED vars
  BY <1>4 DEF vars
<1> QED
  BY <1>1, <1>2, <1>3, <1>4

-----------------------------------------------------------------------------
(* Rows and threads. *)

\* A row that is not concluded keeps the thread that will conclude it.
LEMMA RowsKeepThreads ==
    ASSUME Typed, RowMatchesThread, [Next]_vars
    PROVE  RowMatchesThread'
<1> USE DEF RowMatchesThread, StartSteps, WorkerSteps, Goto
<1>1. ASSUME LeavesRowsAlone PROVE RowMatchesThread'
  BY <1>1 DEF LeavesRowsAlone
<1>2. ASSUME NEW r \in Requests, NEW t \in Targets, Start(r, t)
      PROVE  RowMatchesThread'
  BY <1>2 DEF Start, Typed, TypeOK
<1>3. ASSUME NEW r \in Requests, StartCall(r)
      PROVE  RowMatchesThread'
  BY <1>3 DEF StartCall, StartAdmit, StartClaim, StartClaimRefused, StartType, StartTypeRaises,
              StartTypeRefused, StartFails, Transition, Allowed, Typed, TypeOK, ledger
<1>4. ASSUME NEW r \in Requests, Worker(r)
      PROVE  RowMatchesThread'
  <2> USE DEF Typed, TypeOK, ledger
  <2>1. CASE WorkerBegin(r)
    BY <1>4, <2>1 DEF WorkerBegin, Transition, Allowed
  <2>2. CASE WorkerAdmit(r) \/ WorkerClaim(r)
    BY <2>2 DEF WorkerAdmit, WorkerClaim, WorkerRefused
  <2>3. CASE WorkerEnter(r) \/ WorkerLeaveSession(r) \/ WorkerRelease(r)
    BY <2>3 DEF WorkerEnter, WorkerLeaveSession, WorkerRelease
  <2>4. CASE WorkerRecord(r)
    BY <2>4 DEF WorkerRecord, Transition, Allowed, Verdict, Terminal
  <2>5. CASE WorkerExit(r)
    BY <2>5 DEF WorkerExit
  <2> QED
    BY <1>4, <2>1, <2>2, <2>3, <2>4, <2>5 DEF Worker
<1>5. CASE StopDiscards
  BY <1>5 DEF StopDiscards, Transition, Typed, Placed, TypeOK
<1>6. CASE SnapshotInterrupt \/ Restart
  BY <1>6 DEF SnapshotInterrupt, Restart, InterruptLive, Live, runtime, Typed, TypeOK
<1> QED
  BY <1>1, <1>2, <1>3, <1>4, <1>5, <1>6, CancelLeavesRows, SurroundingsLeaveRows DEF Next, Snapshot

\* No row is left to a thread that is gone.
THEOREM RowsHaveThreads == Spec => []RowMatchesThread
<1>1. Init => RowMatchesThread
  BY DEF Init, RowMatchesThread
<1>2. RowMatchesThread /\ Typed /\ [Next]_vars => RowMatchesThread'
  BY RowsKeepThreads
<1> QED
  BY <1>1, <1>2, AlwaysTyped, PTL DEF Spec

-----------------------------------------------------------------------------
(* The text of a command stands on at most one prompt, that of its row, and  *)
(* only between being typed and being entered.                               *)

TextOnce ==
    \A r \in Requests :
        /\ typedAndRun[r] <= 1
        /\ \A t \in Targets : r \in line[t] => t = target[r] /\ typedAndRun[r] = 0
        /\ state[r] = "NONE" \/ pc[r] \in StartSteps =>
              typedAndRun[r] = 0 /\ \A t \in Targets : r \notin line[t]
        /\ pc[r] \in StartSteps => state[r] # "NONE"

\* A step that types nothing, enters nothing and accepts nothing.
TextKept ==
    /\ UNCHANGED <<target, typedAndRun>>
    /\ \A t \in Targets : line'[t] \subseteq line[t]
    /\ \A r \in Requests :
          /\ state'[r] = "NONE" <=> state[r] = "NONE"
          /\ pc'[r] \in StartSteps => pc[r] \in StartSteps

\* Steps that keep texts keep TextOnce.
LEMMA KeptTextOnce == TextOnce /\ TextKept => TextOnce'
  BY DEF TextOnce, TextKept

\* A start that types nothing keeps texts.
LEMMA StartKeepsText ==
    ASSUME Typed, NEW r \in Requests,
           StartAdmit(r) \/ StartClaim(r) \/ StartClaimRefused(r) \/ StartTypeRefused(r)
    PROVE  TextKept
  BY DEF TextKept, StartAdmit, StartClaim, StartClaimRefused, StartTypeRefused, StartFails,
         ClaimAuthority, EnsureSession, DiscardPrepared, Transition, Allowed, Goto, StartSteps,
         Typed, TypeOK, ManagerTypeOK, manager, sessions, history, ledger

\* The thread of a command, but for its Enter, keeps texts.
LEMMA WorkerKeepsText ==
    ASSUME Typed, NEW r \in Requests,
           \/ WorkerBegin(r) \/ WorkerAdmit(r) \/ WorkerClaim(r) \/ WorkerLeaveSession(r)
           \/ WorkerRelease(r) \/ WorkerRecord(r) \/ WorkerExit(r)
    PROVE  TextKept
<1> USE DEF TextKept, Goto, StartSteps, Typed, TypeOK, ManagerTypeOK, manager, sessions,
            history, ledger
<1>1. CASE WorkerBegin(r) \/ WorkerExit(r)
  BY <1>1 DEF WorkerBegin, WorkerExit, Transition, Allowed
<1>2. CASE WorkerAdmit(r) \/ WorkerClaim(r)
  BY <1>2 DEF WorkerAdmit, WorkerClaim, WorkerRefused, ClaimExecution, EnsureSession
<1>3. CASE WorkerLeaveSession(r) \/ WorkerRelease(r)
  BY <1>3 DEF WorkerLeaveSession, LeaveSession, WorkerRelease, ReleaseAuthority
<1>4. CASE WorkerRecord(r)
  BY <1>4 DEF WorkerRecord, Transition, Allowed, Verdict
<1> QED
  BY <1>1, <1>2, <1>3, <1>4

\* Discards, interruptions and restarts keep texts.
LEMMA OthersKeepText ==
    ASSUME Typed, LeavesRowsAlone \/ StopDiscards \/ SnapshotInterrupt \/ Restart
    PROVE  TextKept
<1> USE DEF TextKept, Typed, TypeOK, ManagerTypeOK, manager, sessions, history, ledger, runtime
<1>1. CASE LeavesRowsAlone
  BY <1>1 DEF LeavesRowsAlone
<1>2. CASE StopDiscards
  BY <1>2 DEF StopDiscards, DiscardPrepared, Transition, Allowed, Placed
<1>3. CASE SnapshotInterrupt \/ Restart
  BY <1>3 DEF SnapshotInterrupt, Restart, InterruptLive, Live, StartSteps
<1> QED
  BY <1>1, <1>2, <1>3

\* TextOnce is inductive, given the types.
LEMMA TextOnceStep ==
    ASSUME Typed, TextOnce, [Next]_vars
    PROVE  TextOnce'
<1>1. ASSUME TextKept PROVE TextOnce'
  BY <1>1, KeptTextOnce
<1>2. ASSUME NEW r \in Requests, NEW t \in Targets, Start(r, t) PROVE TextOnce'
  BY <1>2 DEF Start, TextOnce, Goto, Typed, TypeOK, manager, sessions, history
<1>3. ASSUME NEW r \in Requests, StartType(r) PROVE TextOnce'
  BY <1>3 DEF StartType, TypeCommand, TextOnce, Goto, StartSteps, Typed, TypeOK, ManagerTypeOK,
              history, ledger
<1>4. ASSUME NEW r \in Requests, StartTypeRaises(r) PROVE TextOnce'
  BY <1>4 DEF StartTypeRaises, TypeCommandRaises, StartFails, Transition, Allowed, TextOnce,
              Goto, StartSteps, Typed, TypeOK, ManagerTypeOK, history
<1>5. ASSUME NEW r \in Requests, WorkerEnter(r) PROVE TextOnce'
  <2>1. CASE EnterRefused(r, target[r])
    BY <1>5, <2>1 DEF WorkerEnter, EnterRefused, PressEnter, TextOnce, Goto, StartSteps,
                      Typed, TypeOK, history, ledger
  <2>2. CASE PressEnter(r, target[r]) /\ UNCHANGED pc
    BY <1>5, <2>2 DEF WorkerEnter, PressEnter, TextOnce, StartSteps, WorkerSteps,
                      Typed, TypeOK, Placed, ManagerTypeOK, ledger
  <2> QED
    BY <1>5, <2>1, <2>2 DEF WorkerEnter
<1> QED
  BY <1>1, <1>2, <1>3, <1>4, <1>5, StartKeepsText, WorkerKeepsText, OthersKeepText,
     CancelLeavesRows, SurroundingsLeaveRows
  DEF Next, Snapshot, StartCall, Worker

\* However often a request is repeated and the runtime restarted, the text of
\* a command is entered at most once.
THEOREM EnteredAtMostOnce == Spec => []AtMostOnce
<1>1. Init => TextOnce
  BY DEF Init, ManagerInit, TextOnce, StartSteps
<1>2. TextOnce /\ Typed /\ [Next]_vars => TextOnce'
  BY TextOnceStep
<1>3. TextOnce => AtMostOnce
  BY DEF TextOnce, AtMostOnce
<1> QED
  BY <1>1, <1>2, <1>3, AlwaysTyped, PTL DEF Spec

-----------------------------------------------------------------------------
(* Every step but an acceptance, the beginning of a worker and Enter can at   *)
(* most conclude rows.                                                        *)

Concludes ==
    /\ UNCHANGED <<target, typedAndRun>>
    /\ \A r \in Requests :
          \/ state'[r] = state[r]
          \/ state[r] \in Live /\ state'[r] \in Terminal

\* prepare, called by a start, may only conclude rows.
LEMMA StartConcludes ==
    ASSUME Typed, NEW r \in Requests, StartCall(r)
    PROVE  Concludes
  BY DEF Concludes, StartCall, StartAdmit, StartClaim, StartClaimRefused, StartType,
         StartTypeRaises, StartTypeRefused, StartFails, ClaimAuthority, TypeCommand,
         TypeCommandRaises, DiscardPrepared, Transition, Allowed, Live, Terminal,
         Typed, TypeOK, manager, history, ledger

\* The thread of a command, but for its first step and its Enter, may only
\* conclude rows.
LEMMA WorkerConcludes ==
    ASSUME Typed, NEW r \in Requests,
           \/ WorkerAdmit(r) \/ WorkerClaim(r) \/ WorkerLeaveSession(r)
           \/ WorkerRelease(r) \/ WorkerRecord(r) \/ WorkerExit(r)
    PROVE  Concludes
<1> USE DEF Concludes, Typed, TypeOK, manager, history, ledger
<1>1. CASE WorkerAdmit(r) \/ WorkerClaim(r)
  BY <1>1 DEF WorkerAdmit, WorkerClaim, ClaimExecution
<1>2. CASE WorkerLeaveSession(r) \/ WorkerRelease(r) \/ WorkerExit(r)
  BY <1>2 DEF WorkerLeaveSession, LeaveSession, WorkerRelease, ReleaseAuthority, WorkerExit
<1>3. CASE WorkerRecord(r)
  BY <1>3 DEF WorkerRecord, Transition, Allowed, Verdict, Live, Terminal
<1> QED
  BY <1>1, <1>2, <1>3

\* Whatever else happens may only conclude rows.
LEMMA OthersConclude ==
    ASSUME Typed, LeavesRowsAlone \/ StopDiscards \/ SnapshotInterrupt \/ Restart
    PROVE  Concludes
<1> USE DEF Concludes, Live, Terminal, Typed, TypeOK, manager, history, ledger
<1>1. CASE LeavesRowsAlone
  BY <1>1 DEF LeavesRowsAlone
<1>2. CASE StopDiscards
  BY <1>2 DEF StopDiscards, DiscardPrepared, Transition, Allowed, Placed
<1>3. CASE SnapshotInterrupt \/ Restart
  BY <1>3 DEF SnapshotInterrupt, Restart, InterruptLive
<1> QED
  BY <1>1, <1>2, <1>3

\* Every step concludes rows, starts one, begins it, or enters its text.
LEMMA StepCases ==
    ASSUME Typed, [Next]_vars
    PROVE  \/ Concludes
           \/ \E r \in Requests, t \in Targets : Start(r, t)
           \/ \E r \in Requests : WorkerBegin(r) \/ WorkerEnter(r)
  BY StartConcludes, WorkerConcludes, OthersConclude, CancelLeavesRows, SurroundingsLeaveRows
  DEF Next, Snapshot, Worker

\* A concluded row keeps its state and its terminal for ever.
THEOREM ConcludedForEver == Spec => ConcludedRowsAreFinal
<1>1. ASSUME Typed, [Next]_vars
      PROVE  [\A r \in Requests :
                 state[r] \in Terminal => state'[r] = state[r] /\ target'[r] = target[r]]_vars
  BY <1>1, StepCases
  DEF Concludes, Start, WorkerBegin, WorkerEnter, Transition, Live, Terminal, Typed, TypeOK,
      ledger
<1> QED
  BY <1>1, AlwaysTyped, PTL DEF Spec, ConcludedRowsAreFinal

-----------------------------------------------------------------------------
(* The rows and the texts behave as CommandService says. *)

\* The service starts with no command.
LEMMA InitServes == Init => Service!Init
  BY DEF Init, ManagerInit, Service!Init, Status

\* Every step of the runtime is a step of the service, or none.
LEMMA StepServes ==
    ASSUME Typed, TextOnce, [Next]_vars
    PROVE  [Service!Next]_(Service!service)
<1> DEFINE S == {r \in Requests : state'[r] # state[r]}
<1>1. CASE Concludes
  <2>1. Service!End(S)
    BY <1>1 DEF Concludes, Service!End, Status, Live, Terminal
  <2> QED
    BY <2>1 DEF Service!Next
<1>2. ASSUME NEW r \in Requests, NEW t \in Targets, Start(r, t)
      PROVE  Service!Accept(r)
  BY <1>2 DEF Start, Service!Accept, Service!Move, Status, Typed, TypeOK, manager, history
<1>3. ASSUME NEW r \in Requests, WorkerBegin(r)
      PROVE  Service!Begin(r) \/ UNCHANGED Service!service
  BY <1>3 DEF WorkerBegin, Transition, Allowed, Service!Begin, Service!Move, Service!service,
              Status, Typed, TypeOK, manager, history
<1>4. ASSUME NEW r \in Requests, WorkerEnter(r)
      PROVE  Service!Deliver(line[target[r]]) \/ UNCHANGED Service!service
  <2> USE DEF Typed, TypeOK, Placed, ManagerTypeOK, ledger, history
  <2>1. target[r] \in Targets /\ line[target[r]] \subseteq Requests
    BY <1>4 DEF WorkerEnter, WorkerSteps
  <2>2. CASE PressEnter(r, target[r])
    BY <1>4, <2>1, <2>2 DEF WorkerEnter, PressEnter, TextOnce, Service!Deliver, Status
  <2>3. CASE EnterRefused(r, target[r])
    BY <1>4, <2>3 DEF WorkerEnter, EnterRefused, Service!service, Status
  <2> QED
    BY <1>4, <2>2, <2>3 DEF WorkerEnter
<1>5. ASSUME NEW r \in Requests, WorkerEnter(r)
      PROVE  line[target[r]] \in SUBSET Requests
  BY <1>5 DEF WorkerEnter, WorkerSteps, Typed, TypeOK, Placed, ManagerTypeOK
<1> QED
  BY <1>1, <1>2, <1>3, <1>4, <1>5, StepCases DEF Service!Next

\* The runtime implements the abstract service.
THEOREM RuntimeImplementsService == Spec => ImplementsService
<1>1. Init => TextOnce
  BY DEF Init, ManagerInit, TextOnce, StartSteps
<1>2. TextOnce /\ Typed /\ [Next]_vars => TextOnce'
  BY TextOnceStep
<1>3. Typed /\ TextOnce /\ [Next]_vars => [Service!Next]_(Service!service)
  BY StepServes
<1> QED
  BY <1>1, <1>2, <1>3, InitServes, AlwaysTyped, PTL DEF Spec, ImplementsService, Service!Spec

-----------------------------------------------------------------------------
(* Locks.  A start call holds _phase5b_lock from its first step to its last,  *)
(* a stop from its look at the row to its end; the session lock is held by    *)
(* the thread of the command that runs in the session.                        *)

\* Between a stop's look at a CREATED row and its discard nobody but a poll
\* touches the row.
Locked ==
    /\ \A r \in Requests : pc[r] \in StartSteps => lock = r
    /\ cancel["stop"].at # "idle" => lock = "stop"
    /\ Unpolled => snap = "idle"
    /\ Unpolled /\ cancel["stop"].at = "discard_created" =>
          pc[cancel["stop"].on] = "preview" /\ state[cancel["stop"].on] = "CREATED"

\* A session's execution state belongs to the thread that holds the session, and
\* that thread stands between its Enter and its leaving.
Held ==
    \A t \in Targets, r \in Requests :
        /\ executing[t] = r => executor[t] = r
        /\ executor[t] = r => pc[r] = "entered" /\ target[r] = t

\* While nobody polls, the row of a thread past its pause is RUNNING.
PastPause == {"admitted", "claimed", "entered", "release", "record"}
RowsRun == Unpolled => \A r \in Requests : pc[r] \in PastPause => state[r] = "RUNNING"

\* A request without a row has no thread.
RowFirst == \A r \in Requests : state[r] = "NONE" => pc[r] = "idle"

RunInv == Locked /\ Held /\ RowsRun /\ RowFirst

-----------------------------------------------------------------------------
(* Authority, while nobody disputes it.                                       *)

\* The command that was handed the authority and has not given it back.
Holder(r) ==
    \/ pc[r] \in {"type", "admitted", "claimed", "entered", "release"}
    \/ pc[r] = "preview" /\ state[r] = "CREATED"

\* Nobody recycles, and the only stop is one that discards.
Calm ==
    /\ pending = {} /\ recycler = None /\ snap = "idle"
    /\ cancel["force_stop"].at = "idle"
    /\ cancel["stop"].at \in {"idle", "discard_created"}

OneHolder ==
    /\ \A r \in Requests : Holder(r) => prepared = target[r]
    /\ \A r, q \in Requests : Holder(r) /\ Holder(q) => r = q

\* A session that is down has no prompt, and a text that waits was never entered.
TextWaits ==
    /\ \A t \in Targets \ online : line[t] = {}
    /\ \A r \in Requests : pc[r] = "preview" /\ state[r] = "CREATED" => typedAndRun[r] = 0

\* The text of a command cancelled before Enter is gone.
TextGone ==
    \A r \in unstarted :
        /\ state[r] = "CANCELLED" /\ typedAndRun[r] = 0
        /\ pc[r] \notin StartSteps
        /\ \A t \in Targets : r \notin line[t]

Settled == Calm /\ OneHolder /\ TextWaits /\ TextGone
AuthorityInv == Undisputed => Settled

-----------------------------------------------------------------------------
(* Prompts, in quiet surroundings.                                            *)

\* The command whose text stands on its prompt.
Standing(r) ==
    \/ pc[r] = "preview" /\ state[r] = "CREATED"
    \/ pc[r] \in {"admitted", "claimed"}
    \/ pc[r] = "entered" /\ executor[target[r]] # r

\* The holder whose prompt is empty.
Bare(r) ==
    \/ pc[r] \in {"type", "release"}
    \/ pc[r] = "entered" /\ executor[target[r]] = r

Neat ==
    /\ recovering = {} /\ online = Targets
    /\ \A t \in Targets : line[t] # {} => prepared = t
    /\ \A r \in Requests : Standing(r) => line[target[r]] = {r}
    /\ \A r \in Requests : Bare(r) => line[target[r]] = {}
    /\ \A r \in Requests : entered[r] \in {NotEntered, {r}}

PromptInv == Quiet => Neat

\* Whoever takes _phase5b_lock finds it free.
LEMMA StepLocked ==
    ASSUME Typed, RowMatchesThread, Locked, [Next]_vars
    PROVE  Locked'
<1> USE NoneAssumption, CancellersAssumption, StopIsNoRequest
    DEF Locked, Unpolled, Typed, TypeOK, StartSteps, Goto, Idle, CancelAt, CancelDone,
        ledger, runtime, callers
<1>1. ASSUME NEW r \in Requests, NEW t \in Targets, Start(r, t) PROVE Locked'
  BY <1>1 DEF Start
<1>2. ASSUME NEW r \in Requests, StartCall(r) PROVE Locked'
  <2>1. pc[r] \in StartSteps /\ lock = r /\ cancel["stop"].at = "idle"
    BY <1>2 DEF StartCall, StartAdmit, StartClaim, StartClaimRefused, StartType,
                StartTypeRaises, StartTypeRefused
  <2>2. \A q \in Requests : q # r => pc'[q] = pc[q]
    BY <1>2 DEF StartCall, StartAdmit, StartClaim, StartClaimRefused, StartType,
                StartTypeRaises, StartTypeRefused, StartFails
  <2>3. UNCHANGED <<cancel, snap, environment>> /\ (lock' = lock \/ pc'[r] \notin StartSteps)
    BY <1>2 DEF StartCall, StartAdmit, StartClaim, StartClaimRefused, StartType,
                StartTypeRaises, StartTypeRefused, StartFails
  <2> QED
    BY <2>1, <2>2, <2>3
<1>3. ASSUME NEW r \in Requests, Worker(r) PROVE Locked'
  <2>1. CASE WorkerBegin(r)
    BY <1>3, <2>1 DEF WorkerBegin, CancelSteps
  <2>2. CASE ~WorkerBegin(r)
    <3>1. pc[r] \notin StartSteps \cup {"preview"} /\ pc'[r] \notin StartSteps
      BY <1>3, <2>2 DEF Worker, WorkerAdmit, WorkerClaim, WorkerRefused, WorkerEnter,
                WorkerLeaveSession, WorkerRelease, WorkerRecord, WorkerExit
    <3>2. UNCHANGED <<lock, cancel, snap, environment>>
      BY <1>3, <2>2 DEF Worker, WorkerAdmit, WorkerClaim, WorkerEnter,
                WorkerLeaveSession, WorkerRelease, WorkerRecord, WorkerExit
    <3>3. \A q \in Requests : q # r => pc'[q] = pc[q] /\ state'[q] = state[q]
      BY <1>3, <2>2 DEF Worker, WorkerAdmit, WorkerClaim, WorkerRefused, WorkerEnter,
                WorkerLeaveSession, WorkerRelease, WorkerRecord, WorkerExit, Transition
    <3> QED
      BY <3>1, <3>2, <3>3 DEF Placed
  <2> QED
    BY <2>1, <2>2
<1>4. ASSUME NEW r \in Requests, StopCreated(r) \/ StopRunning(r) PROVE Locked'
  BY <1>4 DEF StopCreated, StopRunning, RowMatchesThread, WorkerSteps
<1>5. CASE StopDiscards \/ ForceStop
  BY <1>5 DEF StopDiscards, ForceStop
<1>6. ASSUME NEW c \in Cancellers, CancelActive(c) PROVE Locked'
  BY <1>6 DEF CancelActive, CancelLook, CancelSignal, CancelDiscard
<1>7. CASE Snapshot
  BY <1>7 DEF Snapshot, SnapshotRead, SnapshotOwner, SnapshotInterrupt, SnapshotForget,
              SnapshotRecycle, SnapshotAwait
<1>8. CASE \/ \E t \in Targets, who \in Recyclers : Recycle(t, who)
           \/ \E t \in Targets : ShellEnds(t) \/ ShellForced(t) \/ ShellLost(t)
           \/ UNCHANGED vars
  BY <1>8 DEF Recycle, ShellEnds, ShellForced, ShellLost, vars
<1>9. CASE Restart
  BY <1>9 DEF Restart
<1> QED
  BY <1>1, <1>2, <1>3, <1>4, <1>5, <1>6, <1>7, <1>8, <1>9 DEF Next

\* Only Enter gives a session to a thread, and only that thread leaves it.
LEMMA StepHeld ==
    ASSUME Typed, RowFirst, Held, [Next]_vars
    PROVE  Held'
<1> USE NoneAssumption
    DEF Held, Typed, TypeOK, ManagerTypeOK, Goto, manager, sessions, execution, ledger, runtime
<1>1. ASSUME NEW r \in Requests, NEW t \in Targets, Start(r, t) PROVE Held'
  <2>1. pc[r] # "entered"
    BY <1>1 DEF Start, RowFirst
  <2> QED
    BY <1>1, <2>1 DEF Start
<1>2. ASSUME NEW r \in Requests, StartCall(r) PROVE Held'
  <2>1. UNCHANGED <<execution, executor, target>>
    BY <1>2 DEF StartCall, StartAdmit, StartClaim, StartClaimRefused, StartType, StartTypeRaises,
                StartTypeRefused, StartFails, ClaimAuthority, EnsureSession, TypeCommand,
                TypeCommandRaises, DiscardPrepared
  <2>2. pc[r] # "entered" /\ \A q \in Requests : q # r => pc'[q] = pc[q]
    BY <1>2 DEF StartCall, StartAdmit, StartClaim, StartClaimRefused, StartType, StartTypeRaises,
                StartTypeRefused, StartFails
  <2> QED
    BY <2>1, <2>2
<1>3. ASSUME NEW r \in Requests, Worker(r) PROVE Held'
  <2>1. CASE WorkerEnter(r)
    <3>1. CASE PressEnter(r, target[r]) /\ UNCHANGED pc
      BY <2>1, <3>1 DEF WorkerEnter, PressEnter
    <3>2. CASE EnterRefused(r, target[r]) /\ Goto(r, "release")
      BY <2>1, <3>2 DEF WorkerEnter, EnterRefused
    <3> QED
      BY <2>1, <3>1, <3>2 DEF WorkerEnter
  <2>2. CASE WorkerLeaveSession(r)
    BY <2>2 DEF WorkerLeaveSession, LeaveSession, DropExecution
  <2>3. CASE ~WorkerEnter(r) /\ ~WorkerLeaveSession(r)
    <3>1. UNCHANGED <<execution, executor, target>>
      BY <1>3, <2>3
      DEF Worker, WorkerBegin, WorkerAdmit, WorkerClaim, WorkerRefused, ClaimExecution,
          EnsureSession, WorkerRelease, ReleaseAuthority, WorkerRecord, WorkerExit
    <3>2. pc[r] # "entered" /\ \A q \in Requests : q # r => pc'[q] = pc[q]
      BY <1>3, <2>3
      DEF Worker, WorkerBegin, WorkerAdmit, WorkerClaim, WorkerRefused, WorkerRelease,
          WorkerRecord, WorkerExit
    <3> QED
      BY <3>1, <3>2
  <2> QED
    BY <2>1, <2>2, <2>3
<1>4. ASSUME NEW r \in Requests, StopCreated(r) \/ StopRunning(r) PROVE Held'
  BY <1>4 DEF StopCreated, StopRunning
<1>5. CASE StopDiscards \/ ForceStop
  BY <1>5 DEF StopDiscards, DiscardPrepared, ForceStop
<1>6. ASSUME NEW c \in Cancellers, CancelActive(c) PROVE Held'
  BY <1>6 DEF CancelActive, CancelLook, MarkRecovering, CancelSignal, SignalCancel,
              SignalCancelFails, CancelDiscard, DiscardPrepared
<1>7. CASE Snapshot
  BY <1>7 DEF Snapshot, SnapshotRead, SnapshotOwner, SnapshotInterrupt, SnapshotForget,
              SnapshotRecycle, SnapshotAwait
<1>8. ASSUME NEW t \in Targets, NEW who \in Recyclers, Recycle(t, who) PROVE Held'
  BY <1>8 DEF Recycle, RecycleBegin, RecycleClose, DropExecution, RecycleFinish, EnsureSession
<1>9. ASSUME NEW t \in Targets, ShellEnds(t) \/ ShellForced(t) \/ ShellLost(t) PROVE Held'
  BY <1>9 DEF ShellEnds, CommandEnds, DropExecution, ShellForced, ForceCompletion, ShellLost,
              SessionDies
<1>10. CASE Restart \/ UNCHANGED vars
  BY <1>10 DEF Restart, vars
<1> QED
  BY <1>1, <1>2, <1>3, <1>4, <1>5, <1>6, <1>7, <1>8, <1>9, <1>10 DEF Next

\* A thread past its pause made its row RUNNING, and only that thread, a poll or
\* a restart concludes it.
LEMMA StepRowsRun ==
    ASSUME Typed, Locked, RowsRun, [Next]_vars
    PROVE  RowsRun'
<1> USE CancellersAssumption
    DEF RowsRun, Unpolled, PastPause, Typed, TypeOK, Goto, ledger, runtime, callers
<1>1. ASSUME LeavesRowsAlone, environment' = environment PROVE RowsRun'
  BY <1>1 DEF LeavesRowsAlone
<1>2. environment' = environment
  BY DEF Next, vars, Start, StartCall, StartAdmit, StartClaim, StartClaimRefused, StartType,
         StartTypeRaises, StartTypeRefused, StartFails, Worker, WorkerBegin, WorkerAdmit,
         WorkerClaim, WorkerEnter, WorkerLeaveSession, WorkerRelease, WorkerRecord, WorkerExit,
         StopCreated, StopRunning, StopDiscards, ForceStop, CancelActive, CancelLook,
         CancelSignal, CancelDiscard, Snapshot, SnapshotRead, SnapshotOwner, SnapshotInterrupt,
         SnapshotForget, SnapshotRecycle, SnapshotAwait, Recycle, ShellEnds, ShellForced,
         ShellLost, Restart
<1>3. ASSUME NEW r \in Requests, NEW t \in Targets, Start(r, t) PROVE RowsRun'
  BY <1>2, <1>3 DEF Start
<1>4. ASSUME NEW r \in Requests, StartCall(r) PROVE RowsRun'
  <2>1. /\ pc'[r] \notin PastPause
        /\ \A q \in Requests : q # r => pc'[q] = pc[q] /\ state'[q] = state[q]
    BY <1>4 DEF StartCall, StartAdmit, StartClaim, StartClaimRefused, StartType, StartTypeRaises,
                StartTypeRefused, StartFails, Transition
  <2> QED
    BY <1>2, <2>1
<1>5. ASSUME NEW r \in Requests, Worker(r) PROVE RowsRun'
  <2>1. CASE WorkerBegin(r)
    BY <1>2, <2>1 DEF WorkerBegin, Transition, Allowed
  <2>2. CASE WorkerRecord(r) \/ WorkerExit(r)
    BY <1>2, <2>2 DEF WorkerRecord, WorkerExit, Transition
  <2>3. CASE WorkerAdmit(r) \/ WorkerClaim(r) \/ WorkerEnter(r) \/ WorkerLeaveSession(r)
             \/ WorkerRelease(r)
    <3>1. state' = state /\ pc[r] \in PastPause /\ \A q \in Requests : q # r => pc'[q] = pc[q]
      BY <2>3 DEF WorkerAdmit, WorkerClaim, WorkerRefused, WorkerEnter, WorkerLeaveSession,
                  WorkerRelease
    <3> QED
      BY <1>2, <3>1
  <2> QED
    BY <1>5, <2>1, <2>2, <2>3 DEF Worker
<1>6. CASE StopDiscards
  BY <1>2, <1>6 DEF StopDiscards, Transition, Locked
<1>7. CASE SnapshotInterrupt \/ Restart
  BY <1>2, <1>7 DEF SnapshotInterrupt, Restart, Locked, Unpolled
<1> QED
  BY <1>1, <1>2, <1>3, <1>4, <1>5, <1>6, <1>7, CancelLeavesRows, SurroundingsLeaveRows
  DEF Next, Snapshot

\* Only a start that writes a row begins a thread.
LEMMA StepRowFirst ==
    ASSUME Typed, RowFirst, [Next]_vars
    PROVE  RowFirst'
<1> USE DEF RowFirst, Typed, TypeOK, Goto, ledger, runtime
<1>1. ASSUME LeavesRowsAlone PROVE RowFirst'
  BY <1>1 DEF LeavesRowsAlone
<1>2. ASSUME NEW r \in Requests, NEW t \in Targets, Start(r, t) PROVE RowFirst'
  BY <1>2 DEF Start
<1>3. ASSUME NEW r \in Requests, StartCall(r) PROVE RowFirst'
  BY <1>3 DEF StartCall, StartAdmit, StartClaim, StartClaimRefused, StartType, StartTypeRaises,
              StartTypeRefused, StartFails, Transition, Allowed
<1>4. ASSUME NEW r \in Requests, Worker(r) PROVE RowFirst'
  <2>1. pc[r] # "idle" /\ \A q \in Requests : q # r => pc'[q] = pc[q]
    BY <1>4 DEF Worker, WorkerBegin, WorkerAdmit, WorkerClaim, WorkerRefused, WorkerEnter,
                WorkerLeaveSession, WorkerRelease, WorkerRecord, WorkerExit
  <2>2. CASE WorkerBegin(r) \/ WorkerRecord(r)
    <3>1. \A q \in Requests : state'[q] = "NONE" => state[q] = "NONE"
      BY <2>2 DEF WorkerBegin, WorkerRecord, Transition, Allowed, Terminal
    <3> QED
      BY <2>1, <3>1
  <2>3. CASE ~WorkerBegin(r) /\ ~WorkerRecord(r)
    <3>1. state' = state
      BY <1>4, <2>3 DEF Worker, WorkerAdmit, WorkerClaim, WorkerEnter, WorkerLeaveSession,
                        WorkerRelease, WorkerExit
    <3> QED
      BY <2>1, <3>1
  <2> QED
    BY <2>2, <2>3
<1>5. CASE StopDiscards
  BY <1>5 DEF StopDiscards, Transition, Allowed, Placed
<1>6. CASE SnapshotInterrupt \/ Restart
  BY <1>6 DEF SnapshotInterrupt, Restart, InterruptLive, Live
<1> QED
  BY <1>1, <1>2, <1>3, <1>4, <1>5, <1>6, CancelLeavesRows, SurroundingsLeaveRows
  DEF Next, Snapshot

\* The runtime starts with no thread at work.
LEMMA InitRun == Init => RunInv
  BY NoneAssumption, CancellersAssumption
  DEF RowFirst, Init, ManagerInit, RunInv, Locked, Held, RowsRun, PastPause, StartSteps, Idle

\* Locks, sessions and rows agree, however the runtime is stopped and restarted.
LEMMA RunAlways == Spec => []RunInv
<1>1. RunInv /\ RowMatchesThread /\ Typed /\ [Next]_vars => RunInv'
  BY StepLocked, StepHeld, StepRowsRun, StepRowFirst DEF RunInv
<1> QED
  BY <1>1, InitRun, AlwaysTyped, RowsHaveThreads, PTL DEF Spec

\* A command that runs has a thread that waits for it, so its row is RUNNING.
LEMMA RunningIsNotConcluded == RunInv => ConcludedIsNotRunning
  BY DEF RunInv, Held, RowsRun, PastPause, ConcludedIsNotRunning, Running, Terminal

\* The steps nobody disputes: no recycle, no poll, no Ctrl+C.
LEMMA UndisputedNext ==
    ASSUME Typed, Undisputed, Calm, [Next]_vars
    PROVE  \/ \E r \in Requests, t \in Targets : Start(r, t)
           \/ \E r \in Requests : StartCall(r) \/ Worker(r) \/ StopCreated(r)
           \/ StopDiscards
           \/ \E t \in Targets : ShellEnds(t) \/ ShellForced(t) \/ ShellLost(t)
           \/ Restart
           \/ UNCHANGED vars
<1> USE CancellersAssumption DEF Undisputed, Calm
<1>1. ~ForceStop /\ ~\E r \in Requests : StopRunning(r)
  BY DEF ForceStop, StopRunning
<1>2. ~\E c \in Cancellers : CancelActive(c)
  BY DEF CancelActive, CancelLook, CancelSignal, CancelDiscard
<1>3. ~Snapshot
  BY DEF Snapshot, SnapshotRead, SnapshotOwner, SnapshotInterrupt, SnapshotForget,
         SnapshotRecycle, SnapshotAwait
<1>4. ~\E t \in Targets, who \in Recyclers : Recycle(t, who)
  BY RecyclersAssumption DEF Recycle, RecycleBegin, RecycleClose, RecycleFinish
<1> QED
  BY <1>1, <1>2, <1>3, <1>4 DEF Next

\* The environment never changes.
LEMMA SameEnvironment == [Next]_vars => environment' = environment
  BY DEF Next, vars, Start, StartCall, StartAdmit, StartClaim, StartClaimRefused, StartType,
         StartTypeRaises, StartTypeRefused, StartFails, Worker, WorkerBegin, WorkerAdmit,
         WorkerClaim, WorkerEnter, WorkerLeaveSession, WorkerRelease, WorkerRecord, WorkerExit,
         StopCreated, StopRunning, StopDiscards, ForceStop, CancelActive, CancelLook,
         CancelSignal, CancelDiscard, Snapshot, SnapshotRead, SnapshotOwner, SnapshotInterrupt,
         SnapshotForget, SnapshotRecycle, SnapshotAwait, Recycle, ShellEnds, ShellForced,
         ShellLost, Restart

\* A step of one command keeps the holder unique: it gives the authority back,
\* leaves it where it is, or takes it when nobody has it.
LEMMA HolderKept ==
    ASSUME OneHolder, NEW r \in Requests,
           \A q \in Requests \ {r} :
               pc'[q] = pc[q] /\ state'[q] = state[q] /\ target'[q] = target[q],
           \/ prepared' = prepared /\ (Holder(r)' => Holder(r) /\ target'[r] = target[r])
           \/ /\ \A q \in Requests \ {r} : ~Holder(q)
              /\ Holder(r)' => prepared' = target'[r]
    PROVE  OneHolder'
<1>1. \A q \in Requests \ {r} : Holder(q)' = Holder(q) /\ target'[q] = target[q]
  BY DEF Holder
<1> QED
  BY <1>1 DEF OneHolder

\* prepare() hands the authority to one start, which types on its prompt.
LEMMA StartSettled ==
    ASSUME Typed, TextOnce, RowFirst, Locked, Settled, NEW r \in Requests, NEW t \in Targets,
           Start(r, t) \/ StartCall(r)
    PROVE  Settled'
<1> USE NoneAssumption, CancellersAssumption
    DEF Typed, TypeOK, ManagerTypeOK, Placed, StartSteps, Goto, manager, authority, sessions,
        execution, history, recovery, ledger, runtime, callers
<1>1. Calm'
  BY DEF Settled, Calm, Start, StartCall, StartAdmit, StartClaim, StartClaimRefused, StartType,
         StartTypeRaises, StartTypeRefused, StartFails, ClaimAuthority, EnsureSession, TypeCommand,
         TypeCommandRaises, DiscardPrepared
<1>2. \A q \in Requests : q # r => /\ pc'[q] = pc[q] /\ state'[q] = state[q]
                                   /\ target'[q] = target[q]
  BY DEF Start, StartCall, StartAdmit, StartClaim, StartClaimRefused, StartType,
         StartTypeRaises, StartTypeRefused, StartFails, Transition
<1>3. UNCHANGED <<typedAndRun, unstarted>>
  BY DEF Start, StartCall, StartAdmit, StartClaim, StartClaimRefused, StartType,
         StartTypeRaises, StartTypeRefused, StartFails, ClaimAuthority, TypeCommand,
         TypeCommandRaises, DiscardPrepared
<1>4. r \notin unstarted
  BY DEF Settled, TextGone, Start, StartCall, StartAdmit, StartClaim, StartClaimRefused,
         StartType, StartTypeRaises, StartTypeRefused
<1>5. \A u \in Targets : line'[u] \subseteq line[u] \cup {r}
  BY DEF Start, StartCall, StartAdmit, StartClaim, StartClaimRefused, StartType,
         StartTypeRaises, StartTypeRefused, StartFails, ClaimAuthority, EnsureSession, TypeCommand,
         TypeCommandRaises, DiscardPrepared
<1>6. \A u \in Targets \ online' : u \notin online /\ line'[u] \subseteq line[u]
  BY DEF Start, StartCall, StartAdmit, StartClaim, StartClaimRefused, StartType,
         StartTypeRaises, StartTypeRefused, StartFails, ClaimAuthority, EnsureSession, TypeCommand,
         TypeCommandRaises, DiscardPrepared
<1>7. TextGone'
  BY <1>2, <1>3, <1>4, <1>5 DEF Settled, TextGone
<1>8. TextWaits'
  BY <1>2, <1>3, <1>6 DEF Settled, TextWaits, TextOnce, Start, StartCall, StartAdmit,
         StartClaim, StartClaimRefused, StartType, StartTypeRaises, StartTypeRefused, StartFails
<1>9. OneHolder
  BY DEF Settled
<1>10. ASSUME \/ prepared' = prepared /\ (Holder(r)' => Holder(r) /\ target'[r] = target[r])
              \/ /\ \A q \in Requests \ {r} : ~Holder(q)
                 /\ Holder(r)' => prepared' = target'[r]
       PROVE  OneHolder'
  BY <1>2, <1>9, <1>10, HolderKept
<1>12. ASSUME Start(r, t) \/ StartAdmit(r) PROVE OneHolder'
  <2>1. prepared' = prepared
    BY <1>12 DEF Start, StartAdmit, StartFails
  <2>2. ~Holder(r)'
    BY <1>12 DEF Start, StartAdmit, StartFails, Holder
  <2> QED
    BY <1>10, <2>1, <2>2
<1>13. ASSUME StartClaim(r) PROVE OneHolder'
  BY <1>9, <1>10, <1>13 DEF StartClaim, ClaimAuthority, Busy, OneHolder, Holder
<1>14. ASSUME StartClaimRefused(r) PROVE OneHolder'
  BY <1>10, <1>14 DEF StartClaimRefused, StartFails, Holder
<1>15. ASSUME StartType(r) PROVE OneHolder'
  BY <1>10, <1>15 DEF StartType, TypeCommand, Holder
<1>16. ASSUME StartTypeRaises(r) \/ StartTypeRefused(r) PROVE OneHolder'
  <2>1. Holder(r)
    BY <1>16 DEF StartTypeRaises, StartTypeRefused, Holder
  <2>2. ~Holder(r)'
    BY <1>16 DEF StartTypeRaises, StartTypeRefused, StartFails, Holder
  <2> QED
    BY <1>9, <1>10, <2>1, <2>2 DEF OneHolder
<1> QED
  BY <1>1, <1>7, <1>8, <1>12, <1>13, <1>14, <1>15, <1>16 DEF Settled, StartCall

\* Only an Enter counts texts as entered, those of its prompt.
LEMMA EnterTakes ==
    ASSUME Typed, NEW r \in Requests, Worker(r), NEW q \in Requests,
           typedAndRun'[q] # typedAndRun[q]
    PROVE  pc[r] = "entered" /\ \E t \in Targets : q \in line[t]
<1>1. WorkerEnter(r)
  <2>1. ASSUME ~WorkerEnter(r)
        PROVE  typedAndRun' = typedAndRun
    BY <2>1
    DEF Worker, WorkerBegin, WorkerAdmit, WorkerClaim, WorkerLeaveSession, LeaveSession,
        WorkerRelease, ReleaseAuthority, WorkerRecord, WorkerExit, ClaimExecution, manager, history
  <2> QED
    BY <2>1
<1>2. target[r] \in Targets
  BY <1>1 DEF WorkerEnter, WorkerSteps, Typed, Placed
<1>3. CASE PressEnter(r, target[r])
  BY <1>1, <1>2, <1>3 DEF WorkerEnter, PressEnter, Typed, TypeOK, ManagerTypeOK
<1>4. CASE EnterRefused(r, target[r])
  BY <1>4 DEF EnterRefused, history
<1> QED
  BY <1>1, <1>3, <1>4 DEF WorkerEnter

\* The thread of a command keeps the authority until it gives it back, and its
\* Enter takes no other waiting text along.
LEMMA WorkerSettled ==
    ASSUME Typed, Settled, NEW r \in Requests, Worker(r)
    PROVE  Settled'
<1> USE DEF Typed, TypeOK, ManagerTypeOK, Goto, manager, authority, sessions,
            execution, history, recovery, ledger, runtime, callers
<1>1. Calm'
  BY DEF Settled, Calm, Worker, WorkerBegin, WorkerAdmit, WorkerClaim, WorkerEnter, PressEnter,
         EnterRefused, WorkerLeaveSession, LeaveSession, WorkerRelease, ReleaseAuthority,
         WorkerRecord, WorkerExit, ClaimExecution
<1>2. \A q \in Requests \ {r} : pc'[q] = pc[q] /\ state'[q] = state[q] /\ target'[q] = target[q]
  BY DEF Worker, WorkerBegin, WorkerAdmit, WorkerClaim, WorkerRefused, WorkerEnter,
         WorkerLeaveSession, WorkerRelease, WorkerRecord, WorkerExit, Transition
<1>3. OneHolder
  BY DEF Settled
<1>4. OneHolder'
  <2>1. CASE WorkerRelease(r)
    <3>1. Holder(r) /\ ~Holder(r)'
      BY <2>1 DEF WorkerRelease, Holder
    <3> QED
      BY <1>2, <1>3, <3>1, HolderKept DEF OneHolder
  <2>2. CASE WorkerRecord(r) \/ WorkerExit(r)
    <3>1. ~Holder(r)' /\ prepared' = prepared
      BY <2>2 DEF WorkerRecord, WorkerExit, Holder
    <3> QED
      BY <1>2, <1>3, <3>1, HolderKept
  <2>3. CASE \/ WorkerBegin(r) \/ WorkerAdmit(r) \/ WorkerClaim(r) \/ WorkerEnter(r)
             \/ WorkerLeaveSession(r)
    <3>1. UNCHANGED <<prepared, target>>
      BY <2>3 DEF WorkerBegin, WorkerAdmit, WorkerClaim, WorkerEnter, WorkerLeaveSession,
                  ClaimExecution, PressEnter, EnterRefused, LeaveSession
    <3>2. Holder(r)' => Holder(r)
      BY <2>3 DEF WorkerBegin, WorkerAdmit, WorkerClaim, WorkerRefused, WorkerEnter,
                  WorkerLeaveSession, Holder, Transition, Allowed
    <3> QED
      BY <1>2, <1>3, <3>1, <3>2, HolderKept
  <2> QED
    BY <2>1, <2>2, <2>3 DEF Worker
<1>5. \A u \in Targets : line'[u] \subseteq line[u]
  BY DEF Worker, WorkerBegin, WorkerAdmit, WorkerClaim, WorkerEnter, PressEnter,
         EnterRefused, WorkerLeaveSession, LeaveSession, WorkerRelease, ReleaseAuthority,
         WorkerRecord, WorkerExit, ClaimExecution, EnsureSession
<1>6. online \subseteq online'
  BY DEF Worker, WorkerBegin, WorkerAdmit, WorkerClaim, WorkerEnter, PressEnter,
         EnterRefused, WorkerLeaveSession, LeaveSession, WorkerRelease, ReleaseAuthority,
         WorkerRecord, WorkerExit, ClaimExecution, EnsureSession
<1>7. \A q \in Requests : Holder(q) /\ pc[r] = "entered" => q = r
  BY <1>3 DEF OneHolder, Holder
<1>8. \A q \in Requests : typedAndRun'[q] # typedAndRun[q] =>
                             pc[r] = "entered" /\ \E u \in Targets : q \in line[u]
  BY EnterTakes
<1>9. pc'[r] # "preview" /\ pc'[r] \notin StartSteps
  BY DEF Worker, WorkerBegin, WorkerAdmit, WorkerClaim, WorkerRefused, WorkerEnter,
         WorkerLeaveSession, WorkerRelease, WorkerRecord, WorkerExit, StartSteps
<1>10. TextWaits'
  <2>1. ASSUME NEW q \in Requests, pc'[q] = "preview" /\ state'[q] = "CREATED"
        PROVE  typedAndRun'[q] = 0
    <3>1. q # r /\ Holder(q) /\ typedAndRun[q] = 0
      BY <1>2, <1>9, <2>1 DEF Holder, Settled, TextWaits
    <3> QED
      BY <1>7, <1>8, <3>1
  <2> QED
    BY <1>5, <1>6, <2>1 DEF Settled, TextWaits
<1>11. state[r] = "CANCELLED" => state'[r] = "CANCELLED"
  BY DEF Worker, WorkerBegin, WorkerAdmit, WorkerClaim, WorkerEnter, WorkerLeaveSession,
         WorkerRelease, WorkerRecord, WorkerExit, Transition, Allowed
<1>12. unstarted' = unstarted
  BY DEF Worker, WorkerBegin, WorkerAdmit, WorkerClaim, WorkerEnter, WorkerLeaveSession,
         WorkerRelease, WorkerRecord, WorkerExit
<1>13. TextGone'
  BY <1>2, <1>5, <1>8, <1>9, <1>11, <1>12 DEF Settled, TextGone
<1> QED
  BY <1>1, <1>4, <1>10, <1>13 DEF Settled

\* A stop discards the text of the row it cancels, and nothing else is prepared.
LEMMA StopSettled ==
    ASSUME Typed, TextOnce, Locked, Settled, Unpolled,
           StopDiscards \/ \E r \in Requests : StopCreated(r)
    PROVE  Settled'
<1> USE NoneAssumption, CancellersAssumption
    DEF Typed, TypeOK, ManagerTypeOK, Goto, manager, authority, sessions,
        execution, history, recovery, ledger, runtime, callers
<1>1. ASSUME NEW r \in Requests, StopCreated(r)
      PROVE  Settled'
  BY <1>1 DEF StopCreated, CancelAt, Settled, Calm, OneHolder, Holder, TextWaits, TextGone
<1>2. CASE StopDiscards
  <2> PICK r \in Requests : r = cancel["stop"].on
    BY <1>2 DEF StopDiscards, Placed
  <2>1. pc[r] = "preview" /\ state[r] = "CREATED" /\ Holder(r)
    BY <1>2 DEF StopDiscards, Placed, Locked, Holder
  <2>2. target[r] \in Targets /\ prepared = target[r] /\ \A q \in Requests \ {r} : ~Holder(q)
    BY <2>1 DEF Placed, WorkerSteps, Settled, OneHolder
  <2>3. /\ state' = [state EXCEPT ![r] = "CANCELLED"] /\ unstarted' = unstarted \cup {r}
        /\ UNCHANGED <<pc, target, typedAndRun, online>>
    BY <1>2, <2>1, <2>2 DEF StopDiscards, DiscardPrepared, Transition, Allowed
  <2>4. \A u \in Targets : line'[u] \subseteq line[u] /\ r \notin line'[u]
    BY <1>2, <2>1, <2>2 DEF StopDiscards, DiscardPrepared, TextOnce, Settled, TextWaits
  <2>5. Calm'
    BY <1>2 DEF StopDiscards, DiscardPrepared, Settled, Calm, Idle
  <2>6. ~Holder(r)'
    BY <2>1, <2>3 DEF Holder
  <2>7. \A q \in Requests \ {r} : pc'[q] = pc[q] /\ state'[q] = state[q] /\ target'[q] = target[q]
    BY <2>3
  <2>8. OneHolder'
    BY <2>2, <2>6, <2>7, HolderKept DEF Settled
  <2>9. TextWaits'
    BY <2>1, <2>3, <2>4 DEF Settled, TextWaits
  <2>10. TextGone'
    BY <2>1, <2>3, <2>4 DEF Settled, TextGone, TextWaits, StartSteps
  <2> QED
    BY <2>5, <2>8, <2>9, <2>10 DEF Settled
<1> QED
  BY <1>1, <1>2

\* What the shells do leaves the authority alone, and a restart clears it.
LEMMA SurroundingsSettled ==
    ASSUME Typed, Settled,
           \/ \E t \in Targets : ShellEnds(t) \/ ShellForced(t) \/ ShellLost(t)
           \/ Restart
           \/ UNCHANGED vars
    PROVE  Settled'
<1> USE CancellersAssumption
    DEF Typed, TypeOK, ManagerTypeOK, manager, authority, sessions,
        execution, history, recovery, ledger, runtime, callers
<1>1. ASSUME NEW t \in Targets, ShellEnds(t) \/ ShellForced(t) \/ ShellLost(t)
      PROVE  Settled'
  BY <1>1 DEF ShellEnds, CommandEnds, ShellForced, ForceCompletion, ShellLost, SessionDies,
              Settled, Calm, OneHolder, Holder, TextWaits, TextGone
<1>2. CASE Restart
  BY <1>2 DEF Restart, InterruptLive, Live, Idle, StartSteps, Settled, Calm, OneHolder, Holder,
              TextWaits, TextGone
<1>3. CASE UNCHANGED vars
  BY <1>3 DEF vars, Settled, Calm, OneHolder, Holder, TextWaits, TextGone
<1> QED
  BY <1>1, <1>2, <1>3

\* Prompts are those of one command: who does not hold the authority moves
\* nothing, and while one does the others stand on no prompt.
LEMMA NeatKept ==
    ASSUME OneHolder, Neat, NEW r \in Requests,
           \A q \in Requests \ {r} :
               pc'[q] = pc[q] /\ state'[q] = state[q] /\ target'[q] = target[q],
           recovering' = {} /\ online' = Targets,
           \/ /\ Holder(r) \/ prepared = None
              /\ \A q \in Requests : Holder(q) => prepared # None
              /\ \A t \in Targets : line'[t] # {} => prepared' = t
              /\ Standing(r)' => line'[target'[r]] = {r}
              /\ Bare(r)' => line'[target'[r]] = {}
           \/ ~Holder(r)' /\ UNCHANGED <<line, executor, prepared>>,
           \A q \in Requests : entered'[q] \in {entered[q], {q}}
    PROVE  Neat'
<1> DEFINE Others == Requests \ {r}
<1>1. \A q \in Requests : /\ Standing(q) \/ Bare(q) => Holder(q)
                          /\ (Standing(q) \/ Bare(q))' => Holder(q)'
  BY DEF Standing, Bare, Holder
<1>2. \A q \in Others : Holder(q)' = Holder(q) /\ target'[q] = target[q]
  BY DEF Holder
<1>3. \A q \in Requests : entered'[q] \in {NotEntered, {q}}
  BY DEF Neat
<1>4. CASE /\ Holder(r) \/ prepared = None
           /\ \A q \in Requests : Holder(q) => prepared # None
           /\ \A t \in Targets : line'[t] # {} => prepared' = t
           /\ Standing(r)' => line'[target'[r]] = {r}
           /\ Bare(r)' => line'[target'[r]] = {}
  <2>1. \A q \in Others : ~Holder(q)
    BY <1>4 DEF OneHolder
  <2>2. \A q \in Others : ~Standing(q)' /\ ~Bare(q)'
    BY <1>1, <1>2, <2>1
  <2> QED
    BY <1>3, <1>4, <2>2 DEF Neat
<1>5. CASE ~Holder(r)' /\ UNCHANGED <<line, executor, prepared>>
  <2>1. \A q \in Others : Standing(q)' = Standing(q) /\ Bare(q)' = Bare(q)
    BY <1>5 DEF Standing, Bare
  <2>2. ~Standing(r)' /\ ~Bare(r)'
    BY <1>1, <1>5
  <2>3. \A q \in Requests : /\ Standing(q)' => line'[target'[q]] = {q}
                            /\ Bare(q)' => line'[target'[q]] = {}
    BY <1>2, <1>5, <2>1, <2>2 DEF Neat
  <2> QED
    BY <1>3, <1>5, <2>3 DEF Neat
<1> QED
  BY <1>4, <1>5

\* In quiet surroundings a start types on an empty prompt.
LEMMA StartNeat ==
    ASSUME Typed, Settled, Neat, NEW r \in Requests, NEW t \in Targets,
           Start(r, t) \/ StartCall(r)
    PROVE  Neat'
<1>1. \A q \in Requests \ {r} :
          pc'[q] = pc[q] /\ state'[q] = state[q] /\ target'[q] = target[q]
  BY DEF Start, StartCall, StartAdmit, StartClaim, StartClaimRefused, StartType,
         StartTypeRaises, StartTypeRefused, StartFails, Transition, Goto, ledger, runtime, Typed,
         TypeOK
<1>2. OneHolder /\ \A q \in Requests : Holder(q) => prepared # None
  BY NoneAssumption DEF Settled, OneHolder, Holder, Typed, Placed, StartSteps, WorkerSteps
<1>3. recovering' = {} /\ online' = Targets
  <2>1. recovering' = recovering /\ online \subseteq online'
    BY DEF Start, StartCall, StartAdmit, StartClaim, StartClaimRefused, StartType,
           StartTypeRaises, StartTypeRefused, StartFails, ClaimAuthority, EnsureSession,
           TypeCommand, TypeCommandRaises, DiscardPrepared, manager, sessions, recovery
  <2>2. online' \subseteq Targets
    BY StartTyped DEF Typed, TypeOK, ManagerTypeOK
  <2> QED
    BY <2>1, <2>2 DEF Neat
<1>4. entered' = entered
  BY DEF Start, StartCall, StartAdmit, StartClaim, StartClaimRefused, StartType,
         StartTypeRaises, StartTypeRefused, StartFails, ClaimAuthority, EnsureSession, TypeCommand,
         TypeCommandRaises, DiscardPrepared, manager, history
<1>5. ASSUME \/ /\ Holder(r) \/ prepared = None
                /\ \A u \in Targets : line'[u] # {} => prepared' = u
                /\ Standing(r)' => line'[target'[r]] = {r}
                /\ Bare(r)' => line'[target'[r]] = {}
             \/ ~Holder(r)' /\ UNCHANGED <<line, executor, prepared>>
      PROVE  Neat'
  BY <1>1, <1>2, <1>3, <1>4, <1>5, NeatKept
<1>6. CASE Start(r, t) \/ StartAdmit(r)
  <2>1. ~Holder(r)' /\ UNCHANGED <<line, executor, prepared>>
    BY <1>6 DEF Start, StartAdmit, StartFails, Holder, Goto, manager, authority, sessions,
                Typed, TypeOK
  <2> QED
    BY <1>5, <2>1
<1>7. CASE StartClaim(r)
  <2>1. /\ prepared = None /\ prepared' = target[r] /\ target'[r] = target[r] /\ line' = line
        /\ pc'[r] = "type"
    BY <1>7 DEF StartClaim, ClaimAuthority, Busy, EnsureSession, Neat, Goto, ledger, Typed,
                TypeOK, Placed, StartSteps
  <2>2. \A u \in Targets : line[u] = {}
    BY <2>1, NoneAssumption DEF Neat
  <2>3. target[r] \in Targets /\ ~Standing(r)'
    BY <1>7, <2>1 DEF StartClaim, Typed, Placed, StartSteps, Standing
  <2> QED
    BY <1>5, <2>1, <2>2, <2>3
<1>8. CASE StartClaimRefused(r)
  <2>1. ~Holder(r)' /\ UNCHANGED <<line, executor, prepared>>
    BY <1>8 DEF StartClaimRefused, StartFails, EnsureSession, Holder, Goto, Neat, authority, sessions,
                Typed, TypeOK, Placed, StartSteps
  <2> QED
    BY <1>5, <2>1
<1>9. ASSUME StartType(r) \/ StartTypeRaises(r) \/ StartTypeRefused(r)
      PROVE  /\ Holder(r) /\ prepared = target[r] /\ target'[r] = target[r]
             /\ target[r] \in Targets /\ \A u \in Targets : line[u] = {}
  <2>1. pc[r] = "type" /\ Holder(r) /\ Bare(r) /\ target' = target
    BY <1>9 DEF StartType, StartTypeRaises, StartTypeRefused, StartFails, Holder, Bare, ledger
  <2>2. prepared = target[r] /\ target[r] \in Targets
    BY <2>1 DEF Settled, OneHolder, Typed, Placed, StartSteps
  <2> QED
    BY <2>1, <2>2 DEF Neat
<1>10. CASE StartType(r)
  <2>1. /\ line' = [line EXCEPT ![target[r]] = {r}] /\ prepared' = prepared /\ ~Bare(r)'
    BY <1>9, <1>10 DEF StartType, TypeCommand, authority, Goto, Bare, Typed, TypeOK, ManagerTypeOK
  <2> QED
    BY <1>5, <1>9, <1>10, <2>1 DEF Typed, TypeOK, ManagerTypeOK
<1>11. CASE StartTypeRaises(r)
  <2>1. /\ line' = line \/ line' = [line EXCEPT ![target[r]] = {r}]
        /\ prepared' = prepared /\ ~Bare(r)' /\ ~Standing(r)'
    BY <1>11 DEF StartTypeRaises, TypeCommandRaises, StartFails, authority, Goto, Bare, Standing,
                 Typed, TypeOK
  <2> QED
    BY <1>5, <1>9, <1>11, <2>1 DEF Typed, TypeOK, ManagerTypeOK
<1>12. CASE StartTypeRefused(r)
  <2>1. /\ \A u \in Targets : line'[u] \subseteq line[u]
        /\ ~Bare(r)' /\ ~Standing(r)'
    BY <1>12 DEF StartTypeRefused, DiscardPrepared, StartFails, Goto, Bare, Standing, Typed, TypeOK
  <2> QED
    BY <1>5, <1>9, <1>12, <2>1
<1> QED
  BY <1>6, <1>7, <1>8, <1>10, <1>11, <1>12 DEF StartCall

\* The thread of a command finds its text on the prompt it enters, and leaves
\* every prompt empty when it gives the authority back.
LEMMA WorkerNeat ==
    ASSUME Typed, Held, Settled, Neat, NEW r \in Requests, Worker(r)
    PROVE  Neat'
<1> USE NoneAssumption
<1>1. \A q \in Requests \ {r} :
          pc'[q] = pc[q] /\ state'[q] = state[q] /\ target'[q] = target[q]
  BY DEF Worker, WorkerBegin, WorkerAdmit, WorkerClaim, WorkerRefused, WorkerEnter,
         WorkerLeaveSession, WorkerRelease, WorkerRecord, WorkerExit, Transition, Goto, ledger,
         Typed, TypeOK
<1>2. OneHolder /\ \A q \in Requests : Holder(q) => prepared # None
  BY DEF Settled, OneHolder, Holder, Typed, Placed, StartSteps, WorkerSteps
<1>3. recovering' = {} /\ online' = Targets
  <2>1. recovering' = recovering /\ online \subseteq online'
    BY DEF Worker, WorkerBegin, WorkerAdmit, WorkerClaim, WorkerEnter, PressEnter,
           EnterRefused, WorkerLeaveSession, LeaveSession, WorkerRelease, ReleaseAuthority,
           WorkerRecord, WorkerExit, ClaimExecution, EnsureSession, manager, sessions, recovery
  <2>2. online' \subseteq Targets
    BY WorkerTyped DEF Typed, TypeOK, ManagerTypeOK
  <2> QED
    BY <2>1, <2>2 DEF Neat
<1>4. ASSUME \/ /\ Holder(r)
                /\ \A u \in Targets : line'[u] # {} => prepared' = u
                /\ Standing(r)' => line'[target'[r]] = {r}
                /\ Bare(r)' => line'[target'[r]] = {}
             \/ ~Holder(r)' /\ UNCHANGED <<line, executor, prepared>>,
             \A q \in Requests : entered'[q] \in {entered[q], {q}}
      PROVE  Neat'
  BY <1>1, <1>2, <1>3, <1>4, NeatKept
<1>5. CASE WorkerBegin(r)
  <2>1. UNCHANGED <<line, executor, prepared, entered, target>> /\ ~Bare(r)'
    BY <1>5 DEF WorkerBegin, manager, authority, sessions, history, Goto, Bare, Typed, TypeOK
  <2>2. Standing(r)' => Standing(r)
    BY <1>5 DEF WorkerBegin, Goto, Standing, Typed, TypeOK
  <2>3. Standing(r) => Holder(r)
    BY <1>5 DEF Standing, Holder
  <2>4. ~Standing(r)' => ~Holder(r)'
    BY <1>5 DEF WorkerBegin, Goto, Standing, Holder, Typed, TypeOK
  <2> QED
    BY <1>4, <2>1, <2>2, <2>3, <2>4 DEF Neat
<1>6. CASE WorkerAdmit(r) \/ WorkerClaim(r)
  <2>1. Holder(r) /\ Standing(r) /\ prepared = target[r] /\ target[r] \in Targets
    BY <1>6 DEF WorkerAdmit, WorkerClaim, Holder, Standing, Settled, OneHolder, Typed, Placed,
                WorkerSteps
  <2>2. UNCHANGED <<line, executor, prepared, entered, target>>
        /\ pc'[r] \in {"claimed", "entered"}
    BY <1>6, <2>1 DEF WorkerAdmit, WorkerClaim, ClaimExecution, EnsureSession, sessions, authority,
                history, ledger, Goto, Neat, Typed, TypeOK
  <2>3. ~Bare(r)'
    BY <1>6, <2>1, <2>2 DEF WorkerAdmit, WorkerClaim, Held, Bare
  <2> QED
    BY <1>4, <2>1, <2>2, <2>3 DEF Neat
<1>7. CASE WorkerEnter(r)
  <2>1. Holder(r) /\ Standing(r) /\ prepared = target[r] /\ target[r] \in Targets
    BY <1>7 DEF WorkerEnter, Holder, Standing, Settled, OneHolder, Typed, Placed, WorkerSteps
  <2>2. executor[target[r]] = None
    BY <1>7, <2>1 DEF WorkerEnter, Held, Holder, Settled, OneHolder, Typed, TypeOK, ManagerTypeOK
  <2>3. executing[target[r]] = None
    BY <2>1, <2>2 DEF Held, Typed, TypeOK, ManagerTypeOK
  <2>4. PressEnter(r, target[r]) /\ pc' = pc /\ target' = target
    BY <1>7, <2>1, <2>2, <2>3 DEF WorkerEnter, EnterRefused, Neat, ledger
  <2>5. /\ prepared' = prepared /\ line' = [line EXCEPT ![target[r]] = {}]
        /\ entered' = [entered EXCEPT ![r] = {r}] /\ executor'[target[r]] = r
    BY <2>1, <2>4 DEF PressEnter, authority, Neat, Typed, TypeOK, ManagerTypeOK
  <2>6. ~Standing(r)'
    BY <1>7, <2>4, <2>5 DEF WorkerEnter, Standing
  <2> QED
    BY <1>4, <2>1, <2>4, <2>5, <2>6 DEF Neat, Typed, TypeOK, ManagerTypeOK
<1>8. CASE WorkerLeaveSession(r)
  <2>1. Holder(r) /\ Bare(r) /\ prepared = target[r] /\ target[r] \in Targets
    BY <1>8 DEF WorkerLeaveSession, LeaveSession, Holder, Bare, Settled, OneHolder, Typed, Placed,
                WorkerSteps
  <2>2. UNCHANGED <<line, prepared, entered, target>> /\ pc'[r] = "release"
    BY <1>8 DEF WorkerLeaveSession, LeaveSession, authority, history, ledger, Goto, Typed, TypeOK
  <2>3. ~Standing(r)'
    BY <2>2 DEF Standing
  <2> QED
    BY <1>4, <2>1, <2>2, <2>3 DEF Neat
<1>9. CASE WorkerRelease(r)
  <2>1. Holder(r) /\ Bare(r) /\ prepared = target[r] /\ target[r] \in Targets
    BY <1>9 DEF WorkerRelease, Holder, Bare, Settled, OneHolder, Typed, Placed, WorkerSteps
  <2>2. UNCHANGED <<line, entered>> /\ pc'[r] = "record"
    BY <1>9 DEF WorkerRelease, ReleaseAuthority, sessions, history, Goto, Typed, TypeOK
  <2>3. \A u \in Targets : line[u] = {}
    BY <2>1 DEF Neat
  <2>4. ~Standing(r)' /\ ~Bare(r)'
    BY <2>2 DEF Standing, Bare
  <2> QED
    BY <1>4, <2>1, <2>2, <2>3, <2>4
<1>10. CASE WorkerRecord(r) \/ WorkerExit(r)
  <2>1. UNCHANGED <<line, executor, prepared, entered>> /\ ~Holder(r)'
    BY <1>10 DEF WorkerRecord, WorkerExit, manager, authority, sessions, history, Goto, Holder,
                 Typed, TypeOK
  <2> QED
    BY <1>4, <2>1
<1> QED
  BY <1>5, <1>6, <1>7, <1>8, <1>9, <1>10 DEF Worker

\* A stop that discards leaves no text, a command that ends leaves the prompts
\* alone, and a restart brings new ones.
LEMMA SurroundingsNeat ==
    ASSUME Typed, Settled, Settled', Typed', Neat, Quiet,
           \/ StopDiscards \/ \E r \in Requests : StopCreated(r)
           \/ \E t \in Targets : ShellEnds(t) \/ ShellForced(t) \/ ShellLost(t)
           \/ Restart
           \/ UNCHANGED vars
    PROVE  Neat'
<1> USE NoneAssumption
<1>1. CASE UNCHANGED vars \/ (\E r \in Requests : StopCreated(r))
           \/ \E t \in Targets : ShellEnds(t) \/ ShellForced(t)
  <2>1. UNCHANGED <<recovering, online, line, prepared, executor, target, state, pc, entered>>
    BY <1>1 DEF vars, StopCreated, ShellEnds, CommandEnds, ShellForced, ForceCompletion, manager,
                authority, sessions, history, recovery, ledger, runtime
  <2> QED
    BY <2>1 DEF Neat, Standing, Bare
<1>2. CASE StopDiscards
  <2>1. UNCHANGED <<recovering, online, entered>> /\ prepared' = None
        /\ \A t \in Targets : line'[t] = {}
    BY <1>2 DEF StopDiscards, DiscardPrepared, history, recovery, Neat
  <2>2. \A r \in Requests : ~Holder(r)'
    BY <2>1 DEF Settled, OneHolder, Holder, Typed, Placed, StartSteps, WorkerSteps
  <2>3. \A r \in Requests : ~Standing(r)' /\ ~Bare(r)'
    BY <2>2 DEF Standing, Bare, Holder
  <2> QED
    BY <2>1, <2>3 DEF Neat
<1>3. CASE Restart
  BY <1>3 DEF Restart, Neat, Standing, Bare, history
<1>4. \A t \in Targets : ~ShellLost(t)
  BY DEF ShellLost, Quiet
<1> QED
  BY <1>1, <1>2, <1>3, <1>4

-----------------------------------------------------------------------------
(* The theorems about quieter surroundings. *)

\* Nobody holds the authority and every prompt is empty at first.
LEMMA InitSettled == Init => AuthorityInv /\ PromptInv
  BY CancellersAssumption
  DEF Init, ManagerInit, AuthorityInv, Settled, Calm, OneHolder, Holder, TextWaits, TextGone,
      PromptInv, Neat, Standing, Bare, NotEntered, Idle

\* Every step nobody disputes leaves the authority with one command.
LEMMA StepSettled ==
    ASSUME Typed, TextOnce, RunInv, AuthorityInv, [Next]_vars
    PROVE  AuthorityInv'
<1> SUFFICES ASSUME Undisputed' PROVE Settled'
  BY DEF AuthorityInv
<1>1. Undisputed /\ Unpolled /\ Settled
  BY SameEnvironment DEF Undisputed, Unpolled, AuthorityInv
<1>2. Calm
  BY <1>1 DEF Settled
<1>3. ASSUME NEW r \in Requests, StartCall(r) PROVE Settled'
  <2>1. target[r] \in Targets
    BY <1>3 DEF Typed, Placed, StartSteps, StartCall, StartAdmit, StartClaim, StartClaimRefused,
                StartType, StartTypeRaises, StartTypeRefused
  <2> QED
    BY <1>1, <1>3, <2>1, StartSettled DEF RunInv
<1> QED
  BY <1>1, <1>2, <1>3, UndisputedNext, StartSettled, WorkerSettled, StopSettled, SurroundingsSettled
  DEF RunInv

\* Every step in quiet surroundings leaves each prompt to its command.
LEMMA StepPrompt ==
    ASSUME Typed, TextOnce, RunInv, AuthorityInv, PromptInv, [Next]_vars
    PROVE  PromptInv'
<1> SUFFICES ASSUME Quiet' PROVE Neat'
  BY DEF PromptInv
<1>1. Quiet /\ Undisputed /\ Undisputed'
  BY SameEnvironment DEF Quiet, Undisputed
<1>2. Neat /\ Settled /\ Calm /\ Settled' /\ Typed' /\ Held
  BY <1>1, StepSettled, TypedStep DEF PromptInv, AuthorityInv, Settled, RunInv
<1>3. ASSUME NEW r \in Requests, StartCall(r) PROVE Neat'
  <2>1. target[r] \in Targets
    BY <1>3 DEF Typed, Placed, StartSteps, StartCall, StartAdmit, StartClaim, StartClaimRefused,
                StartType, StartTypeRaises, StartTypeRefused
  <2> QED
    BY <1>2, <1>3, <2>1, StartNeat
<1> QED
  BY <1>1, <1>2, <1>3, UndisputedNext, StartNeat, WorkerNeat, SurroundingsNeat

\* The invariants above hold together.
LEMMA AuthorityAlways == Spec => [](AuthorityInv /\ PromptInv)
<1>1. Init => TextOnce
  BY DEF Init, ManagerInit, TextOnce, StartSteps
<1>2. TextOnce /\ Typed /\ [Next]_vars => TextOnce'
  BY TextOnceStep
<1>3. Typed /\ TextOnce /\ RunInv /\ AuthorityInv /\ PromptInv /\ [Next]_vars
        => AuthorityInv' /\ PromptInv'
  BY StepSettled, StepPrompt
<1> QED
  BY <1>1, <1>2, <1>3, InitSettled, AlwaysTyped, RunAlways, PTL DEF Spec

\* Two terminals never execute at once while nobody disputes the authority that
\* TerminalManager.prepare hands out, and while nobody polls no command of a
\* concluded row is still running.
THEOREM OneAtATime == Spec => []TerminalIsExclusive
<1>1. RunInv /\ AuthorityInv => OneCommandAtATime
  <2> SUFFICES ASSUME RunInv, AuthorityInv, Undisputed, NEW r \in Requests, NEW q \in Requests,
                      Running(r), Running(q)
               PROVE  r = q
    BY DEF OneCommandAtATime, AuthorityIsExclusive
  <2>1. Holder(r) /\ Holder(q)
    BY DEF RunInv, Held, Running, Holder
  <2> QED
    BY <2>1 DEF AuthorityInv, Settled, OneHolder
<1> QED
  BY <1>1, RunningIsNotConcluded, RunAlways, AuthorityAlways, PTL DEF TerminalIsExclusive

\* A command that stop_phase5d_execution cancelled before its Enter never reaches
\* a shell.
THEOREM CancelledNeverRuns == Spec => []CancelledBeforeEnterNeverRuns
<1>1. AuthorityInv => CancelledBeforeEnterNeverRuns
  BY DEF AuthorityInv, Settled, TextGone, CancelledBeforeEnterNeverRuns
<1> QED
  BY <1>1, AuthorityAlways, PTL

\* In quiet surroundings Enter delivers the command it is pressed for.
THEOREM EntersItsOwnText == Spec => []EnterRunsOwnText
<1>1. PromptInv => EnterRunsOwnText
  BY DEF PromptInv, Neat, EnterRunsOwnText
<1> QED
  BY <1>1, AuthorityAlways, PTL
=============================================================================
