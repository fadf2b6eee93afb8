-------------------------- MODULE CommandPathsProofs --------------------------
(* What holds of CommandPaths for any terminals, external commands and jobs. *)
EXTENDS CommandPaths, TLAPS

-----------------------------------------------------------------------------
(* What the operations of TerminalManager preserve, whatever thread calls them. *)

\* Giving, using and taking back the authority over the terminals keeps types.
LEMMA AuthorityTypes ==
    ASSUME ManagerTypeOK, NEW r \in Requests, NEW t \in Targets,
           \/ ClaimAuthority(t) \/ TypeCommand(r, t) \/ TypeCommandRaises(r, t)
           \/ ClaimExecution(t) \/ ReleaseAuthority
    PROVE  ManagerTypeOK'
<1> USE DEF ManagerTypeOK, authority, execution, sessions, history, recovery
<1>1. CASE ClaimAuthority(t)
  BY <1>1 DEF ClaimAuthority, EnsureSession
<1>2. CASE TypeCommand(r, t)
  BY <1>2 DEF TypeCommand
<1>3. CASE TypeCommandRaises(r, t)
  BY <1>3 DEF TypeCommandRaises
<1>4. CASE ClaimExecution(t)
  BY <1>4 DEF ClaimExecution, EnsureSession
<1>5. CASE ReleaseAuthority
  BY <1>5 DEF ReleaseAuthority
<1> QED
  BY <1>1, <1>2, <1>3, <1>4, <1>5

\* Pressing Enter and what follows it keep the types of the manager.
LEMMA SessionTypes ==
    ASSUME ManagerTypeOK, NEW r \in Requests, NEW t \in Targets,
           PressEnter(r, t) \/ EnterRefused(r, t) \/ LeaveSession(r, t)
    PROVE  ManagerTypeOK'
<1> USE DEF ManagerTypeOK, authority, execution, sessions, history, recovery,
            Report, DropExecution, Outcomes
<1>1. CASE PressEnter(r, t)
  BY <1>1 DEF PressEnter
<1>2. CASE EnterRefused(r, t)
  BY <1>2 DEF EnterRefused
<1>3. CASE LeaveSession(r, t)
  BY <1>3 DEF LeaveSession
<1> QED
  BY <1>1, <1>2, <1>3

\* What happens to a shell keeps the types of the manager.
LEMMA ShellTypes ==
    ASSUME ManagerTypeOK, NEW t \in Targets,
           CommandEnds(t) \/ ForceCompletion(t) \/ SessionDies(t)
    PROVE  ManagerTypeOK'
<1> USE DEF ManagerTypeOK, authority, execution, sessions, history, recovery,
            Report, DropExecution, Outcomes
<1>1. CASE CommandEnds(t)
  BY <1>1 DEF CommandEnds
<1>2. CASE ForceCompletion(t)
  BY <1>2 DEF ForceCompletion
<1>3. CASE SessionDies(t)
  BY <1>3 DEF SessionDies
<1> QED
  BY <1>1, <1>2, <1>3

\* Erasing what is prepared keeps them too.
LEMMA DiscardTypes == ManagerTypeOK /\ DiscardPrepared => ManagerTypeOK'
  BY DEF ManagerTypeOK, DiscardPrepared, execution, history, recovery

\* Cancelling and recycling a terminal keep the types of the manager.
LEMMA RecoveryTypes ==
    ASSUME ManagerTypeOK, NEW t \in Targets, NEW who \in Recyclers, NEW c \in Cancellers,
           \/ MarkRecovering(t) \/ SignalCancel(c, t) \/ SignalCancelFails(t)
           \/ RecycleBegin(t, who) \/ RecycleClose(t, who) \/ RecycleFinish(t, who)
    PROVE  ManagerTypeOK'
<1> USE RecyclersAssumption
    DEF ManagerTypeOK, authority, execution, sessions, history, recovery,
        Report, DropExecution, Outcomes
<1>1. CASE MarkRecovering(t)
  BY <1>1 DEF MarkRecovering
<1>2. CASE SignalCancel(c, t)
  BY <1>2 DEF SignalCancel
<1>3. CASE SignalCancelFails(t)
  BY <1>3 DEF SignalCancelFails
<1>4. CASE RecycleBegin(t, who)
  BY <1>4 DEF RecycleBegin
<1>5. CASE RecycleClose(t, who)
  BY <1>5 DEF RecycleClose
<1>6. CASE RecycleFinish(t, who)
  BY <1>6 DEF RecycleFinish, EnsureSession
<1> QED
  BY <1>1, <1>2, <1>3, <1>4, <1>5, <1>6

\* Telling a thread how its command ended keeps the types of the manager.
LEMMA ReportTypes ==
    ASSUME ManagerTypeOK, NEW r \in Requests, NEW result \in Outcomes, Report(r, result),
           UNCHANGED <<authority, online, execution, executor, line, history, recovery>>
    PROVE  ManagerTypeOK'
  BY DEF ManagerTypeOK, Report, authority, execution, history, recovery

\* So does starting a session.
LEMMA EnsureTypes ==
    ASSUME ManagerTypeOK, NEW t \in Targets, EnsureSession(t),
           UNCHANGED <<authority, history, recovery>>
    PROVE  ManagerTypeOK'
  BY DEF ManagerTypeOK, EnsureSession, authority, execution, history, recovery

\* Steps that do not touch the manager keep its types.
LEMMA ManagerUnchangedTypes == ManagerTypeOK /\ UNCHANGED manager => ManagerTypeOK'
  BY DEF ManagerTypeOK, manager, authority, sessions, execution, history, recovery

-----------------------------------------------------------------------------
(* Type correctness.  The engine drives one job at a time, its verdict is one *)
(* a row can have, and a canceller knows what it looked at.                   *)

Driven ==
    /\ \A j \in Jobs : pc[j] # "idle" => activeJob = j
    /\ \A j \in Jobs : pc[j] = "conclude" => verdict \in ConcludedJob

Placed ==
    /\ \A c \in Cancellers : cancel[c].at = "signal" => cancel[c].on \in Targets
    /\ \A c \in Cancellers : cancel[c].at \in {"request", "pending"} => cancel[c].on \in Jobs

Typed == TypeOK /\ Driven /\ Placed

(* At the start every variable has its type and every path is idle.         *)
LEMMA InitTyped == Init => Typed
  BY PathsAssumption, NoneAssumption
  DEF Init, Typed, TypeOK, Driven, Placed, ManagerInit, ManagerTypeOK, Outcomes, NotEntered,
      Idle, Free

\* Driving a terminal keeps the types of the manager, whichever thread does it.
LEMMA TerminalManagerTyped ==
    ASSUME ManagerTypeOK, NEW r \in Requests, Terminal(r)
    PROVE  ManagerTypeOK'
<1>1. TargetOf[r] \in Targets
  BY PathsAssumption
<1>2. CASE PrepareAdmit(r)
  BY <1>2, ManagerUnchangedTypes DEF PrepareAdmit
<1>3. CASE PrepareClaim(r)
  <2>1. CASE ClaimAuthority(TargetOf[r])
    BY <1>1, <2>1, AuthorityTypes
  <2>2. CASE EnsureSession(TargetOf[r]) /\ UNCHANGED <<authority, history, recovery>>
    BY <1>1, <2>2, EnsureTypes
  <2>3. CASE UNCHANGED manager
    BY <2>3, ManagerUnchangedTypes
  <2> QED
    BY <1>3, <2>1, <2>2, <2>3 DEF PrepareClaim, manager
<1>4. CASE PrepareType(r)
  BY <1>1, <1>4, AuthorityTypes, DiscardTypes DEF PrepareType
<1>5. CASE ExecuteAdmit(r)
  <2>1. CASE UNCHANGED manager
    BY <2>1, ManagerUnchangedTypes
  <2>2. CASE ~UNCHANGED manager
    BY <1>5, <2>2, ReportTypes DEF ExecuteAdmit, Refused, Outcomes, manager
  <2> QED
    BY <2>1, <2>2
<1>6. CASE ExecuteClaim(r)
  <2>1. CASE ClaimExecution(TargetOf[r])
    BY <1>1, <2>1, AuthorityTypes
  <2>2. CASE ~ClaimExecution(TargetOf[r])
    BY <1>6, <2>2, ReportTypes DEF ExecuteClaim, Refused, Outcomes
  <2> QED
    BY <2>1, <2>2
<1>7. CASE ExecuteEnter(r)
  BY <1>1, <1>7, SessionTypes DEF ExecuteEnter
<1>8. CASE ExecuteLeave(r)
  BY <1>1, <1>8, SessionTypes DEF ExecuteLeave
<1>9. CASE ExecuteRelease(r)
  BY <1>1, <1>9, AuthorityTypes DEF ExecuteRelease
<1> QED
  BY <1>2, <1>3, <1>4, <1>5, <1>6, <1>7, <1>8, <1>9 DEF Terminal

\* Where the thread that drives a terminal goes, and what it leaves alone.
LEMMA TerminalGoes ==
    ASSUME NEW r \in Requests, Terminal(r)
    PROVE  /\ pc[r] \in PrepareSteps \cup ExecuteSteps
           /\ \/ pc' = pc
              \/ \E step \in PrepareSteps \cup ExecuteSteps \cup {"raised", "typed", "told"} :
                    pc' = [pc EXCEPT ![r] = step]
           /\ presses' = presses \/ presses' = [presses EXCEPT ![r] = @ + 1]
           /\ UNCHANGED terminalFrame
  BY DEF Terminal, PrepareAdmit, PrepareClaim, PrepareType, ExecuteAdmit, ExecuteClaim,
         ExecuteEnter, ExecuteLeave, ExecuteRelease, Refused, Goto, PrepareSteps, ExecuteSteps

\* So it keeps the types of everything.
LEMMA TerminalTyped ==
    ASSUME Typed, NEW r \in Requests, Terminal(r)
    PROVE  Typed'
<1>1. ManagerTypeOK'
  BY TerminalManagerTyped DEF Typed, TypeOK
<1>2. presses' \in [Requests -> Nat]
  BY TerminalGoes DEF Typed, TypeOK
<1>3. pc' \in [Requests -> {"idle", "raised", "typed", "marked", "preview", "run", "told",
                          "conclude", "look", "drop", "close"} \cup PrepareSteps \cup ExecuteSteps]
  BY TerminalGoes DEF Typed, TypeOK
<1>4. UNCHANGED terminalFrame
  BY TerminalGoes
<1>5. TypeOK'
  BY <1>1, <1>2, <1>3, <1>4 DEF Typed, TypeOK, terminalFrame, external, rows, jobs, callers
<1>6. Driven'
  <2>1. pc[r] # "idle" /\ pc[r] # "conclude" /\ pc'[r] # "conclude"
    BY TerminalGoes DEF Typed, TypeOK, PrepareSteps, ExecuteSteps
  <2>2. \A j \in Jobs : j # r => pc'[j] = pc[j]
    BY TerminalGoes, PathsAssumption DEF Typed, TypeOK
  <2> QED
    BY <1>4, <2>1, <2>2 DEF Typed, Driven, terminalFrame, jobs
<1>7. Placed'
  BY <1>4 DEF Typed, Placed, terminalFrame, callers
<1> QED
  BY <1>5, <1>6, <1>7 DEF Typed

\* So do the calls of the external path and the worker.
LEMMA ExternalTyped ==
    ASSUME Typed, DiscardExternal \/ \E p \in Externals : External(p)
    PROVE  Typed'
<1> USE PathsAssumption
    DEF Typed, TypeOK, Driven, Placed, Goto, ExternalOnly, SetPreparation, SetExecution, Leave,
        Free, rows, jobs, callers, record
<1>1. ASSUME NEW p \in Externals, NEW op \in {"prepare", "async"},
             PrepareAgain(op, p) \/ PrepareExternal(op, p)
      PROVE  Typed'
  <2>1. CASE PrepareAgain(op, p)
    BY <2>1, ManagerUnchangedTypes DEF PrepareAgain
  <2>2. CASE PrepareExternal(op, p)
    BY <2>2, ManagerUnchangedTypes DEF PrepareExternal, PrepareSteps
  <2> QED
    BY <1>1, <2>1, <2>2
<1>2. ASSUME NEW p \in Externals, PrepareRaised(p) \/ PrepareMark(p) \/ PrepareRemember(p)
      PROVE  Typed'
  BY <1>2, ManagerUnchangedTypes DEF PrepareRaised, PrepareMark, PrepareRemember
<1>3. ASSUME NEW p \in Externals, AsyncReserve(p)
      PROVE  Typed'
  BY <1>3, ManagerUnchangedTypes DEF AsyncReserve
<1>4. ASSUME NEW p \in Externals, ExecuteExternal(p) \/ WorkerBegin(p)
      PROVE  Typed'
  BY <1>4, ManagerUnchangedTypes DEF ExecuteExternal, WorkerBegin, Execute, ExecuteSteps
<1>5. ASSUME NEW p \in Externals, ExternalConclude(p)
      PROVE  Typed'
  <2>1. ManagerTypeOK'
    BY <1>5 DEF ExternalConclude, Report, Outcomes, ManagerTypeOK, authority, sessions,
                execution, history, recovery
  <2> QED
    BY <1>5, <2>1 DEF ExternalConclude
<1>6. CASE DiscardExternal
  BY <1>6, DiscardTypes DEF DiscardExternal, DiscardRemembered
<1> QED
  BY <1>1, <1>2, <1>3, <1>4, <1>5, <1>6 DEF External

\* The queue of jobs keeps types: submission, approval and the engine taking one.
LEMMA QueueTyped ==
    ASSUME Typed, JobBegin \/ \E j \in Jobs : Submit(j) \/ Approve(j) \/ ClaimNext(j)
    PROVE  Typed'
<1> USE PathsAssumption
    DEF Typed, TypeOK, Driven, Placed, Goto, JobsOnly, SetJob, external, rows, callers
<1>1. ASSUME NEW j \in Jobs, Submit(j) \/ Approve(j) \/ ClaimNext(j)
      PROVE  Typed'
  BY <1>1, ManagerUnchangedTypes DEF Submit, Approve, ClaimNext
<1>2. CASE JobBegin
  BY <1>2, ManagerUnchangedTypes, NoneAssumption DEF JobBegin, PrepareSteps
<1> QED
  BY <1>1, <1>2

\* The engine's thread keeps types: its verdict is a state a row can end in.
LEMMA RunJobTyped ==
    ASSUME Typed, NEW j \in Jobs, RunJob(j)
    PROVE  Typed'
<1> USE PathsAssumption
    DEF Typed, TypeOK, Driven, Placed, Goto, JobsOnly, JobStep, SetJob, Conclude, Unless,
        ConcludedJob, external, rows, callers
<1>1. CASE JobPrepareRaised(j) \/ JobMarkPrepared(j)
  BY <1>1, ManagerUnchangedTypes DEF JobPrepareRaised, JobMarkPrepared
<1>2. CASE JobPreview(j) \/ JobRun(j)
  BY <1>2, ManagerUnchangedTypes DEF JobPreview, JobRun, ExecuteSteps
<1>3. CASE JobTold(j)
  <2>1. ManagerTypeOK'
    BY <1>3, ReportTypes DEF JobTold, Outcomes
  <2>2. verdict' \in ConcludedJob
    BY <1>3 DEF JobTold
  <2> QED
    BY <1>3, <2>1, <2>2 DEF JobTold
<1>4. CASE JobConclude(j)
  BY <1>4, ManagerUnchangedTypes DEF JobConclude
<1>5. CASE JobLook(j) \/ JobClose(j)
  BY <1>5, ManagerUnchangedTypes DEF JobLook, JobClose
<1>6. CASE JobDrop(j)
  BY <1>6, DiscardTypes DEF JobDrop
<1> QED
  BY <1>1, <1>2, <1>3, <1>4, <1>5, <1>6 DEF RunJob

\* Cancels and the stop button keep types.
LEMMA CancelTyped ==
    ASSUME Typed, \/ \E j \in Jobs : CancelCall(j)
                  \/ ForceStop \/ ForceDiscard
                  \/ \E c \in Cancellers : Cancelling(c)
    PROVE  Typed'
<1> USE PathsAssumption
    DEF Typed, TypeOK, Driven, Placed, CancelAt, CancelDone, CancelOnly, JobsRest, Idle,
        external, rows, record
<1>1. ASSUME NEW j \in Jobs, CancelCall(j) PROVE Typed'
  BY <1>1, ManagerUnchangedTypes DEF CancelCall
<1>2. CASE ForceStop
  BY <1>2, ManagerUnchangedTypes, NoneAssumption DEF ForceStop
<1>3. CASE ForceDiscard
  <2>1. ManagerTypeOK'
    BY <1>3, DiscardTypes, ManagerUnchangedTypes DEF ForceDiscard, DiscardRemembered
  <2> QED
    BY <1>3, <2>1 DEF ForceDiscard, DiscardRemembered, SetPreparation, jobs
<1>4. ASSUME NEW c \in Cancellers, CancelRequest(c) \/ CancelPending(c) PROVE Typed'
  BY <1>4, ManagerUnchangedTypes DEF CancelRequest, CancelPending, SetJob, ConcludedJob
<1>5. ASSUME NEW c \in Cancellers, CancelLook(c) PROVE Typed'
  <2>1. CASE active # None /\ executing[active] # None
    <3>1. active \in Targets
      BY <2>1 DEF ManagerTypeOK
    <3>2. ManagerTypeOK'
      BY <1>5, <2>1, <3>1, RecoveryTypes DEF CancelLook
    <3> QED
      BY <1>5, <2>1, <3>1, <3>2 DEF CancelLook, jobs
  <2>2. CASE ~(active # None /\ executing[active] # None)
    BY <1>5, <2>2, ManagerUnchangedTypes DEF CancelLook, jobs
  <2> QED
    BY <2>1, <2>2
<1>6. ASSUME NEW c \in Cancellers, CancelSignal(c) PROVE Typed'
  <2>1. cancel[c].on \in Targets
    BY <1>6 DEF CancelSignal
  <2>2. ManagerTypeOK'
    BY <1>6, <2>1, RecoveryTypes DEF CancelSignal
  <2> QED
    BY <1>6, <2>2 DEF CancelSignal, jobs
<1>7. ASSUME NEW c \in Cancellers, CancelDiscard(c) PROVE Typed'
  <2>1. ManagerTypeOK'
    BY <1>7, DiscardTypes DEF CancelDiscard
  <2> QED
    BY <1>7, <2>1 DEF CancelDiscard, jobs
<1> QED
  BY <1>1, <1>2, <1>3, <1>4, <1>5, <1>6, <1>7 DEF Cancelling

\* The polled snapshot, recycles, the shells and a restart keep types.
LEMMA SurroundingsTyped ==
    ASSUME Typed,
           \/ Snapshot \/ Restart
           \/ \E t \in Targets : ShellEnds(t) \/ ShellForced(t) \/ ShellLost(t)
           \/ \E t \in Targets, who \in Recyclers : Recycle(t, who)
    PROVE  Typed'
<1> USE PathsAssumption
    DEF Typed, TypeOK, Driven, Placed, SnapshotOnly, external, rows, jobs, callers, record
<1>1. CASE SnapshotRead \/ SnapshotRecover \/ SnapshotForget \/ SnapshotAwait
  <2>1. CASE SnapshotRead
    BY <2>1, ManagerUnchangedTypes DEF SnapshotRead, ManagerTypeOK
  <2>2. CASE SnapshotRecover
    BY <2>2, ManagerUnchangedTypes DEF SnapshotRecover, FailLive
  <2>3. CASE SnapshotForget \/ SnapshotAwait
    BY <2>3, ManagerUnchangedTypes DEF SnapshotForget, SnapshotAwait
  <2> QED
    BY <1>1, <2>1, <2>2, <2>3
<1>2. CASE SnapshotOwner \/ SnapshotRecycle
  <2>1. ManagerTypeOK'
    BY <1>2 DEF SnapshotOwner, SnapshotRecycle, ManagerTypeOK, manager, authority, sessions,
                execution, history, recovery
  <2> QED
    BY <1>2, <2>1 DEF SnapshotOwner, SnapshotRecycle
<1>3. CASE Restart
  <2>1. ManagerTypeOK'
    BY <1>3 DEF Restart, ManagerTypeOK, Outcomes, history
  <2> QED
    BY <1>3, <2>1 DEF Restart, FailLive, Idle, Free, ConcludedJob
<1>4. ASSUME NEW t \in Targets, ShellEnds(t) \/ ShellForced(t) \/ ShellLost(t)
      PROVE  Typed'
  <2>1. ManagerTypeOK'
    BY <1>4, ShellTypes DEF ShellEnds, ShellForced, ShellLost
  <2> QED
    BY <1>4, <2>1 DEF ShellEnds, ShellForced, ShellLost, Others
<1>5. ASSUME NEW t \in Targets, NEW who \in Recyclers, Recycle(t, who)
      PROVE  Typed'
  <2>1. ManagerTypeOK'
    BY <1>5, RecoveryTypes DEF Recycle
  <2> QED
    BY <1>5, <2>1 DEF Recycle, Others
<1> QED
  BY <1>1, <1>2, <1>3, <1>4, <1>5 DEF Snapshot

(* A step of any path keeps the types, the drivers and the places.          *)
LEMMA StepTyped == Typed /\ [Next]_vars => Typed'
<1> SUFFICES ASSUME Typed, [Next]_vars PROVE Typed'
  OBVIOUS
<1>1. CASE UNCHANGED vars
  BY <1>1, ManagerUnchangedTypes
  DEF Typed, TypeOK, Driven, Placed, vars, external, rows, jobs, callers, record
<1>2. CASE DiscardExternal \/ \E p \in Externals : External(p)
  BY <1>2, ExternalTyped
<1>3. CASE \E j \in Jobs : RunJob(j)
  BY <1>3, RunJobTyped
<1>4. CASE JobBegin \/ \E j \in Jobs : Submit(j) \/ Approve(j) \/ ClaimNext(j)
  BY <1>4, QueueTyped
<1>5. CASE \E r \in Requests : Terminal(r)
  BY <1>5, TerminalTyped
<1>6. CASE \/ \E j \in Jobs : CancelCall(j)
           \/ ForceStop \/ ForceDiscard
           \/ \E c \in Cancellers : Cancelling(c)
  BY <1>6, CancelTyped
<1>7. CASE \/ Snapshot \/ Restart
           \/ \E t \in Targets : ShellEnds(t) \/ ShellForced(t) \/ ShellLost(t)
           \/ \E t \in Targets, who \in Recyclers : Recycle(t, who)
  BY <1>7, SurroundingsTyped
<1> QED
  BY <1>1, <1>2, <1>3, <1>4, <1>5, <1>6, <1>7 DEF Next

\* Rows, callers and threads keep their types (prepare_external, JobStore,
\* ExecutionEngine and what surrounds them).
THEOREM TypeCorrect == Spec => []TypeOK
<1>1. Typed => TypeOK
  BY DEF Typed
<1> QED
  BY <1>1, InitTyped, StepTyped, PTL DEF Spec

-----------------------------------------------------------------------------
(* Enter is pressed once.  A command is fresh until its execution begins; the *)
(* row that says so never goes back, so that whoever stands before Enter is   *)
(* the first to do so.  While a thread waits for its shell, it holds the      *)
(* session's lock.                                                            *)

Unrun == {"NONE", "PENDING", "APPROVED", "PREPARING", "PREPARED"}

Fresh(r) == IF r \in Jobs THEN job[r] \in Unrun ELSE execRow[r] \in {"NONE", "RESERVED"}

InExecution(r) == pc[r] \in ExecuteSteps \cup {"told"}

FreshIsUntouched == \A r \in Requests : Fresh(r) => presses[r] = 0 /\ ~InExecution(r)

OnePress ==
    \A r \in Requests :
        /\ presses[r] <= 1
        /\ pc[r] \in {"admitted", "claimed"} => presses[r] = 0
        /\ pc[r] = "entered" => presses[r] = 0 \/ executor[TargetOf[r]] = r

WithdrawnIsUntouched ==
    \A j \in withdrawn : ~Fresh(j) /\ presses[j] = 0 /\ ~InExecution(j)

EnterInv == FreshIsUntouched /\ OnePress /\ WithdrawnIsUntouched

(* Before the first command no Enter has been pressed.                      *)
LEMMA InitEnter == Init => EnterInv
  BY PathsAssumption
  DEF Init, EnterInv, FreshIsUntouched, OnePress, WithdrawnIsUntouched, InExecution, ExecuteSteps

\* Steps that drive no execution and put no row back keep all of it.
LEMMA EnterKept ==
    ASSUME TypeOK, EnterInv, UNCHANGED <<presses, executor, withdrawn>>,
           \A r \in Requests : Fresh(r)' => Fresh(r),
           \A r \in Requests : pc'[r] = pc[r] \/ pc'[r] \notin ExecuteSteps \cup {"told"}
    PROVE  EnterInv'
  BY PathsAssumption
  DEF TypeOK, EnterInv, FreshIsUntouched, OnePress, WithdrawnIsUntouched, InExecution, ExecuteSteps

\* Preparing and driving the terminal: the lock is free when Enter is pressed,
\* and the thread that pressed it leaves at once when it is told.
LEMMA TerminalEnter ==
    ASSUME Typed, EnterInv, NEW r \in Requests, Terminal(r)
    PROVE  EnterInv'
<1> USE PathsAssumption DEF Typed, TypeOK, terminalFrame, external, rows, jobs
<1>1. CASE PrepareAdmit(r) \/ PrepareClaim(r) \/ PrepareType(r)
  <2>1. UNCHANGED <<presses, executor, withdrawn, job, execRow>>
    BY <1>1 DEF PrepareAdmit, PrepareClaim, PrepareType, ClaimAuthority, EnsureSession,
                TypeCommand, TypeCommandRaises, DiscardPrepared, manager, sessions
  <2>2. \A q \in Requests : pc'[q] = pc[q] \/ pc'[q] \notin ExecuteSteps \cup {"told"}
    BY <1>1 DEF PrepareAdmit, PrepareClaim, PrepareType, Goto, ExecuteSteps
  <2> QED
    BY <2>1, <2>2, EnterKept DEF Fresh
<1>2. CASE ExecuteAdmit(r) \/ ExecuteClaim(r) \/ ExecuteRelease(r)
  <2>1. UNCHANGED <<presses, executor, withdrawn, job, execRow>>
    BY <1>2 DEF ExecuteAdmit, ExecuteClaim, ExecuteRelease, ClaimExecution, EnsureSession,
                ReleaseAuthority, Refused, sessions
  <2>2. /\ InExecution(r)
        /\ \E step \in {"told", "claimed", "entered"} : pc' = [pc EXCEPT ![r] = step]
        /\ pc[r] # "release" => presses[r] = 0
        /\ pc[r] = "release" => pc' = [pc EXCEPT ![r] = "told"]
    BY <1>2 DEF ExecuteAdmit, ExecuteClaim, ExecuteRelease, Refused, Goto, InExecution,
                ExecuteSteps, EnterInv, OnePress
  <2> QED
    BY <2>1, <2>2 DEF EnterInv, FreshIsUntouched, OnePress, WithdrawnIsUntouched, Fresh,
                      InExecution, ExecuteSteps
<1>3. CASE ExecuteEnter(r)
  <2>1. InExecution(r) /\ ~Fresh(r) /\ r \notin withdrawn /\ presses[r] = 0
    BY <1>3 DEF ExecuteEnter, InExecution, ExecuteSteps, EnterInv, FreshIsUntouched,
                WithdrawnIsUntouched, OnePress
  <2>2. CASE PressEnter(r, TargetOf[r])
    BY <1>3, <2>1, <2>2, NoneAssumption
    DEF ExecuteEnter, PressEnter, EnterRefused, ManagerTypeOK, EnterInv, FreshIsUntouched,
        OnePress, WithdrawnIsUntouched, Fresh, InExecution, ExecuteSteps
  <2>3. CASE EnterRefused(r, TargetOf[r])
    BY <1>3, <2>1, <2>3
    DEF ExecuteEnter, PressEnter, EnterRefused, ManagerTypeOK, Goto, EnterInv, FreshIsUntouched,
        OnePress, WithdrawnIsUntouched, Fresh, InExecution, ExecuteSteps
  <2> QED
    BY <1>3, <2>2, <2>3 DEF ExecuteEnter
<1>4. CASE ExecuteLeave(r)
  BY <1>4
  DEF ExecuteLeave, LeaveSession, ManagerTypeOK, Goto, EnterInv, FreshIsUntouched, OnePress,
      WithdrawnIsUntouched, Fresh, InExecution, ExecuteSteps
<1> QED
  BY <1>1, <1>2, <1>3, <1>4 DEF Terminal

\* A worker, or a call, that begins an execution finds its row fresh; every
\* other section leaves rows fresh or puts them out of it.
LEMMA ExternalEnter ==
    ASSUME Typed, EnterInv, DiscardExternal \/ \E p \in Externals : External(p)
    PROVE  EnterInv'
<1> USE PathsAssumption DEF Typed, TypeOK, ExternalOnly, manager, sessions, jobs, record
<1>1. ASSUME NEW p \in Externals, NEW op \in {"prepare", "async"},
             PrepareAgain(op, p) \/ PrepareExternal(op, p)
      PROVE  EnterInv'
  <2>1. UNCHANGED <<presses, executor, withdrawn, job, execRow>>
    BY <1>1 DEF PrepareAgain, PrepareExternal, rows
  <2>2. \A q \in Requests : pc'[q] = pc[q] \/ pc'[q] \notin ExecuteSteps \cup {"told"}
    BY <1>1 DEF PrepareAgain, PrepareExternal, Goto, ExecuteSteps
  <2> QED
    BY <2>1, <2>2, EnterKept DEF Fresh
<1>2. ASSUME NEW p \in Externals, PrepareRaised(p) \/ PrepareMark(p) \/ PrepareRemember(p)
      PROVE  EnterInv'
  <2>1. UNCHANGED <<presses, executor, withdrawn, job, execRow>>
    BY <1>2 DEF PrepareRaised, PrepareMark, PrepareRemember, rows
  <2>2. \A q \in Requests : pc'[q] = pc[q] \/ pc'[q] \notin ExecuteSteps \cup {"told"}
    BY <1>2 DEF PrepareRaised, PrepareMark, PrepareRemember, Goto, Leave, ExecuteSteps
  <2> QED
    BY <2>1, <2>2, EnterKept DEF Fresh
<1>3. ASSUME NEW p \in Externals, AsyncReserve(p)
      PROVE  EnterInv'
  <2>1. \A q \in Requests : Fresh(q)' => Fresh(q)
    BY <1>3 DEF AsyncReserve, SetExecution, Fresh
  <2> QED
    BY <1>3, <2>1, EnterKept DEF AsyncReserve
<1>4. ASSUME NEW p \in Externals, Fresh(p), Execute(p),
             UNCHANGED <<presses, executor, withdrawn, job>>
      PROVE  EnterInv'
  BY <1>4 DEF Execute, SetExecution, Goto, EnterInv, FreshIsUntouched, OnePress,
              WithdrawnIsUntouched, Fresh, InExecution, ExecuteSteps
<1>5. ASSUME NEW p \in Externals, ExecuteExternal(p)
      PROVE  EnterInv'
  BY <1>4, <1>5 DEF ExecuteExternal, Fresh
<1>6. ASSUME NEW p \in Externals, WorkerBegin(p)
      PROVE  EnterInv'
  <2>1. CASE execRow[p] = "RESERVED" /\ remembered = p
    BY <1>4, <1>6, <2>1 DEF WorkerBegin, Fresh
  <2>2. CASE ~(execRow[p] = "RESERVED" /\ remembered = p)
    <3>1. \A q \in Requests : Fresh(q)' => Fresh(q)
      BY <1>6, <2>2 DEF WorkerBegin, SetExecution, Fresh
    <3> QED
      BY <1>6, <2>2, <3>1, EnterKept DEF WorkerBegin
  <2> QED
    BY <2>1, <2>2
<1>7. ASSUME NEW p \in Externals, ExternalConclude(p)
      PROVE  EnterInv'
  <2>1. \A q \in Requests : Fresh(q)' => Fresh(q)
    BY <1>7 DEF ExternalConclude, SetExecution, Fresh
  <2>2. \A q \in Requests : pc'[q] = pc[q] \/ pc'[q] \notin ExecuteSteps \cup {"told"}
    BY <1>7 DEF ExternalConclude, Goto, Leave, ExecuteSteps
  <2> QED
    BY <1>7, <2>1, <2>2, EnterKept DEF ExternalConclude
<1>8. CASE DiscardExternal
  BY <1>8, EnterKept DEF DiscardExternal, DiscardRemembered, DiscardPrepared, Fresh
<1> QED
  BY <1>1, <1>2, <1>3, <1>5, <1>6, <1>7, <1>8 DEF External

\* A job's row is put out of its fresh states before its text is entered, and
\* nothing that concludes it puts it back.
LEMMA QueueEnter ==
    ASSUME Typed, EnterInv, JobBegin \/ \E j \in Jobs : Submit(j) \/ Approve(j) \/ ClaimNext(j)
    PROVE  EnterInv'
<1> USE PathsAssumption DEF Typed, TypeOK, JobsOnly, manager, sessions, external, rows
<1>1. UNCHANGED <<presses, executor, withdrawn, execRow>>
  BY DEF JobBegin, Submit, Approve, ClaimNext
<1>2. \A q \in Requests : Fresh(q)' => Fresh(q)
  BY <1>1 DEF JobBegin, Submit, Approve, ClaimNext, SetJob, Fresh, Unrun
<1>3. \A q \in Requests : pc'[q] = pc[q] \/ pc'[q] \notin ExecuteSteps \cup {"told"}
  BY DEF JobBegin, Submit, Approve, ClaimNext, Goto, ExecuteSteps
<1> QED
  BY <1>1, <1>2, <1>3, EnterKept

(* The steps of a job keep the facts about Enter.                           *)
LEMMA RunJobEnter ==
    ASSUME Typed, EnterInv, NEW j \in Jobs, RunJob(j)
    PROVE  EnterInv'
<1> USE PathsAssumption
    DEF Typed, TypeOK, JobsOnly, JobStep, manager, sessions, external, rows
<1>1. CASE JobRun(j) /\ job[j] = "PREPARED"
  BY <1>1 DEF JobRun, SetJob, Goto, EnterInv, FreshIsUntouched, OnePress, WithdrawnIsUntouched,
              Fresh, Unrun, InExecution, ExecuteSteps
<1>2. CASE ~(JobRun(j) /\ job[j] = "PREPARED")
  <2>1. UNCHANGED <<presses, executor, withdrawn, execRow>>
    BY DEF RunJob, JobPrepareRaised, JobMarkPrepared, JobPreview, JobRun, JobTold, JobConclude,
           JobLook, JobDrop, JobClose, DiscardPrepared
  <2>2. \A q \in Requests : pc'[q] = pc[q] \/ pc'[q] \notin ExecuteSteps \cup {"told"}
    BY <1>2 DEF RunJob, JobPrepareRaised, JobMarkPrepared, JobPreview, JobRun, JobTold,
           JobConclude, JobLook, JobDrop, JobClose, Conclude, Goto, ExecuteSteps
  <2>3. job' = job \/ (job[j] \in Unrun /\ job' = [job EXCEPT ![j] = "PREPARED"])
                   \/ \E how \in ConcludedJob : job' = [job EXCEPT ![j] = how]
    BY <1>2 DEF RunJob, JobPrepareRaised, JobMarkPrepared, JobPreview, JobRun, JobTold,
           JobConclude, JobLook, JobDrop, JobClose, SetJob, Unless, Driven, Unrun, ConcludedJob
  <2>4. \A q \in Requests : Fresh(q)' => Fresh(q)
    BY <2>1, <2>3 DEF Fresh, Unrun, ConcludedJob
  <2> QED
    BY <2>1, <2>2, <2>4, EnterKept
<1> QED
  BY <1>1, <1>2

\* A cancel withdraws a job in the store only while it is fresh.
LEMMA CancelEnter ==
    ASSUME Typed, EnterInv,
           \/ \E j \in Jobs : CancelCall(j)
           \/ ForceStop \/ ForceDiscard
           \/ \E c \in Cancellers : Cancelling(c)
    PROVE  EnterInv'
<1> USE PathsAssumption DEF Typed, TypeOK
<1>1. ASSUME NEW c \in Cancellers, CancelPending(c)
      PROVE  EnterInv'
  <2>1. cancel[c].on \in Jobs
    BY <1>1 DEF CancelPending, Placed
  <2> QED
    BY <1>1, <2>1
    DEF CancelPending, CancelOnly, Withdraws, SetJob, manager, sessions, external, rows, EnterInv,
        FreshIsUntouched, OnePress, WithdrawnIsUntouched, Fresh, Unrun, InExecution, ExecuteSteps
<1>2. CASE ~(\E c \in Cancellers : CancelPending(c))
  <2>1. UNCHANGED <<presses, executor, withdrawn, job, execRow, pc>>
    BY <1>2 DEF CancelCall, ForceStop, ForceDiscard, Cancelling, CancelRequest, CancelLook,
        CancelSignal, CancelDiscard, CancelOnly, JobsRest, DiscardRemembered, DiscardPrepared,
        MarkRecovering, SignalCancel, SignalCancelFails, manager, sessions, external, rows, record
  <2> QED
    BY <2>1, EnterKept DEF Fresh
<1> QED
  BY <1>1, <1>2

\* The rest frees no lock of a session, and a restart forgets every thread.
LEMMA SurroundingsEnter ==
    ASSUME Typed, EnterInv,
           \/ Snapshot \/ Restart
           \/ \E t \in Targets : ShellEnds(t) \/ ShellForced(t) \/ ShellLost(t)
           \/ \E t \in Targets, who \in Recyclers : Recycle(t, who)
    PROVE  EnterInv'
<1> USE PathsAssumption DEF Typed, TypeOK
<1>1. CASE Restart
  BY <1>1 DEF Restart, FailLive, EnterInv, FreshIsUntouched, OnePress, WithdrawnIsUntouched,
              Fresh, Unrun, InExecution, ExecuteSteps
<1>2. CASE Snapshot
  <2>1. UNCHANGED <<presses, executor, withdrawn, job, pc>>
    BY <1>2 DEF Snapshot, SnapshotRead, SnapshotOwner, SnapshotRecover, SnapshotForget,
        SnapshotRecycle, SnapshotAwait, SnapshotOnly, manager, sessions, jobs, record
  <2>2. \A q \in Requests : Fresh(q)' => Fresh(q)
    BY <1>2, <2>1 DEF Snapshot, SnapshotRead, SnapshotOwner, SnapshotRecover, SnapshotForget,
        SnapshotRecycle, SnapshotAwait, FailLive, external, rows, Fresh
  <2> QED
    BY <2>1, <2>2, EnterKept
<1>3. CASE \/ \E t \in Targets : ShellEnds(t) \/ ShellForced(t) \/ ShellLost(t)
           \/ \E t \in Targets, who \in Recyclers : Recycle(t, who)
  <2>1. UNCHANGED <<presses, executor, withdrawn, job, execRow, pc>>
    BY <1>3 DEF ShellEnds, ShellForced, ShellLost, Recycle, CommandEnds, ForceCompletion,
        SessionDies, RecycleBegin, RecycleClose, RecycleFinish, EnsureSession, Others, sessions,
        external, rows, jobs, record
  <2> QED
    BY <2>1, EnterKept DEF Fresh
<1> QED
  BY <1>1, <1>2, <1>3

(* Every step keeps the facts about Enter: one press, of the own text.      *)
LEMMA StepEnter == Typed /\ EnterInv /\ [Next]_vars => EnterInv'
<1> SUFFICES ASSUME Typed, EnterInv, [Next]_vars PROVE EnterInv'
  OBVIOUS
<1>1. CASE UNCHANGED vars
  <2>1. UNCHANGED <<presses, executor, withdrawn, job, execRow, pc>>
    BY <1>1 DEF vars, manager, sessions, external, rows, jobs, record
  <2> QED
    BY <2>1, EnterKept DEF Fresh, Typed
<1>2. CASE Next
  BY <1>2, TerminalEnter, ExternalEnter, QueueEnter, RunJobEnter, CancelEnter, SurroundingsEnter
  DEF Next
<1> QED
  BY <1>1, <1>2

(* The types and the facts about Enter hold in every reachable state.       *)
LEMMA EnterAlways == Spec => [](Typed /\ EnterInv)
  BY InitTyped, StepTyped, InitEnter, StepEnter, PTL DEF Spec

\* A job that was withdrawn in the store is never run, although the engine may
\* be preparing it (JobStore.cancel_pending, JobStore.mark_running).
THEOREM WithdrawnStaysUnrun == Spec => []WithdrawnNeverRuns
<1>1. Typed /\ EnterInv => WithdrawnNeverRuns
  BY DEF EnterInv, WithdrawnIsUntouched, WithdrawnNeverRuns
<1> QED
  BY <1>1, EnterAlways, PTL

-----------------------------------------------------------------------------
(* Enter delivers the text it is pressed for, while one path is in use and    *)
(* nobody discards, cancels or polls.  Then one thread at a time drives a     *)
(* terminal (the engine, or whoever holds _external_prepare_lock), a text     *)
(* stands on a prompt only under the authority of its terminal, and a prepared *)
(* command that may still be executed finds its own text there.               *)

Quiet ==
    /\ \A c \in Cancellers : cancel[c].at = "idle"
    /\ snap = "idle" /\ recovering = {} /\ pending = {} /\ recycler = None
    /\ online = Targets /\ completing = {}

Separate ==
    \/ /\ environment.commands \subseteq Externals
       /\ engine = None /\ activeJob = None
       /\ \A j \in Jobs : job[j] = "NONE"
    \/ /\ environment.commands \subseteq Jobs
       /\ current = {} /\ remembered = None /\ starting = {} /\ workers = {}
       /\ \A p \in Externals : pc[p] = "idle"

LockHeld == \A p \in Externals : pc[p] # "idle" => call.on = p

SessionsHeld ==
    \A t \in Targets :
        /\ executor[t] # None => pc[executor[t]] = "entered" /\ TargetOf[executor[t]] = t
        /\ executing[t] # None => executor[t] = executing[t]

\* The text of r stands on its prompt; the prompt of r is empty.
Stands(r) == \/ pc[r] \in {"typed", "marked", "preview", "run", "admitted", "claimed"}
             \/ pc[r] = "entered" /\ executor[TargetOf[r]] # r

Bare(r) == pc[r] \in {"type", "release"} \/ (pc[r] = "entered" /\ executor[TargetOf[r]] = r)

LinesKnown ==
    /\ \A t \in Targets : line[t] # {} => prepared = t
    /\ \A r \in Requests : Stands(r) => prepared = TargetOf[r] /\ line[TargetOf[r]] = {r}
    /\ \A r \in Requests : Bare(r) => prepared = TargetOf[r] /\ line[TargetOf[r]] = {}

\* A call of execute_external, or a worker, may still enter p.
Ready(p) == p \in current /\ prepRow[p] = "PREPARED" /\ execRow[p] \in {"NONE", "RESERVED"}

RowsKnown ==
    /\ \A p \in Externals : Ready(p) => prepared = TargetOf[p] /\ line[TargetOf[p]] = {p}
    /\ \A p \in Externals : pc[p] \in PrepareSteps \cup {"typed", "raised"}
                              => p \in current /\ prepRow[p] = "PREPARING"
    /\ \A p \in Externals : pc[p] = "marked" => p \in current /\ prepRow[p] = "PREPARED"
    /\ \A p \in Externals : remembered = p /\ execRow[p] \in {"NONE", "RESERVED"} => Ready(p)

OwnText == \A r \in Requests : entered[r] \in {NotEntered, {r}}

Undisturbed ==
    Quiet /\ Separate /\ LockHeld /\ SessionsHeld /\ LinesKnown /\ RowsKnown /\ OwnText

PathInv == OnePath => Undisturbed

(* With one path in use, nothing disturbs it at the start.                  *)
LEMMA InitPath == Init => PathInv
  BY PathsAssumption, NoneAssumption
  DEF Init, ManagerInit, Idle, PathInv, OnePath, Undisturbed, Quiet, Separate, LockHeld,
      SessionsHeld, LinesKnown, Stands, Bare, RowsKnown, Ready, OwnText, PrepareSteps

\* No two threads drive a terminal.
LEMMA Alone ==
    ASSUME Typed, Separate, LockHeld, NEW q \in Requests, NEW r \in Requests,
           pc[q] # "idle", pc[r] # "idle"
    PROVE  q = r
  BY PathsAssumption, NoneAssumption DEF Typed, TypeOK, Driven, Separate, LockHeld

\* What happens while nobody disturbs.
LEMMA QuietNext ==
    ASSUME Typed, OnePath, Quiet, Next
    PROVE  \/ \E p \in Externals : External(p)
           \/ JobBegin
           \/ \E j \in Jobs : Submit(j) \/ Approve(j) \/ ClaimNext(j) \/ RunJob(j)
           \/ \E r \in Requests : Terminal(r)
           \/ \E t \in Targets : ShellEnds(t)
           \/ Restart
<1> USE DEF OnePath, Quiet
<1>1. ~DiscardExternal /\ ~ForceStop /\ ~ForceDiscard /\ (\A j \in Jobs : ~CancelCall(j))
  BY PathsAssumption DEF DiscardExternal, ForceStop, ForceDiscard, CancelCall
<1>2. \A c \in Cancellers : ~Cancelling(c)
  BY DEF Cancelling, CancelRequest, CancelPending, CancelLook, CancelSignal, CancelDiscard
<1>3. ~Snapshot
  BY DEF Snapshot, SnapshotRead, SnapshotOwner, SnapshotRecover, SnapshotForget, SnapshotRecycle,
         SnapshotAwait
<1>4. \A t \in Targets : ~ShellForced(t) /\ ~ShellLost(t)
  BY DEF ShellForced, ForceCompletion, ShellLost
<1>5. \A t \in Targets, who \in Recyclers : ~Recycle(t, who)
  BY RecyclersAssumption DEF Recycle, RecycleBegin, RecycleClose, RecycleFinish
<1> QED
  BY <1>1, <1>2, <1>3, <1>4, <1>5 DEF Next

\* While r drives its terminal, no other command stands anywhere.
LEMMA OthersIdle ==
    ASSUME Typed, Undisturbed, NEW r \in Requests, pc[r] # "idle"
    PROVE  \A q \in Requests : q # r => pc[q] = "idle" /\ ~Stands(q) /\ ~Bare(q)
  BY Alone DEF Undisturbed, Stands, Bare

\* The thread that drives a terminal, seen from the rows: they stay, and those
\* that are ready stay ready.
LEMMA RowsStay ==
    ASSUME Typed, Undisturbed, NEW r \in Requests, Terminal(r),
           \A p \in Externals : Ready(p) => prepared' = prepared /\ line' = line
    PROVE  RowsKnown'
<1>1. UNCHANGED <<prepRow, current, execRow, remembered>>
  BY TerminalGoes DEF terminalFrame, external, rows
<1>2. \A p \in Externals : Ready(p)' = Ready(p)
  BY <1>1 DEF Ready
<1>3. \A q \in Requests : q # r => pc'[q] = pc[q]
  BY TerminalGoes DEF Typed, TypeOK
<1>4. pc'[r] # "marked"
  BY TerminalGoes DEF Typed, TypeOK, PrepareSteps, ExecuteSteps
<1>5. pc'[r] \in PrepareSteps \cup {"typed", "raised"} => pc[r] \in PrepareSteps
  BY DEF Typed, TypeOK, Terminal, PrepareAdmit, PrepareClaim, PrepareType, ExecuteAdmit,
         ExecuteClaim, ExecuteEnter, ExecuteLeave, ExecuteRelease, Refused, Goto, PrepareSteps,
         ExecuteSteps
<1> QED
  BY <1>1, <1>2, <1>3, <1>4, <1>5, PathsAssumption DEF Undisturbed, RowsKnown

\* Nor does it do anything else that could disturb.
LEMMA TerminalQuiet ==
    ASSUME Typed, Undisturbed, NEW r \in Requests, Terminal(r)
    PROVE  Quiet' /\ Separate' /\ LockHeld'
<1>1. online' = Targets /\ UNCHANGED <<recovery, completing>>
  <2>1. TargetOf[r] \in Targets /\ online = Targets
    BY PathsAssumption DEF Undisturbed, Quiet
  <2> QED
    BY <2>1
    DEF Undisturbed, Quiet, Terminal, PrepareAdmit, PrepareClaim, PrepareType, ExecuteAdmit,
        ExecuteClaim, ExecuteEnter, ExecuteLeave, ExecuteRelease, Refused, ClaimAuthority,
        EnsureSession, TypeCommand, TypeCommandRaises, DiscardPrepared, ClaimExecution,
        PressEnter, EnterRefused, LeaveSession, DropExecution, ReleaseAuthority, manager,
        sessions, execution
<1>2. pc[r] # "idle" /\ UNCHANGED terminalFrame /\ \A q \in Requests : q # r => pc'[q] = pc[q]
  BY TerminalGoes DEF PrepareSteps, ExecuteSteps, Typed, TypeOK
<1> QED
  BY <1>1, <1>2, PathsAssumption
  DEF Undisturbed, Quiet, Separate, LockHeld, terminalFrame, external, rows, jobs, callers,
      recovery

(* A prepare step leaves the only path in use undisturbed.                  *)
LEMMA PreparePath ==
    ASSUME Typed, Undisturbed, NEW r \in Requests,
           PrepareAdmit(r) \/ PrepareClaim(r) \/ PrepareType(r)
    PROVE  Undisturbed'
<1> DEFINE t == TargetOf[r]
<1>1. t \in Targets /\ online = Targets /\ Terminal(r)
  BY PathsAssumption DEF Undisturbed, Quiet, Terminal
<1>2. Quiet' /\ Separate' /\ LockHeld'
  BY <1>1, TerminalQuiet
<1>3. pc[r] \in PrepareSteps /\ ~Stands(r) /\ \A q \in Requests : q # r => pc[q] = "idle"
  BY OthersIdle DEF PrepareAdmit, PrepareClaim, PrepareType, PrepareSteps, Stands
<1>4. SessionsHeld' /\ OwnText'
  BY <1>1, <1>3
  DEF Undisturbed, SessionsHeld, OwnText, PrepareAdmit, PrepareClaim, PrepareType,
      ClaimAuthority, EnsureSession, TypeCommand, TypeCommandRaises, DiscardPrepared, Goto,
      manager, sessions, execution, history, PrepareSteps, Typed, TypeOK, ManagerTypeOK
<1>5. CASE PrepareAdmit(r) \/ (PrepareClaim(r) /\ ~ClaimAuthority(t))
  <2>1. UNCHANGED <<prepared, line, executor>> /\ pc'[r] \in {"claim", "raised"}
    BY <1>1, <1>5 DEF PrepareAdmit, PrepareClaim, EnsureSession, Goto, manager, authority,
                      sessions, Typed, TypeOK
  <2>2. \A q \in Requests : q # r => pc'[q] = "idle"
    BY <1>3, <1>5 DEF PrepareAdmit, PrepareClaim, Goto, Typed, TypeOK
  <2>3. LinesKnown'
    BY <2>1, <2>2 DEF Undisturbed, LinesKnown, Stands, Bare
  <2> QED
    BY <1>1, <1>2, <1>4, <2>1, <2>3, RowsStay DEF Undisturbed
<1>6. CASE PrepareClaim(r) /\ ClaimAuthority(t)
  <2>1. prepared = None /\ prepared' = t /\ UNCHANGED <<line, executor>> /\ pc'[r] \in {"type", "raised"}
    BY <1>1, <1>6 DEF PrepareClaim, ClaimAuthority, Busy, EnsureSession, Goto, Typed, TypeOK
  <2>2. \A q \in Requests : q # r => pc'[q] = "idle"
    BY <1>3, <1>6 DEF PrepareClaim, Goto, Typed, TypeOK
  <2>3. \A u \in Targets : line[u] = {}
    BY <2>1, NoneAssumption DEF Undisturbed, LinesKnown
  <2>4. LinesKnown'
    BY <1>1, <2>1, <2>2, <2>3 DEF LinesKnown, Stands, Bare
  <2>5. \A p \in Externals : ~Ready(p)
    BY <2>1, PathsAssumption, NoneAssumption DEF Undisturbed, RowsKnown
  <2> QED
    BY <1>1, <1>2, <1>4, <2>4, <2>5, RowsStay DEF Undisturbed
<1>7. CASE PrepareType(r)
  <2>1. prepared = t /\ line[t] = {} /\ \A u \in Targets : line[u] = {}
    BY <1>1, <1>7 DEF PrepareType, Undisturbed, LinesKnown, Bare
  <2>2. \A p \in Externals : ~Ready(p)
    BY <2>1, PathsAssumption DEF Undisturbed, RowsKnown
  <2>3. \A q \in Requests : q # r => pc'[q] = "idle"
    BY <1>3, <1>7 DEF PrepareType, Goto, Typed, TypeOK
  <2>4. ASSUME TypeCommand(r, t) /\ Goto(r, "typed")
      PROVE  LinesKnown'
    <3>1. prepared' = t /\ line' = [line EXCEPT ![t] = {r}] /\ pc'[r] = "typed"
      BY <2>1, <2>4 DEF TypeCommand, authority, Goto, Typed, TypeOK, ManagerTypeOK
    <3> QED
      BY <1>1, <2>1, <2>3, <3>1 DEF LinesKnown, Stands, Bare, Typed, TypeOK, ManagerTypeOK
  <2>5. ASSUME TypeCommandRaises(r, t) /\ Goto(r, "raised")
      PROVE  LinesKnown'
    <3>1. prepared' = t /\ (line' = line \/ line' = [line EXCEPT ![t] = {r}]) /\ pc'[r] = "raised"
      BY <2>1, <2>5 DEF TypeCommandRaises, authority, Goto, Typed, TypeOK
    <3> QED
      BY <1>1, <2>1, <2>3, <3>1 DEF LinesKnown, Stands, Bare, Typed, TypeOK, ManagerTypeOK
  <2>6. ASSUME DiscardPrepared /\ Goto(r, "raised")
      PROVE  LinesKnown'
    <3>1. (\A u \in Targets : line'[u] = {}) /\ pc'[r] = "raised"
      BY <2>1, <2>6 DEF DiscardPrepared, Goto, Typed, TypeOK
    <3> QED
      BY <2>3, <3>1 DEF LinesKnown, Stands, Bare
  <2>7. LinesKnown'
    BY <1>7, <2>4, <2>5, <2>6 DEF PrepareType
  <2> QED
    BY <1>1, <1>2, <1>4, <2>2, <2>7, RowsStay DEF Undisturbed
<1> QED
  BY <1>5, <1>6, <1>7 DEF PrepareClaim

\* Whoever stands before Enter is admitted, finds the authority on its terminal
\* and the session free, and delivers the text that stands there.
LEMMA ExecutePath ==
    ASSUME Typed, EnterInv, Undisturbed, NEW r \in Requests,
           ExecuteAdmit(r) \/ ExecuteClaim(r) \/ ExecuteEnter(r) \/ ExecuteLeave(r)
             \/ ExecuteRelease(r)
    PROVE  Undisturbed'
<1> DEFINE t == TargetOf[r]
<1>1. t \in Targets /\ online = Targets /\ recovering = {} /\ Terminal(r)
  BY PathsAssumption DEF Undisturbed, Quiet, Terminal
<1>2. Quiet' /\ Separate' /\ LockHeld'
  BY <1>1, TerminalQuiet
<1>3. pc[r] \in ExecuteSteps /\ \A q \in Requests : q # r => pc[q] = "idle"
  BY OthersIdle
  DEF ExecuteAdmit, ExecuteClaim, ExecuteEnter, ExecuteLeave, ExecuteRelease, ExecuteSteps
<1>4. \A q \in Requests : q # r => pc'[q] = "idle"
  BY <1>1, <1>3, TerminalGoes DEF Typed, TypeOK
<1>5. prepared = t /\ (Stands(r) => line[t] = {r}) /\ (Bare(r) => line[t] = {})
  BY <1>3 DEF Undisturbed, LinesKnown, Stands, Bare, ExecuteSteps
<1>6. ~Fresh(r)
  BY <1>3 DEF EnterInv, FreshIsUntouched, InExecution
<1>7. \A p \in Externals : ~Ready(p)
  <2>1. r \in Externals => ~Ready(r)
    BY <1>6, PathsAssumption DEF Fresh, Ready
  <2> QED
    BY <1>3, <1>5, <2>1, PathsAssumption
    DEF Undisturbed, RowsKnown, Stands, Bare, ExecuteSteps
<1>8. RowsKnown'
  BY <1>1, <1>7, RowsStay
<1>9. CASE ExecuteAdmit(r) \/ ExecuteClaim(r)
  <2>1. UNCHANGED <<prepared, line, executor, executing, entered>>
    BY <1>1, <1>5, <1>9
    DEF ExecuteAdmit, ExecuteClaim, ClaimExecution, EnsureSession, sessions, authority, execution,
        history
  <2>2. Stands(r) /\ pc'[r] \in {"claimed", "entered"}
    BY <1>1, <1>5, <1>9 DEF ExecuteAdmit, ExecuteClaim, Goto, Stands, Typed, TypeOK
  <2>3. executor[t] # r
    BY <1>1, <1>9, NoneAssumption DEF ExecuteAdmit, ExecuteClaim, Undisturbed, SessionsHeld
  <2>4. \A u \in Targets : executor[u] = None
    BY <1>3, <1>9, NoneAssumption
    DEF ExecuteAdmit, ExecuteClaim, Undisturbed, SessionsHeld, Typed, TypeOK, ManagerTypeOK
  <2>5. SessionsHeld' /\ OwnText'
    BY <2>1, <2>4 DEF Undisturbed, SessionsHeld, OwnText
  <2>6. LinesKnown'
    BY <1>4, <1>5, <2>1, <2>2, <2>3 DEF Undisturbed, LinesKnown, Stands, Bare
  <2> QED
    BY <1>2, <1>8, <2>5, <2>6 DEF Undisturbed
<1>10. CASE ExecuteEnter(r)
  <2>1. \A u \in Targets : executor[u] = None /\ executing[u] = None
    <3>1. \A u \in Targets : executor[u] # None => executor[u] \in Requests
      BY DEF Typed, TypeOK, ManagerTypeOK
    <3>2. \A u \in Targets : executor[u] # None => executor[u] = r /\ u = t
      BY <1>3, <3>1 DEF Undisturbed, SessionsHeld
    <3> QED
      BY <1>10, <3>2 DEF ExecuteEnter, Undisturbed, SessionsHeld
  <2>2. PressEnter(r, t) /\ pc' = pc /\ line[t] = {r}
    BY <1>1, <1>5, <1>10, <2>1 DEF ExecuteEnter, EnterRefused, Stands
  <2>3. entered' = [entered EXCEPT ![r] = {r}]
    BY <2>2 DEF PressEnter
  <2>4. OwnText'
    BY <2>3 DEF Undisturbed, OwnText, Typed, TypeOK, ManagerTypeOK
  <2>5. /\ executor' = [executor EXCEPT ![t] = r] /\ executing' = [executing EXCEPT ![t] = r]
        /\ line' = [line EXCEPT ![t] = {}] /\ prepared' = prepared
    BY <2>2 DEF PressEnter, authority
  <2>6. SessionsHeld'
    BY <1>1, <1>10, <2>1, <2>2, <2>5
    DEF ExecuteEnter, SessionsHeld, Typed, TypeOK, ManagerTypeOK
  <2>7. LinesKnown'
    <3>1. pc'[r] = "entered" /\ executor'[t] = r /\ line'[t] = {} /\ prepared' = t
      BY <1>1, <1>5, <1>10, <2>2, <2>5 DEF ExecuteEnter, Typed, TypeOK, ManagerTypeOK
    <3>2. \A u \in Targets : line'[u] # {} => prepared' = u
      BY <1>1, <2>5 DEF Undisturbed, LinesKnown, Typed, TypeOK, ManagerTypeOK
    <3> QED
      BY <1>4, <3>1, <3>2 DEF LinesKnown, Stands, Bare
  <2> QED
    BY <1>2, <1>8, <2>4, <2>6, <2>7 DEF Undisturbed
<1>11. CASE ExecuteLeave(r)
  <2>1. /\ executor[t] = r /\ executor' = [executor EXCEPT ![t] = None]
        /\ executing' = IF executing[t] = r THEN [executing EXCEPT ![t] = None] ELSE executing
        /\ UNCHANGED <<line, prepared, entered>> /\ pc'[r] = "release"
    BY <1>11 DEF ExecuteLeave, LeaveSession, DropExecution, execution, authority, history, Goto,
                Typed, TypeOK
  <2>2. \A u \in Targets : u # t => executor[u] = None
    BY <1>3, <1>11, PathsAssumption, NoneAssumption
    DEF ExecuteLeave, Undisturbed, SessionsHeld, Typed, TypeOK, ManagerTypeOK
  <2>3. SessionsHeld'
    BY <1>1, <2>1, <2>2 DEF Undisturbed, SessionsHeld, Typed, TypeOK, ManagerTypeOK
  <2>4. Bare(r)
    BY <1>11, <2>1 DEF ExecuteLeave, Bare
  <2>5. LinesKnown'
    BY <1>4, <1>5, <2>1, <2>4 DEF Undisturbed, LinesKnown, Stands, Bare
  <2> QED
    BY <1>2, <1>8, <2>1, <2>3, <2>5 DEF Undisturbed, OwnText
<1>12. CASE ExecuteRelease(r)
  <2>1. UNCHANGED <<line, executor, executing, entered>> /\ pc'[r] = "told"
    BY <1>12 DEF ExecuteRelease, ReleaseAuthority, sessions, execution, history, Goto, Typed, TypeOK
  <2>2. Bare(r)
    BY <1>12 DEF ExecuteRelease, Bare
  <2>3. \A u \in Targets : line[u] = {}
    BY <1>5, <2>2 DEF Undisturbed, LinesKnown
  <2>4. LinesKnown'
    BY <1>4, <2>1, <2>3 DEF LinesKnown, Stands, Bare
  <2>5. \A u \in Targets : executor[u] = None
    BY <1>3, <1>12, NoneAssumption
    DEF ExecuteRelease, Undisturbed, SessionsHeld, Typed, TypeOK, ManagerTypeOK
  <2>6. SessionsHeld'
    BY <2>1, <2>5 DEF Undisturbed, SessionsHeld
  <2> QED
    BY <1>2, <1>8, <2>1, <2>4, <2>6 DEF Undisturbed, OwnText
<1> QED
  BY <1>9, <1>10, <1>11, <1>12

\* A section under _external_prepare_lock leaves terminals alone.  It makes a
\* row ready only while that command's text stands, and executes only a ready one.
LEMMA ExternalPath ==
    ASSUME Typed, Undisturbed, NEW p \in Externals, External(p)
    PROVE  Undisturbed'
<1> USE PathsAssumption
    DEF Typed, TypeOK, ExternalOnly, Goto, Leave, SetPreparation, SetExecution, Free, manager,
        authority, sessions, execution, history, recovery, jobs, callers, record, rows
<1>1. environment.commands \subseteq Externals /\ engine = None /\ activeJob = None
        /\ (\A j \in Jobs : job[j] = "NONE" /\ pc[j] = "idle")
  BY NoneAssumption
  DEF Undisturbed, Separate, Driven, External, PrepareAgain, PrepareExternal, PrepareRaised,
      PrepareMark, PrepareRemember, AsyncReserve, ExecuteExternal, WorkerBegin, ExternalConclude
<1>2. /\ UNCHANGED <<authority, online, execution, executor, line, history, recovery>>
      /\ UNCHANGED <<jobs, callers, record>>
  BY DEF External, PrepareAgain, PrepareExternal, PrepareRaised, PrepareMark, PrepareRemember,
         AsyncReserve, ExecuteExternal, WorkerBegin, ExternalConclude
<1>3. \A q \in Requests : q # p => pc'[q] = pc[q]
  BY DEF External, PrepareAgain, PrepareExternal, PrepareRaised, PrepareMark, PrepareRemember,
         AsyncReserve, ExecuteExternal, WorkerBegin, ExternalConclude, Execute
<1>4. Quiet' /\ Separate'
  BY <1>1, <1>2, <1>3 DEF Undisturbed, Quiet, Separate
<1>5. OwnText'
  BY <1>2 DEF Undisturbed, OwnText
<1>6. pc[p] # "entered" /\ pc'[p] # "entered"
  BY NoneAssumption
  DEF Undisturbed, LockHeld, External, PrepareAgain, PrepareExternal, PrepareRaised, PrepareMark,
      PrepareRemember, AsyncReserve, ExecuteExternal, WorkerBegin, ExternalConclude, Execute
<1>7. SessionsHeld'
  BY <1>2, <1>3, <1>6 DEF Undisturbed, SessionsHeld, ManagerTypeOK
<1>8. LockHeld'
  BY NoneAssumption
  DEF Undisturbed, LockHeld, External, PrepareAgain, PrepareExternal, PrepareRaised, PrepareMark,
      PrepareRemember, AsyncReserve, ExecuteExternal, WorkerBegin, ExternalConclude, Execute
<1>9. ASSUME ~Stands(p)' \/ Stands(p) \/ Ready(p), ~Bare(p)'
      PROVE  LinesKnown'
  <2>1. \A q \in Requests : q # p => Stands(q)' = Stands(q) /\ Bare(q)' = Bare(q)
    BY <1>2, <1>3 DEF Stands, Bare
  <2>2. Stands(p) \/ Ready(p) => prepared = TargetOf[p] /\ line[TargetOf[p]] = {p}
    BY DEF Undisturbed, LinesKnown, RowsKnown
  <2>3. UNCHANGED <<prepared, line>>
    BY <1>2
  <2> QED
    BY <1>9, <2>1, <2>2, <2>3 DEF Undisturbed, LinesKnown
<1>10. ASSUME NEW op \in {"prepare", "async"}, PrepareAgain(op, p)
       PROVE  LinesKnown' /\ RowsKnown'
  <2>1. LinesKnown'
    BY <1>2, <1>10 DEF PrepareAgain, Undisturbed, LinesKnown, Stands, Bare
  <2>2. RowsKnown'
    BY <1>2, <1>10 DEF PrepareAgain, Undisturbed, RowsKnown, Ready
  <2> QED
    BY <2>1, <2>2
<1>11. ASSUME NEW op \in {"prepare", "async"}, PrepareExternal(op, p)
       PROVE  LinesKnown' /\ RowsKnown'
  <2>1. pc[p] = "idle" /\ ~Ready(p) /\ (pc'[p] = "idle" \/ (pc'[p] = "admit" /\ prepRow'[p] = "PREPARING"))
    BY <1>11, NoneAssumption DEF PrepareExternal, Undisturbed, LockHeld, Ready
  <2>2. p \in current' /\ ~Ready(p)' /\ \A q \in Externals : q # p => Ready(q)' = Ready(q)
    BY <1>11, <2>1 DEF PrepareExternal, Ready
  <2>3. \A q \in Externals : q # p => prepRow'[q] = prepRow[q] /\ (q \in current => q \in current')
    BY <1>11 DEF PrepareExternal
  <2>4. LinesKnown'
    BY <1>2, <1>3, <2>1 DEF Undisturbed, LinesKnown, Stands, Bare
  <2>5. UNCHANGED <<execRow, remembered>>
    BY <1>11 DEF PrepareExternal
  <2>6. RowsKnown'
    BY <1>2, <1>3, <2>1, <2>2, <2>3, <2>5 DEF Undisturbed, RowsKnown, Ready, PrepareSteps
  <2> QED
    BY <2>4, <2>6
<1>12. CASE PrepareRaised(p)
  <2>1. LinesKnown'
    BY <1>9, <1>12 DEF PrepareRaised, Stands, Bare
  <2>2. RowsKnown'
    BY <1>2, <1>3, <1>12 DEF PrepareRaised, Undisturbed, RowsKnown, Ready, PrepareSteps
  <2> QED
    BY <1>4, <1>5, <1>7, <1>8, <2>1, <2>2 DEF Undisturbed
<1>13. CASE PrepareMark(p)
  <2>1. Stands(p) /\ pc'[p] = "marked" /\ p \in current /\ prepRow'[p] = "PREPARED"
    BY <1>13 DEF PrepareMark, Stands, Undisturbed, RowsKnown
  <2>2. LinesKnown'
    BY <1>9, <2>1 DEF Bare
  <2>3. prepared = TargetOf[p] /\ line[TargetOf[p]] = {p}
    BY <2>1 DEF Undisturbed, LinesKnown
  <2>4. \A q \in Externals : q # p => Ready(q)' = Ready(q)
    BY <1>13 DEF PrepareMark, Ready
  <2>5. ~(remembered = p /\ execRow[p] \in {"NONE", "RESERVED"})
    BY <1>13 DEF PrepareMark, Undisturbed, RowsKnown, Ready
  <2>6. UNCHANGED <<prepared, line, current, execRow, remembered>>
    BY <1>2, <1>13 DEF PrepareMark
  <2>7. \A q \in Externals : q # p => prepRow'[q] = prepRow[q]
    BY <1>13 DEF PrepareMark
  <2>8. RowsKnown'
    BY <1>3, <2>1, <2>3, <2>4, <2>5, <2>6, <2>7 DEF Undisturbed, RowsKnown, PrepareSteps
  <2> QED
    BY <1>4, <1>5, <1>7, <1>8, <2>2, <2>8 DEF Undisturbed
<1>14. CASE PrepareRemember(p)
  <2>1. LinesKnown'
    BY <1>9, <1>14 DEF PrepareRemember, Stands, Bare
  <2>2. RowsKnown'
    BY <1>2, <1>3, <1>14 DEF PrepareRemember, Undisturbed, RowsKnown, Ready, PrepareSteps
  <2> QED
    BY <1>4, <1>5, <1>7, <1>8, <2>1, <2>2 DEF Undisturbed
<1>15. CASE AsyncReserve(p)
  <2>1. LinesKnown'
    BY <1>2, <1>15 DEF AsyncReserve, Undisturbed, LinesKnown, Stands, Bare
  <2>2. RowsKnown'
    BY <1>2, <1>15 DEF AsyncReserve, Undisturbed, RowsKnown, Ready
  <2> QED
    BY <1>4, <1>5, <1>7, <1>8, <2>1, <2>2 DEF Undisturbed
<1>16. CASE ExecuteExternal(p) \/ WorkerBegin(p)
  <2>1. CASE Execute(p) /\ remembered = p /\ execRow[p] \in {"NONE", "RESERVED"}
             /\ UNCHANGED <<prepRow, current, remembered>>
    <3>1. Ready(p) /\ pc'[p] = "admitted" /\ execRow' = [execRow EXCEPT ![p] = "EXECUTING"]
      BY <2>1 DEF Undisturbed, RowsKnown, Execute
    <3>2. LinesKnown'
      BY <1>9, <3>1 DEF Bare
    <3>3. RowsKnown'
      BY <1>2, <1>3, <2>1, <3>1 DEF Undisturbed, RowsKnown, Ready, PrepareSteps
    <3> QED
      BY <1>4, <1>5, <1>7, <1>8, <3>2, <3>3 DEF Undisturbed
  <2>2. CASE UNCHANGED <<pc, prepRow, current, remembered>>
             /\ execRow' \in {execRow, [execRow EXCEPT ![p] = "FAILED"]}
    <3>1. LinesKnown'
      BY <1>2, <2>2 DEF Undisturbed, LinesKnown, Stands, Bare
    <3>2. RowsKnown'
      BY <1>2, <2>2 DEF Undisturbed, RowsKnown, Ready
    <3> QED
      BY <1>4, <1>5, <1>7, <1>8, <3>1, <3>2 DEF Undisturbed
  <2> QED
    BY <1>16, <2>1, <2>2 DEF ExecuteExternal, WorkerBegin
<1>17. CASE ExternalConclude(p)
  <2>1. LinesKnown'
    BY <1>9, <1>17 DEF ExternalConclude, Stands, Bare
  <2>2. RowsKnown'
    BY <1>2, <1>3, <1>17, NoneAssumption
    DEF ExternalConclude, Undisturbed, RowsKnown, Ready, PrepareSteps
  <2> QED
    BY <1>4, <1>5, <1>7, <1>8, <2>1, <2>2 DEF Undisturbed
<1>18. ASSUME NEW op \in {"prepare", "async"}, PrepareAgain(op, p) \/ PrepareExternal(op, p)
       PROVE  Undisturbed'
  BY <1>4, <1>5, <1>7, <1>8, <1>10, <1>11, <1>18 DEF Undisturbed
<1> QED
  BY <1>12, <1>13, <1>14, <1>15, <1>16, <1>17, <1>18 DEF External

\* The engine leaves external rows alone, and drops a prompt that is its own.
LEMMA JobPath ==
    ASSUME Typed, Undisturbed,
           JobBegin \/ \E j \in Jobs : Submit(j) \/ Approve(j) \/ ClaimNext(j) \/ RunJob(j),
           environment.commands \subseteq Externals \/ environment.commands \subseteq Jobs
    PROVE  Undisturbed'
<1> USE PathsAssumption
    DEF Typed, TypeOK, JobsOnly, JobStep, Goto, Conclude, manager, authority, sessions, execution,
        history, recovery, external, callers, rows
<1>1. /\ current = {} /\ remembered = None /\ starting = {} /\ workers = {}
      /\ environment.commands \subseteq Jobs /\ \A p \in Externals : pc[p] = "idle"
  BY NoneAssumption
  DEF Undisturbed, Separate, JobBegin, Submit, Approve, ClaimNext, RunJob, JobPrepareRaised,
      JobMarkPrepared, JobPreview, JobRun, JobTold, JobConclude, JobLook, JobDrop, JobClose
<1>2. UNCHANGED <<external, callers, environment, online, execution, executor, history, recovery>>
  BY DEF JobBegin, Submit, Approve, ClaimNext, RunJob, JobPrepareRaised, JobMarkPrepared,
         JobPreview, JobRun, JobTold, JobConclude, JobLook, JobDrop, JobClose, DiscardPrepared
<1>3. \A p \in Externals : pc'[p] = pc[p]
  BY NoneAssumption
  DEF JobBegin, Submit, Approve, ClaimNext, RunJob, JobPrepareRaised, JobMarkPrepared,
      JobPreview, JobRun, JobTold, JobConclude, JobLook, JobDrop, JobClose
<1>4. Quiet' /\ Separate' /\ LockHeld'
  BY <1>1, <1>2, <1>3 DEF Undisturbed, Quiet, Separate, LockHeld
<1>5. RowsKnown' /\ OwnText'
  BY <1>1, <1>2, <1>3, NoneAssumption DEF Undisturbed, RowsKnown, Ready, OwnText, PrepareSteps
<1>6. \A r \in Requests : /\ (pc[r] = "entered") = (pc'[r] = "entered")
                          /\ Stands(r)' => Stands(r)
                          /\ Bare(r)' => Bare(r)
  BY <1>2
  DEF JobBegin, Submit, Approve, ClaimNext, RunJob, JobPrepareRaised, JobMarkPrepared,
      JobPreview, JobRun, JobTold, JobConclude, JobLook, JobDrop, JobClose, Driven, Stands, Bare
<1>7. SessionsHeld'
  BY <1>2, <1>6 DEF Undisturbed, SessionsHeld, ManagerTypeOK
<1>8. CASE UNCHANGED <<prepared, line>>
  BY <1>4, <1>5, <1>6, <1>7, <1>8 DEF Undisturbed, LinesKnown
<1>9. ASSUME NEW j \in Jobs, JobDrop(j)
      PROVE  Undisturbed'
  <2>1. \A r \in Requests : ~Stands(r) /\ ~Bare(r)
    <3>1. pc[j] = "drop"
      BY <1>9 DEF JobDrop
    <3> QED
      BY <3>1, OthersIdle DEF Stands, Bare
  <2>2. \A t \in Targets : line'[t] = {}
    BY <1>9 DEF JobDrop, DiscardPrepared, Undisturbed, Quiet, LinesKnown
  <2> QED
    BY <1>4, <1>5, <1>6, <1>7, <2>1, <2>2 DEF Undisturbed, LinesKnown
<1> QED
  BY <1>8, <1>9
  DEF JobBegin, Submit, Approve, ClaimNext, RunJob, JobPrepareRaised, JobMarkPrepared,
      JobPreview, JobRun, JobTold, JobConclude, JobLook, JobClose

\* A command that ends leaves every prompt as it is, and a restart empties them.
LEMMA SurroundingsPath ==
    ASSUME Typed, Undisturbed, Restart \/ \E t \in Targets : ShellEnds(t)
    PROVE  Undisturbed'
<1>1. CASE Restart
  BY <1>1, PathsAssumption, NoneAssumption
  DEF Restart, Undisturbed, Quiet, Separate, LockHeld, SessionsHeld, LinesKnown, Stands, Bare,
      RowsKnown, Ready, OwnText, Idle, history, PrepareSteps
<1>2. ASSUME NEW t \in Targets, ShellEnds(t)
      PROVE  Undisturbed'
  <2>1. /\ UNCHANGED <<authority, online, executor, line, history, recovery, Others>>
        /\ executing' = [executing EXCEPT ![t] = None] /\ completing' = completing \ {t}
    BY <1>2 DEF ShellEnds, CommandEnds, DropExecution
  <2>2. Quiet' /\ Separate' /\ LockHeld'
    BY <2>1 DEF Undisturbed, Quiet, Separate, LockHeld, Others, external, rows, jobs, callers,
                record, recovery
  <2>3. SessionsHeld' /\ OwnText'
    BY <2>1 DEF Undisturbed, SessionsHeld, OwnText, Others, history, Typed, TypeOK, ManagerTypeOK
  <2>4. LinesKnown' /\ RowsKnown'
    BY <2>1 DEF Undisturbed, LinesKnown, Stands, Bare, RowsKnown, Ready, Others, authority,
                external, rows
  <2> QED
    BY <2>2, <2>3, <2>4 DEF Undisturbed
<1> QED
  BY <1>1, <1>2

(* Every step leaves the only path in use undisturbed.                      *)
LEMMA StepPath == Typed /\ EnterInv /\ PathInv /\ [Next]_vars => PathInv'
<1> SUFFICES ASSUME Typed, EnterInv, PathInv, [Next]_vars, OnePath' PROVE Undisturbed'
  BY DEF PathInv
<1>1. environment' = environment
  BY TerminalGoes
  DEF Next, vars, record, External, PrepareAgain, PrepareExternal, PrepareRaised, PrepareMark,
      PrepareRemember, AsyncReserve, ExecuteExternal, WorkerBegin, ExternalConclude, ExternalOnly,
      DiscardExternal, Submit, Approve, ClaimNext, JobsOnly, JobStep, RunJob, JobPrepareRaised,
      JobMarkPrepared, JobPreview, JobRun, JobTold, JobConclude, JobLook, JobDrop, JobClose,
      JobBegin, CancelCall, CancelOnly, ForceStop, ForceDiscard, Cancelling, CancelRequest,
      CancelPending, CancelLook, CancelSignal, CancelDiscard, Snapshot, SnapshotOnly,
      SnapshotRead, SnapshotOwner, SnapshotRecover, SnapshotForget, SnapshotRecycle,
      SnapshotAwait, ShellEnds, ShellForced, ShellLost, Recycle, Others, Restart, terminalFrame
<1>2. OnePath /\ Undisturbed
  BY <1>1 DEF OnePath, PathInv
<1>3. CASE UNCHANGED vars
  BY <1>2, <1>3
  DEF vars, manager, authority, sessions, execution, history, recovery, external, rows, jobs,
      callers, record, Undisturbed, Quiet, Separate, LockHeld, SessionsHeld, LinesKnown, Stands,
      Bare, RowsKnown, Ready, OwnText
<1>4. CASE Next
  BY <1>2, <1>4, QuietNext, PreparePath, ExecutePath, ExternalPath, JobPath, SurroundingsPath
  DEF Undisturbed, OnePath, Terminal
<1> QED
  BY <1>3, <1>4

\* Enter is pressed once for an execution and, while one path is in use and nobody
\* disturbs it, delivers the text it was pressed for (TerminalManager.prepare and
\* execute_prepared under _external_prepare_lock, and under the engine).
THEOREM EntersOnceAndItsText == Spec => []EntersOnceItsText
<1>1. Typed /\ EnterInv => TypeOK /\ EnterOnce
  BY DEF Typed, EnterInv, OnePress, EnterOnce
<1>2. PathInv => OnePathRunsItsText
  BY DEF PathInv, Undisturbed, OwnText, OnePathRunsItsText
<1>3. Spec => []PathInv
  BY EnterAlways, InitPath, StepPath, PTL DEF Spec
<1> QED
  BY <1>1, <1>2, <1>3, EnterAlways, PTL DEF EntersOnceItsText
=============================================================================
