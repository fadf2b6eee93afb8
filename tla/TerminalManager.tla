--------------------------- MODULE TerminalManager ---------------------------
(***************************************************************************)
(* app_rewrite/terminal_manager.py: the one-command-at-a-time authority    *)
(* over the interactive terminals, with the session objects it drives      *)
(* (app_rewrite/cmd_terminal_session.py, windows_terminal_session.py).     *)
(*                                                                         *)
(* A command is identified by the request that submitted it.  The text of  *)
(* a command on a prompt is abstracted to the set of requests whose text   *)
(* stands on the line: {} is an empty prompt, a set of two is two texts    *)
(* typed one after the other.  Sessions are interactive shells: typing,    *)
(* pressing Enter and completing are different moments.                    *)
(*                                                                         *)
(* Targets are the two local terminals, whose session objects live as long *)
(* as the manager and are closed and started again in place.  SSH, whose   *)
(* session object is replaced, is not covered.                             *)
(*                                                                         *)
(* This module has no Init or Next of its own: the manager is a passive    *)
(* object, and every operator below is one locked section or one session   *)
(* call that a thread of the runtime performs.  Modules that extend it     *)
(* give the threads.                                                       *)
(***************************************************************************)
EXTENDS Naturals, FiniteSets

CONSTANTS
    Targets,        \* the local terminals
    ClearingTargets,\* terminals whose prepare_command clears the prompt first
    Requests,       \* commands, named by their request_id
    Cancellers,     \* threads that may call cancel_active
    Recyclers,      \* who may ask for a terminal to be recycled
    None            \* no terminal, no command

ASSUME TargetsAssumption == ClearingTargets \subseteq Targets
ASSUME NoneAssumption == None \notin Targets /\ None \notin Requests
ASSUME RecyclersAssumption == Cancellers \subseteq Recyclers /\ None \notin Targets \X Recyclers

VARIABLES
    active,      \* TerminalManager.active_target
    prepared,    \* TerminalManager._prepared_target
    recovering,  \* TerminalManager._recovering_targets
    online,      \* terminals whose session is_running
    executing,   \* terminal -> command whose execution state the session holds
    cancelling,  \* terminals whose execution state has "cancelled" set
    completing,  \* of these, those with a thread that will complete it by force
    executor,    \* terminal -> thread that holds the session's _execution_lock
    line,        \* terminal -> texts standing on its prompt
    outcome,     \* command -> what the session told the thread waiting for it
    typedAndRun, \* history: command -> times its text was entered
    entered,     \* history: command -> texts its own Enter delivered
    pending,     \* recycles that were requested and have not finished
    recycler     \* the recycle that holds _recovery_lock

authority == <<active, prepared>>
execution == <<executing, cancelling, completing>>
sessions  == <<online, execution, executor, line, outcome>>
history   == <<typedAndRun, entered>>
recovery  == <<recovering, pending, recycler>>
manager   == <<authority, sessions, history, recovery>>

\* "unset" while the thread waits; the others are the ways execute() ends.
Outcomes == {"unset", "ok", "error", "cancelled", "interrupted", "refused"}

\* A history value: Enter has not been pressed for this command.
NotEntered == {None}

ManagerTypeOK ==
    /\ active \in Targets \cup {None}
    /\ prepared \in Targets \cup {None}
    /\ recovering \subseteq Targets
    /\ online \subseteq Targets
    /\ executing \in [Targets -> Requests \cup {None}]
    /\ cancelling \subseteq Targets
    /\ completing \subseteq cancelling
    /\ executor \in [Targets -> Requests \cup {None}]
    /\ line \in [Targets -> SUBSET Requests]
    /\ outcome \in [Requests -> Outcomes]
    /\ typedAndRun \in [Requests -> Nat]
    /\ entered \in [Requests -> SUBSET (Requests \cup {None})]
    /\ pending \subseteq Targets \X Recyclers
    /\ recycler \in (Targets \X Recyclers) \cup {None}

\* TerminalManager.__init__ followed by start(): every session is running.
ManagerInit ==
    /\ active = None
    /\ prepared = None
    /\ recovering = {}
    /\ online = Targets
    /\ executing = [t \in Targets |-> None]
    /\ cancelling = {}
    /\ completing = {}
    /\ executor = [t \in Targets |-> None]
    /\ line = [t \in Targets |-> {}]
    /\ outcome = [r \in Requests |-> "unset"]
    /\ typedAndRun = [r \in Requests |-> 0]
    /\ entered = [r \in Requests |-> NotEntered]
    /\ pending = {}
    /\ recycler = None

\* Faulty variant: the manager forgets to look.
NeverBusy == FALSE

Busy == active # None \/ prepared # None

-----------------------------------------------------------------------------
(* prepare(): refuse a recovering terminal, make sure a session runs, take  *)
(* the authority, type the text without Enter.                              *)

\* _ensure_session starts a session that is not running, on an empty prompt.
EnsureSession(t) ==
    /\ online' = online \cup {t}
    /\ line' = IF t \in online THEN line ELSE [line EXCEPT ![t] = {}]
    /\ UNCHANGED <<execution, executor, outcome>>

ClaimAuthority(t) ==
    /\ ~Busy
    /\ active' = t
    /\ prepared' = t
    /\ EnsureSession(t)
    /\ UNCHANGED <<history, recovery>>

TypeCommand(r, t) ==
    /\ t \in online /\ executing[t] = None
    /\ line' = [line EXCEPT ![t] = IF t \in ClearingTargets THEN {r} ELSE @ \cup {r}]
    /\ UNCHANGED <<authority, online, execution, executor, outcome,
                   history, recovery>>

\* An exception leaves prepare() with the authority still taken.  The prompt
\* of a terminal that reads its line back may keep the text it rejected.
TypeCommandRaises(r, t) ==
    /\ \/ line' = line
       \/ /\ t \in ClearingTargets /\ t \in online
          /\ line' = [line EXCEPT ![t] = {r}]
    /\ UNCHANGED <<authority, online, execution, executor, outcome,
                   history, recovery>>

\* Faulty variant: the text stays on the prompt.
DiscardLeavesText ==
    /\ active' = None
    /\ prepared' = None
    /\ UNCHANGED <<sessions, history, recovery>>

\* discard_prepared(): give the authority up, then erase that prompt.
DiscardPrepared ==
    /\ active' = None
    /\ prepared' = None
    /\ line' = [t \in Targets |-> IF t = prepared /\ t \in online THEN {} ELSE line[t]]
    /\ UNCHANGED <<online, execution, executor, outcome, history, recovery>>

-----------------------------------------------------------------------------
(* execute_prepared(): the check names the terminal, not the command.       *)

ClaimExecution(t) ==
    /\ prepared = t
    /\ active' = t
    /\ EnsureSession(t)
    /\ UNCHANGED <<prepared, history, recovery>>

\* session.execute(prepared=True): install the execution state, press Enter.
\* Whatever stands on the prompt is what runs.
PressEnter(r, t) ==
    /\ t \in online /\ executor[t] = None /\ executing[t] = None
    /\ executor' = [executor EXCEPT ![t] = r]
    /\ executing' = [executing EXCEPT ![t] = r]
    /\ outcome' = [outcome EXCEPT ![r] = "unset"]
    /\ entered' = [entered EXCEPT ![r] = line[t]]
    /\ typedAndRun' = [q \in Requests |-> typedAndRun[q] + (IF q \in line[t] THEN 1 ELSE 0)]
    /\ line' = [line EXCEPT ![t] = {}]
    /\ UNCHANGED <<authority, online, cancelling, completing, recovery>>

\* A session that is not running, or runs something, refuses.
EnterRefused(r, t) ==
    /\ t \notin online \/ executor[t] # None \/ executing[t] # None
    /\ outcome' = [outcome EXCEPT ![r] = "refused"]
    /\ UNCHANGED <<authority, online, execution, executor, line,
                   history, recovery>>

DropExecution(t) ==
    /\ executing' = [executing EXCEPT ![t] = None]
    /\ cancelling' = cancelling \ {t}
    /\ completing' = completing \ {t}

\* Faulty variant: the state of a session that died is not dropped.
LeaveSessionKeepsState(r, t) ==
    /\ executor[t] = r
    /\ outcome[r] # "unset"
    /\ executor' = [executor EXCEPT ![t] = None]
    /\ UNCHANGED <<authority, online, execution, line, outcome, history, recovery>>

\* execute()'s own finally: drop the state if it is still ours, unlock.
LeaveSession(r, t) ==
    /\ executor[t] = r
    /\ outcome[r] # "unset"
    /\ executor' = [executor EXCEPT ![t] = None]
    /\ IF executing[t] = r THEN DropExecution(t) ELSE UNCHANGED execution
    /\ UNCHANGED <<authority, online, line, outcome, history, recovery>>

\* execute_prepared()'s finally: unconditional.
ReleaseAuthority ==
    /\ active' = None
    /\ prepared' = None
    /\ UNCHANGED <<sessions, history, recovery>>

-----------------------------------------------------------------------------
(* The shells themselves: a command ends, or the session process dies.      *)

Report(r, result) == outcome' = [outcome EXCEPT ![r] = result]

\* A marker with an exit code arrives for the command that runs.
CommandEnds(t) ==
    LET r == executing[t] IN
    /\ r # None /\ t \in online /\ outcome[r] = "unset"
    /\ \E result \in IF t \in cancelling THEN {"cancelled"} ELSE {"ok", "error"} :
          Report(r, result)
    /\ DropExecution(t)
    /\ UNCHANGED <<authority, online, executor, line, history, recovery>>

\* A cancelled command that produces no marker is completed by force.
ForceCompletion(t) ==
    LET r == executing[t] IN
    /\ r # None /\ t \in completing /\ outcome[r] = "unset"
    /\ Report(r, "cancelled")
    /\ UNCHANGED <<authority, online, execution, executor, line,
                   history, recovery>>

\* The shell process exits: the reader loop wakes the waiting thread.
SessionDies(t) ==
    LET r == executing[t] IN
    /\ t \in online
    /\ online' = online \ {t}
    /\ line' = [line EXCEPT ![t] = {}]
    /\ IF r # None /\ outcome[r] = "unset"
         THEN Report(r, IF t \in cancelling THEN "cancelled" ELSE "interrupted")
         ELSE UNCHANGED outcome
    /\ UNCHANGED <<authority, execution, executor, history, recovery>>

-----------------------------------------------------------------------------
(* cancel_active(): three moments, because it looks without the session's   *)
(* lock and acts afterwards.                                                *)

MarkRecovering(t) ==
    /\ recovering' = recovering \cup {t}
    /\ UNCHANGED <<authority, sessions, history, pending, recycler>>

\* Faulty variant: the completion thread is started for an execution that is
\* not marked as cancelled.
SignalCancelUnmarked(c, t) ==
    /\ executing[t] # None
    /\ completing' = completing \cup {t}
    /\ pending' = pending \cup {<<t, c>>}
    /\ UNCHANGED <<authority, online, executing, cancelling, executor, line, outcome, history,
                   recovering, recycler>>

\* cancel_current() sent Ctrl+C: a recovery thread will recycle the terminal.
\* Only the first call on an execution starts the completion thread.
SignalCancel(c, t) ==
    /\ executing[t] # None
    /\ cancelling' = cancelling \cup {t}
    /\ completing' = IF t \in cancelling THEN completing ELSE completing \cup {t}
    /\ pending' = pending \cup {<<t, c>>}
    /\ UNCHANGED <<authority, online, executing, executor, line, outcome, history,
                   recovering, recycler>>

\* cancel_current() found nothing to cancel, or could not send Ctrl+C; the
\* flag it had set may stay, without a completion thread.
SignalCancelFails(t) ==
    /\ recovering' = recovering \ {t}
    /\ \/ cancelling' = cancelling
       \/ executing[t] # None /\ cancelling' = cancelling \cup {t}
    /\ UNCHANGED <<authority, online, executing, completing, executor, line, outcome, history,
                   pending, recycler>>

-----------------------------------------------------------------------------
(* recycle(): serialised by _recovery_lock; closes the session object and   *)
(* starts it again.                                                         *)

\* Faulty variant: waits for the shell without the deadline of two seconds.
RecycleAfterShell(t, who) ==
    /\ <<t, who>> \in pending
    /\ recycler = None
    /\ executing[t] = None
    /\ recycler' = <<t, who>>
    /\ recovering' = recovering \cup {t}
    /\ active' = IF active = t THEN None ELSE active
    /\ prepared' = IF prepared = t THEN None ELSE prepared
    /\ UNCHANGED <<sessions, history, pending>>

RecycleBegin(t, who) ==
    /\ <<t, who>> \in pending
    /\ recycler = None
    /\ recycler' = <<t, who>>
    /\ recovering' = recovering \cup {t}
    /\ active' = IF active = t THEN None ELSE active
    /\ prepared' = IF prepared = t THEN None ELSE prepared
    /\ UNCHANGED <<sessions, history, pending>>

\* close(): whoever waits on the session is told it was interrupted.
RecycleClose(t, who) ==
    LET r == executing[t] IN
    /\ recycler = <<t, who>>
    /\ pending' = pending \ {<<t, who>>}
    /\ online' = online \ {t}
    /\ line' = [line EXCEPT ![t] = {}]
    /\ DropExecution(t)
    /\ IF r # None /\ outcome[r] = "unset"
         THEN \E result \in IF t \in cancelling THEN {"cancelled", "interrupted"}
                                                ELSE {"interrupted"} : Report(r, result)
         ELSE UNCHANGED outcome
    /\ UNCHANGED <<authority, executor, history, recovering, recycler>>

\* start(), which may fail, and the finally that reopens the terminal.
RecycleFinish(t, who) ==
    /\ recycler = <<t, who>>
    /\ <<t, who>> \notin pending
    /\ \/ EnsureSession(t)
       \/ UNCHANGED sessions
    /\ recycler' = None
    /\ recovering' = recovering \ {t}
    /\ UNCHANGED <<authority, history, pending>>

=============================================================================
