---------------------------- MODULE ShellSession ----------------------------
(***************************************************************************)
(* What the terminal sessions have in common                               *)
(* (app_rewrite/windows_terminal_session.py, linux_terminal_session.py):   *)
(* one thread prepares and executes commands, a reader thread sorts what   *)
(* the shell writes into output and display, and other threads cancel or   *)
(* close.                                                                  *)
(*                                                                         *)
(* The shell is external: it reads keys and writes tokens.  A token is     *)
(* <<kind, c>>: a piece of a line or a whole line of command c, an echo of *)
(* its text, a prompt, or a mark of the session's protocol.                *)
(***************************************************************************)
EXTENDS Naturals, Sequences

CONSTANTS
    LastCommand,       \* commands are 1..LastCommand, executed in this order
    Settings    \* which session, and what may happen to it: the pieces of
                \* output of a command, one after the other, the calls of
                \* cancel_current that set the flag, the times the session is
                \* closed or dies

\* Text without its line end, a line, text that ends as the echo of its command
\* begins.
Pieces == {"part", "line", "stem"}

ASSUME BoundsAssumption ==
    /\ LastCommand \in Nat \ {0}
    /\ \A s \in Settings :
         /\ s.kind \in {"powershell", "linux"} /\ s.output \in Seq(Pieces)
         /\ s.cancels \in Nat /\ s.closes \in Nat

VARIABLES
    setting,    \* the setting of this behaviour
    step,       \* where the thread that executes commands stands
    cmd,        \* the command it is at
    retyped,    \* prepare_command has typed the text a second time
    active,     \* _execution_state: the command whose record it is, or 0
    x,          \* the record of the latest execution
    executing,  \* _executing
    flagged,    \* _cancel_requested
    canceller,  \* command a cancel_current is at work on, or 0
    interrupting, \* its Ctrl+C is still to be sent
    ready,      \* _prompt_ready_text; NoText while the event is cleared
    reader,     \* the reader thread runs
    closing,    \* close() is under way
    renewed,    \* the session is not the one whose channel execute() took
    at,         \* what the shell does; "dead" once it is gone
    line,       \* command whose text stands in the line editor, or 0
    prog,       \* command the shell runs or ran last, or 0
    press,      \* command for which it was told to run a line, or 0
    keys,       \* input the shell has not read
    ctl,        \* messages of the control pipe nobody has handled
    frame,      \* text that a mark may still overtake
    pty,        \* what the reader gets before it
    result,     \* command -> how execute() ended
    reported,   \* command -> the output it reported
    printed,    \* history: command -> pieces it wrote
    ran,        \* history: command -> times the shell ran its text
    ended,      \* history: commands whose line the shell ran to the end
    disturbed,  \* history: commands whose prepared text may be gone: a late
                \* Ctrl+C for another command, or a session started anew
    timedOut,   \* history: executions completed without their last mark
    orphaned,   \* history: executions begun after the reader had ended
    cancels, closes

client  == <<step, cmd, retyped>>
state   == <<active, x, executing, flagged>>
cancel  == <<canceller, interrupting, cancels>>
shell   == <<at, line, prog, press>>
wires   == <<keys, ctl, frame, pty>>
links   == <<ready, reader, closing, closes>>
session == <<links, renewed>>
answers == <<result, reported>>
history == <<printed, ran, ended, disturbed, timedOut, orphaned>>
vars    == <<setting, client, state, cancel, shell, wires, session, answers, history>>

Commands == 1..LastCommand
NoText   == LastCommand + 1
Texts    == Pieces \cup {"echo"}
Marks    == {"start", "end", "begin", "ok", "failed", "prompt"}
Tokens   == (Texts \cup Marks) \X (0..LastCommand)
Keys     == {"sync", "clear", "text", "run", "arm", "enter", "^C"} \X (0..LastCommand)
Messages == {"ready", "begin", "ok", "failed"} \X (0..LastCommand)
Phases   == {"none", "wait", "capture", "drain", "begin", "prompt"}
Ends     == {"none", "ok", "failed", "cancelled", "error"}
Execution ==
    [phase : Phases, id : 0..LastCommand, startMark : BOOLEAN, endSeen : BOOLEAN,
     endMark : BOOLEAN, ended : Ends, echo : BOOLEAN, buf : Seq(Tokens),
     prefix : Seq(Tokens), out : Seq(Tokens), status : Ends, done : BOOLEAN]

TypeOK ==
    /\ setting \in Settings
    /\ step \in {"idle", "syncing", "checking", "prepared", "installed", "waiting"}
    /\ cmd \in 1..LastCommand + 1
    /\ retyped \in BOOLEAN
    /\ active \in 0..LastCommand
    /\ x \in Execution
    /\ executing \in BOOLEAN /\ flagged \in BOOLEAN
    /\ canceller \in 0..LastCommand /\ interrupting \in BOOLEAN
    /\ ready \in 0..LastCommand + 1
    /\ reader \in BOOLEAN /\ closing \in BOOLEAN /\ renewed \in BOOLEAN
    /\ at \in {"prompt", "beginning", "fencing", "accepting", "running",
               "ending", "closingfence", "prompting", "dead"}
    /\ line \in 0..LastCommand /\ prog \in 0..LastCommand /\ press \in 0..LastCommand
    /\ keys \in Seq(Keys) /\ ctl \in Seq(Messages)
    /\ frame \in Seq(Tokens) /\ pty \in Seq(Tokens)
    /\ result \in [Commands -> Ends \cup {"unprepared"}]
    /\ reported \in [Commands -> Seq(Tokens)]
    /\ printed \in [Commands -> Seq(Tokens)]
    /\ ran \in [Commands -> Nat]
    /\ ended \subseteq Commands /\ disturbed \subseteq Commands
    /\ timedOut \subseteq Commands /\ orphaned \subseteq Commands
    /\ cancels \in Nat /\ closes \in Nat

NewExecution(phase) ==
    [phase |-> phase, id |-> 0, startMark |-> FALSE, endSeen |-> FALSE,
     endMark |-> FALSE, ended |-> "none", echo |-> TRUE, buf |-> <<>>,
     prefix |-> <<>>, out |-> <<>>, status |-> "none", done |-> FALSE]

Alive == at # "dead"

Init ==
    /\ setting \in Settings
    /\ step = "idle" /\ cmd = 1 /\ retyped = FALSE
    /\ active = 0 /\ x = [NewExecution("none") EXCEPT !.done = TRUE]
    /\ executing = FALSE /\ flagged = FALSE
    /\ canceller = 0 /\ interrupting = FALSE /\ cancels = 0
    /\ ready = NoText /\ reader = TRUE /\ closing = FALSE /\ renewed = FALSE /\ closes = 0
    /\ at = "prompt" /\ line = 0 /\ prog = 0 /\ press = 0
    /\ keys = <<>> /\ ctl = <<>> /\ frame = <<>> /\ pty = <<>>
    /\ result = [c \in Commands |-> "none"]
    /\ reported = [c \in Commands |-> <<>>]
    /\ printed = [c \in Commands |-> <<>>]
    /\ ran = [c \in Commands |-> 0]
    /\ ended = {} /\ disturbed = {} /\ timedOut = {} /\ orphaned = {}

Send(ks) == keys' = IF Alive THEN keys \o ks ELSE keys

\* The caller goes on to the next command.
NextCommand(how) ==
    /\ result' = [result EXCEPT ![cmd] = how]
    /\ step' = "idle"
    /\ cmd' = cmd + 1
    /\ retyped' = FALSE

\* Faulty variant: a record that is done stays current.
CompleteKeepsRecord(y) ==
    /\ x' = [y EXCEPT !.done = TRUE]
    /\ active' = active

\* _complete_execution_locked: the record y is done, and no longer current.
Complete(y) ==
    /\ x' = [y EXCEPT !.done = TRUE]
    /\ active' = 0

-----------------------------------------------------------------------------
(* What the executing thread does alike in both sessions.                  *)

\* The command is not executed after all: prepare_command was cancelled, or
\* the application discards what it prepared, and clears the line.
Abandon ==
    /\ step \in {"syncing", "checking", "prepared"}
    /\ Send(<<<<"clear", 0>>>>)
    /\ NextCommand("unprepared")
    /\ UNCHANGED <<setting, state, cancel, shell, ctl, frame, pty, session, reported, history>>

\* execute() installs its record.
Install(phase) ==
    /\ step = "prepared"
    /\ Alive /\ ~executing
    /\ step' = "installed"
    /\ active' = cmd
    /\ x' = NewExecution(phase)
    /\ executing' = TRUE
    /\ flagged' = FALSE
    /\ orphaned' = IF reader THEN orphaned ELSE orphaned \cup {cmd}
    /\ renewed' = FALSE
    /\ UNCHANGED <<setting, cmd, retyped, cancel, shell, wires, links, answers,
                   printed, ran, ended, disturbed, timedOut>>

\* execute() refuses: the session is gone, or it could not send.
Refuse ==
    /\ \/ /\ step = "prepared" /\ ~Alive
          /\ UNCHANGED <<active, executing, flagged>>
       \/ /\ step = "installed"
          /\ ~Alive \/ (setting.kind = "linux" /\ renewed)
          /\ active' = 0 /\ executing' = FALSE /\ flagged' = FALSE
    /\ NextCommand("error")
    /\ UNCHANGED <<setting, x, cancel, shell, wires, session, reported, history>>

\* execute() wakes up, tells its caller how the command ended, and leaves.
Leave ==
    /\ step = "waiting" /\ x.done
    /\ NextCommand(x.status)
    /\ reported' = [reported EXCEPT ![cmd] = x.out]
    /\ active' = 0
    /\ executing' = FALSE
    /\ flagged' = FALSE
    /\ UNCHANGED <<setting, x, cancel, shell, wires, session, history>>

-----------------------------------------------------------------------------
(* The shell's programs.                                                   *)

Writes(c) == Len(printed[c]) < Len(setting.output)
Piece(c)  == <<setting.output[Len(printed[c]) + 1], c>>

\* The shell runs the text in the line editor.
Run(c) ==
    /\ ran' = IF c = 0 THEN ran ELSE [ran EXCEPT ![c] = @ + 1]
    /\ prog' = c
    /\ line' = 0

-----------------------------------------------------------------------------
(* Cancelling.                                                             *)

\* cancel_current sets the flag; its Ctrl+C is sent after the lock is released.
Flag ==
    /\ cancels < setting.cancels
    /\ canceller = 0
    /\ executing /\ ~flagged
    /\ flagged' = TRUE
    /\ canceller' = cmd
    /\ interrupting' = TRUE
    /\ cancels' = cancels + 1
    /\ UNCHANGED <<setting, client, active, x, executing, shell, wires, session, answers, history>>

\* It may come when another command is already prepared.
SendInterrupt ==
    /\ interrupting /\ Alive
    /\ Send(<<<<"^C", canceller>>>>)
    /\ interrupting' = FALSE
    /\ disturbed' = IF step = "idle" \/ cmd = canceller THEN disturbed ELSE disturbed \cup {cmd}

\* The application, or the death of the shell, leaves nothing to talk to.
Lose ==
    /\ closes' = IF closes < setting.closes THEN closes + 1 ELSE closes
    /\ at' = "dead"
    /\ keys' = <<>> /\ ctl' = <<>> /\ frame' = <<>>
=============================================================================
