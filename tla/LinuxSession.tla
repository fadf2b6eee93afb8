----------------------------- MODULE LinuxSession -----------------------------
(***************************************************************************)
(* app_rewrite/linux_terminal_session.py: bash over SSH.                   *)
(*                                                                         *)
(* The marks are the same for every command of a session.  F12 arms traps  *)
(* in bash: the first command it runs then writes BEGIN, the prompt        *)
(* command STATUS, and every prompt ends with a mark.  An execution is     *)
(* over when the prompt is back, never by force: a program that ignores    *)
(* Ctrl+C keeps it waiting, and the application closes the session.        *)
(*                                                                         *)
(* The line editor and the terminal driver are external: Ctrl+C discards   *)
(* the keys before it that bash has not read.                              *)
(***************************************************************************)
EXTENDS ShellSession

PromptMark == <<"prompt", 0>>
BeginMark  == <<"begin", 0>>
StatusMark(how) == <<how, 0>>

-----------------------------------------------------------------------------
(* The executing thread.                                                   *)

\* prepare_command types the text and reads nothing back.  TerminalManager does
\* not call it while the session is being closed.
PrepareLinux ==
    /\ step = "idle" /\ cmd <= LastCommand
    /\ Alive /\ ~closing /\ ~executing
    /\ Send(<<<<"text", cmd>>>>)
    /\ step' = "prepared"
    /\ UNCHANGED <<setting, cmd, retyped, state, cancel, shell, ctl, frame, pty,
                   session, answers, history>>

\* F12 and Enter, whether or not the command was cancelled meanwhile.
SendEnter ==
    /\ step = "installed" /\ Alive /\ ~renewed
    /\ step' = "waiting"
    /\ Send(<<<<"arm", cmd>>, <<"enter", cmd>>>>)
    /\ UNCHANGED <<setting, cmd, retyped, state, cancel, shell, ctl, frame, pty,
                   session, answers, history>>

-----------------------------------------------------------------------------
(* The reader thread.                                                      *)

StatusOf(y, how) == [y EXCEPT !.status = IF flagged THEN "cancelled" ELSE how]

\* Prompts of the line editor come before BEGIN.
AwaitBegin(y, token) ==
    IF token = BeginMark THEN [y EXCEPT !.phase = "capture"] ELSE y

\* A prompt without STATUS: bash was interrupted.
CaptureLinux(y, token) ==
    IF token = BeginMark THEN y
    ELSE IF token = PromptMark THEN [StatusOf(y, "error") EXCEPT !.done = TRUE]
    ELSE IF token[1] \in {"ok", "failed"}
      THEN [StatusOf(y, token[1]) EXCEPT !.phase = "prompt"]
    ELSE [y EXCEPT !.out = Append(@, token)]

AwaitPrompt(y, token) ==
    IF token = PromptMark THEN [y EXCEPT !.done = TRUE] ELSE y

\* _process_execution_bytes, for one token; what no phase takes is for the
\* display.
StepLinux(y, token) ==
    CASE y.phase = "begin"   -> AwaitBegin(y, token)
      [] y.phase = "capture" -> CaptureLinux(y, token)
      [] y.phase = "prompt"  -> AwaitPrompt(y, token)

ReceiveLinux ==
    /\ reader /\ pty # <<>>
    /\ pty' = Tail(pty)
    /\ IF active = 0 THEN UNCHANGED <<active, x>>
       ELSE LET y == StepLinux(x, Head(pty))
            IN IF y.done THEN Complete(y) ELSE x' = y /\ active' = active
    /\ UNCHANGED <<setting, client, executing, flagged, cancel, shell, keys, ctl, frame,
                   session, answers, history>>

\* _fail_active_execution.
FailActive ==
    IF active # 0 THEN Complete([x EXCEPT !.status = "error"]) ELSE UNCHANGED <<active, x>>

\* Faulty variant: the reader just stops.
ReaderStops ==
    /\ reader /\ (closing \/ ~Alive)
    /\ reader' = FALSE
    /\ UNCHANGED <<setting, client, state, cancel, shell, wires, ready, closing, renewed, closes,
                   answers, history>>

\* The channel has ended, or close() asked it to stop.
ReaderEnds ==
    /\ reader /\ (closing \/ ~Alive)
    /\ reader' = FALSE
    /\ FailActive
    /\ UNCHANGED <<setting, client, executing, flagged, cancel, shell, wires, ready, closing,
                   renewed, closes, answers, history>>

-----------------------------------------------------------------------------
(* bash.                                                                   *)

\* The prompt command, if it was armed, and the prompt.  The traps write BEGIN
\* even if no command was run.
PromptCycle(how, begun) ==
    /\ pty' = pty \o (IF press # 0
                        THEN (IF begun THEN <<>> ELSE <<BeginMark>>) \o <<StatusMark(how)>>
                        ELSE <<>>) \o <<PromptMark>>
    /\ press' = 0
    /\ at' = "prompt"

\* bind -x draws the prompt again after its function; press: the traps are set.
ReadText ==
    /\ at = "prompt" /\ keys # <<>> /\ Head(keys)[1] \in {"text", "clear", "arm"}
    /\ keys' = Tail(keys)
    /\ line' = CASE Head(keys)[1] = "text"  -> Head(keys)[2]
                 [] Head(keys)[1] = "clear" -> 0
                 [] OTHER -> line
    /\ IF Head(keys)[1] = "arm" THEN press' = Head(keys)[2] /\ pty' = Append(pty, PromptMark)
                                ELSE UNCHANGED <<press, pty>>
    /\ UNCHANGED <<setting, client, state, cancel, at, prog, ctl, frame, session, answers, history>>

ReadEnter ==
    /\ at = "prompt" /\ keys # <<>> /\ Head(keys)[1] = "enter"
    /\ keys' = Tail(keys)
    /\ Run(line)
    /\ IF line = 0 THEN PromptCycle("ok", FALSE)
       ELSE /\ at' = "running"
            /\ pty' = IF press # 0 THEN Append(pty, BeginMark) ELSE pty
            /\ press' = press
    /\ UNCHANGED <<setting, client, state, cancel, ctl, frame, session, answers,
                   printed, ended, disturbed, timedOut, orphaned>>

WritePieceLinux ==
    /\ at = "running" /\ Writes(prog)
    /\ printed' = [printed EXCEPT ![prog] = Append(@, Piece(prog))]
    /\ pty' = Append(pty, Piece(prog))
    /\ UNCHANGED <<setting, client, state, cancel, shell, keys, ctl, frame, session, answers,
                   ran, ended, disturbed, timedOut, orphaned>>

ProgramEnds(how) ==
    /\ at = "running"
    /\ PromptCycle(how, TRUE)
    /\ ended' = ended \cup {prog}
    /\ UNCHANGED <<setting, client, state, cancel, line, prog, keys, ctl, frame, session, answers,
                   printed, ran, disturbed, timedOut, orphaned>>

\* Ctrl+C clears the line, or stops the program unless it does not care; it may
\* also stop the prompt command before STATUS is written.
ReadInterrupt ==
    /\ at \in {"prompt", "running"}
    /\ \E i \in DOMAIN keys :
         /\ keys[i][1] = "^C"
         /\ keys' = SubSeq(keys, i + 1, Len(keys))
    /\ line' = 0
    /\ IF at = "prompt" THEN PromptCycle("ok", FALSE) /\ UNCHANGED ended
       ELSE \/ UNCHANGED <<at, press, pty, ended>>
            \/ PromptCycle("failed", TRUE) /\ ended' = ended \cup {prog}
            \/ /\ at' = "prompt" /\ press' = 0
               /\ pty' = Append(pty, PromptMark)
               /\ ended' = ended \cup {prog}
    /\ UNCHANGED <<setting, client, state, cancel, prog, ctl, frame, session, answers,
                   printed, ran, disturbed, timedOut, orphaned>>

-----------------------------------------------------------------------------
(* Cancelling, closing and starting again.                                 *)

SendCtrlC ==
    /\ SendInterrupt
    /\ canceller' = 0
    /\ UNCHANGED <<setting, client, state, cancels, shell, ctl, frame, pty, session,
                   answers, printed, ran, ended, timedOut, orphaned>>

\* The channel is gone: whoever executes now, the flag is taken back.
SendCtrlCRaises ==
    /\ interrupting /\ ~Alive
    /\ interrupting' = FALSE /\ canceller' = 0 /\ flagged' = FALSE
    /\ UNCHANGED <<setting, client, active, x, executing, cancels, shell, wires, session,
                   answers, history>>

\* close() asks the reader to stop and fails the execution; then it closes the
\* channel and waits for the reader.
CloseBegins ==
    /\ Alive /\ ~closing /\ (closes < setting.closes \/ flagged)
    /\ closing' = TRUE
    /\ FailActive
    /\ UNCHANGED <<setting, client, executing, flagged, cancel, shell, wires, ready, reader,
                   renewed, closes, answers, history>>

CloseEnds ==
    /\ closing /\ Lose
    /\ closing' = FALSE
    /\ UNCHANGED <<setting, client, state, cancel, line, prog, press, pty, ready, reader,
                   renewed, answers, history>>

\* The connection or the shell is lost.
ChannelLost ==
    /\ Alive /\ ~closing /\ closes < setting.closes
    /\ Lose
    /\ UNCHANGED <<setting, client, state, cancel, line, prog, press, pty, ready, reader,
                   closing, renewed, answers, history>>

\* start() forgets what was being executed.
StartAnew ==
    /\ ~Alive /\ ~reader
    /\ at' = "prompt" /\ line' = 0 /\ prog' = 0 /\ press' = 0
    /\ pty' = <<>>
    /\ reader' = TRUE /\ renewed' = TRUE
    /\ active' = 0 /\ executing' = FALSE /\ flagged' = FALSE
    /\ disturbed' = IF step \in {"prepared", "installed"}
                      THEN disturbed \cup {cmd} ELSE disturbed
    /\ UNCHANGED <<setting, client, x, cancel, keys, ctl, frame, ready, closing, closes,
                   answers, printed, ran, ended, timedOut, orphaned>>

-----------------------------------------------------------------------------
LinuxHost ==
    \/ PrepareLinux \/ Install("begin") \/ SendEnter \/ Refuse \/ Leave
    \/ ReceiveLinux \/ ReaderEnds
    \/ SendCtrlC \/ SendCtrlCRaises
    \/ CloseEnds \/ StartAnew

Bash == ReadText \/ ReadEnter \/ ReadInterrupt

LinuxNext ==
    /\ setting.kind = "linux"
    /\ \/ LinuxHost \/ Bash
       \/ Abandon
       \/ WritePieceLinux
       \/ \E how \in {"ok", "failed"} : ProgramEnds(how)
       \/ Flag \/ CloseBegins \/ ChannelLost
=============================================================================
