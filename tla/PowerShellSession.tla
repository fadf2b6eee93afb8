-------------------------- MODULE PowerShellSession --------------------------
(***************************************************************************)
(* app_rewrite/windows_terminal_session.py: PowerShell 5.1 on a pseudo     *)
(* console, with a control pipe (windows_control_channel.py,               *)
(* ipc_named_pipe.py) on which the scripts it is started with announce     *)
(* BEGIN and END of a line and report the text in the editor.              *)
(*                                                                         *)
(* Where output begins and ends is told by two marks that the host chooses *)
(* for each line and the shell writes to the console.  The console paints  *)
(* text later than it passes on marks: a mark may overtake text.  It is    *)
(* assumed to have painted by the time the editor reads its next key.      *)
(*                                                                         *)
(* Not covered: a Ctrl+C between the writing of a message and the reading  *)
(* of its answer inside the scripts, and marks split or decorated by the   *)
(* console (a mark is one token).                                          *)
(***************************************************************************)
EXTENDS ShellSession

Waiting(c) == step = "waiting" /\ active = c

-----------------------------------------------------------------------------
(* The executing thread: prepare_command and execute.                      *)

\* read_prompt_buffer: forget the last report, press F9, wait for another.
AskForLine == ready' = NoText

\* Faulty variant: the line is believed to be empty.
PrepareBlindly ==
    /\ step = "idle" /\ cmd <= LastCommand
    /\ Alive /\ ~executing
    /\ Send(<<<<"clear", 0>>, <<"text", cmd>>>>)
    /\ step' = "prepared"
    /\ UNCHANGED <<setting, cmd, retyped, state, cancel, shell, ctl, frame, pty,
                   session, answers, history>>

Prepare ==
    /\ step = "idle" /\ cmd <= LastCommand
    /\ Alive /\ ~executing
    /\ AskForLine
    /\ Send(<<<<"sync", 0>>>>)
    /\ step' = "syncing"
    /\ UNCHANGED <<setting, cmd, retyped, state, cancel, shell, ctl, frame, pty,
                   reader, closing, renewed, closes, answers, history>>

\* type_command clears the line (F10) and types; then the line is read back.
Type ==
    /\ AskForLine
    /\ Send(<<<<"text", cmd>>, <<"sync", 0>>>>)
    /\ step' = "checking"

TypeCommand ==
    /\ step = "syncing" /\ Alive /\ ready # NoText
    /\ Type
    /\ UNCHANGED <<setting, cmd, retyped, state, cancel, shell, ctl, frame, pty,
                   reader, closing, renewed, closes, answers, history>>

Retype ==
    /\ step = "checking" /\ Alive
    /\ ready \notin {NoText, cmd} /\ ~retyped
    /\ Type
    /\ retyped' = TRUE
    /\ UNCHANGED <<setting, cmd, state, cancel, shell, ctl, frame, pty,
                   reader, closing, renewed, closes, answers, history>>

Prepared ==
    /\ step = "checking" /\ ready = cmd
    /\ step' = "prepared"
    /\ UNCHANGED <<setting, cmd, retyped, state, cancel, shell, wires, session, answers, history>>

\* F12, unless the command was cancelled since execute() began.
PressRun ==
    /\ step = "installed" /\ Alive
    /\ step' = "waiting"
    /\ IF flagged THEN UNCHANGED keys ELSE Send(<<<<"run", cmd>>>>)
    /\ UNCHANGED <<setting, cmd, retyped, state, cancel, shell, ctl, frame, pty,
                   session, answers, history>>

\* The wait is cut short: the process is gone.
WaitFindsDead ==
    /\ Waiting(cmd) /\ ~Alive
    /\ Complete([x EXCEPT !.status = "error"])
    /\ UNCHANGED <<setting, client, executing, flagged, cancel, shell, wires,
                   session, answers, history>>

\* Two seconds after END: what was received counts as output.  By then nothing
\* is on its way any more.
WaitTimesOut ==
    /\ Waiting(cmd) /\ x.endSeen
    /\ at \notin {"closingfence", "prompting"} /\ frame = <<>> /\ pty = <<>>
    /\ Complete([x EXCEPT !.out = @ \o x.buf, !.buf = <<>>,
                          !.status = IF @ = "cancelled" THEN @ ELSE x.ended])
    /\ timedOut' = timedOut \cup {cmd}
    /\ UNCHANGED <<setting, client, executing, flagged, cancel, shell, wires,
                   session, answers, printed, ran, ended, disturbed, orphaned>>

-----------------------------------------------------------------------------
(* The reader thread.                                                      *)

Has(buf, mark) == \E i \in DOMAIN buf : buf[i] = mark
First(buf, mark) == CHOOSE i \in DOMAIN buf : buf[i] = mark /\ \A j \in 1..i - 1 : buf[j] # mark
After(buf, i) == SubSeq(buf, i + 1, Len(buf))
Before(buf, i) == SubSeq(buf, 1, i - 1)
Prompt == <<"prompt", 0>>
EndsLine(buf) == \E i \in DOMAIN buf : buf[i][1] = "line"
MayBeginEcho(buf) == buf # <<>> /\ buf[Len(buf)][1] = "stem"

\* Faulty variant: no start mark is waited for.
CaptureAtOnce(y) == [y EXCEPT !.phase = IF @ = "wait" THEN "capture" ELSE @]

\* WAIT_START_FENCE: what comes before the mark is for the display only.
AwaitStart(y) ==
    IF y.phase # "wait" \/ ~y.startMark THEN y
    ELSE IF Has(y.buf, <<"start", y.id>>)
           THEN [y EXCEPT !.phase = "capture",
                          !.buf = After(@, First(@, <<"start", y.id>>))]
           ELSE [y EXCEPT !.buf = <<>>]

\* _append_capture_bytes: until a line has ended, or while the end of what came
\* may be the beginning of the command's echo, it is held back.
AppendCapture(y, bytes) ==
    LET held == y.prefix \o bytes
    IN IF ~y.echo THEN [y EXCEPT !.out = @ \o held]
       ELSE IF Has(held, <<"echo", cmd>>)
         THEN [y EXCEPT !.echo = FALSE, !.prefix = <<>>,
                        !.out = @ \o After(held, First(held, <<"echo", cmd>>))]
       ELSE IF EndsLine(held) /\ ~MayBeginEcho(held)
         THEN [y EXCEPT !.echo = FALSE, !.prefix = <<>>, !.out = @ \o held]
       ELSE [y EXCEPT !.prefix = held]

\* What stands before the last prompt in front of the end mark is output.
BeforePrompt(bytes) ==
    LET prompts == {i \in DOMAIN bytes : bytes[i] = Prompt}
    IN IF prompts = {} THEN bytes
       ELSE Before(bytes, CHOOSE i \in prompts : \A j \in prompts : j <= i)

\* CAPTURE, up to the end mark once it is known.
Capture(y) ==
    IF y.phase # "capture" THEN y
    ELSE IF ~y.endMark THEN [AppendCapture(y, y.buf) EXCEPT !.buf = <<>>]
    ELSE IF ~Has(y.buf, <<"end", y.id>>) THEN y
    ELSE LET i == First(y.buf, <<"end", y.id>>)
         IN [y EXCEPT !.phase = "drain",
                      !.out = @ \o BeforePrompt(Before(y.buf, i)),
                      !.buf = After(@, i),
                      !.status = IF flagged THEN "cancelled" ELSE y.ended]

\* Faulty variant: what comes behind the end mark is for the display.
DrainDropsLate(y) ==
    IF y.phase # "drain" \/ ~Has(y.buf, Prompt) THEN y
    ELSE [y EXCEPT !.buf = <<>>, !.done = TRUE]

\* DRAIN_AFTER_END: text that the mark overtook, until the prompt.
Drain(y) ==
    IF y.phase # "drain" \/ ~Has(y.buf, Prompt) THEN y
    ELSE LET late == BeforePrompt(y.buf)
             text == IF Has(late, <<"echo", cmd>>)
                       THEN After(late, First(late, <<"echo", cmd>>)) ELSE late
         IN [y EXCEPT !.out = @ \o text, !.buf = <<>>, !.done = TRUE]

ProcessExecutionBytes(bytes) ==
    LET y == Drain(Capture(AwaitStart([x EXCEPT !.buf = @ \o bytes])))
    IN IF y.done THEN Complete(y) ELSE x' = y /\ active' = active

Rest(bytes, n) == After(bytes, IF n < Len(bytes) THEN n ELSE Len(bytes))

\* The console paints what the reader gets.  Without a current execution
\* everything is for the display.
Receive(n) ==
    /\ reader /\ n \in 1..Len(pty \o frame)
    /\ pty' = Rest(pty, n)
    /\ frame' = IF n > Len(pty) THEN Rest(frame, n - Len(pty)) ELSE frame
    /\ IF active # 0 THEN ProcessExecutionBytes(SubSeq(pty \o frame, 1, n))
                     ELSE UNCHANGED <<active, x>>
    /\ UNCHANGED <<setting, client, executing, flagged, cancel, shell, keys, ctl,
                   session, answers, history>>

\* ReadFile fails: the execution under way is interrupted.
ReaderFails ==
    /\ reader /\ ~Alive
    /\ reader' = FALSE
    /\ IF active # 0 THEN Complete([x EXCEPT !.status = "error"]) ELSE UNCHANGED <<active, x>>
    /\ UNCHANGED <<setting, client, executing, flagged, cancel, shell, wires,
                   ready, closing, renewed, closes, answers, history>>

-----------------------------------------------------------------------------
(* The thread of the control pipe: _handle_control_message.                *)

\* PROMPT_READY has no answer.
HandlePromptReady ==
    /\ ctl # <<>> /\ Head(ctl)[1] = "ready"
    /\ ready' = Head(ctl)[2]
    /\ ctl' = Tail(ctl)
    /\ UNCHANGED <<setting, client, state, cancel, shell, keys, frame, pty,
                   reader, closing, renewed, closes, answers, history>>

\* The script throws: BEGIN leaves the line in the editor, END a bare prompt.
Refused == at' = "prompt"

\* First section of BEGIN: the execution takes the shell's id.
HandleBegin ==
    /\ ctl # <<>> /\ Head(ctl)[1] = "begin" /\ at = "beginning"
    /\ ctl' = Tail(ctl)
    /\ IF active = 0 \/ x.id \notin {0, press} THEN Refused /\ UNCHANGED x
       ELSE x' = [x EXCEPT !.id = press] /\ at' = "fencing"
    /\ UNCHANGED <<setting, client, active, executing, flagged, cancel, line, prog, press,
                   keys, frame, pty, session, answers, history>>

\* Second section: its start mark.
HandleBeginFence ==
    /\ at = "fencing"
    /\ IF active = 0 \/ x.id # press THEN Refused /\ UNCHANGED x
       ELSE x' = [x EXCEPT !.startMark = TRUE] /\ at' = "accepting"
    /\ UNCHANGED <<setting, client, active, executing, flagged, cancel, line, prog, press,
                   wires, session, answers, history>>

\* First section of END: how the line ended.
HandleEnd ==
    /\ ctl # <<>> /\ Head(ctl)[1] \in {"ok", "failed"} /\ at = "ending"
    /\ ctl' = Tail(ctl)
    /\ IF active = 0 \/ x.id # press \/ x.endSeen
         THEN Refused /\ UNCHANGED x
         ELSE x' = [x EXCEPT !.endSeen = TRUE, !.ended = Head(ctl)[1]] /\ at' = "closingfence"
    /\ UNCHANGED <<setting, client, active, executing, flagged, cancel, line, prog, press,
                   keys, frame, pty, session, answers, history>>

\* Second section: its end mark.
HandleEndFence ==
    /\ at = "closingfence"
    /\ IF active = 0 \/ x.id # press THEN Refused /\ UNCHANGED x
       ELSE x' = [x EXCEPT !.endMark = TRUE] /\ at' = "prompting"
    /\ UNCHANGED <<setting, client, active, executing, flagged, cancel, line, prog, press,
                   wires, session, answers, history>>

-----------------------------------------------------------------------------
(* The shell: the editor's key handlers, the prompt function, the console. *)

\* The editor reads a key: F9, F10, a text, F12 or Ctrl+C.
ReadKey ==
    /\ at = "prompt" /\ keys # <<>>
    /\ keys' = Tail(keys)
    /\ pty' = pty \o frame /\ frame' = <<>>
    /\ LET key == Head(keys)
       IN /\ ctl' = CASE key[1] = "sync" -> Append(ctl, <<"ready", line>>)
                      [] key[1] = "run"  -> Append(ctl, <<"begin", key[2]>>)
                      [] OTHER -> ctl
          /\ at' = IF key[1] = "run" THEN "beginning" ELSE at
          /\ press' = IF key[1] = "run" THEN key[2] ELSE press
          /\ line' = CASE key[1] \in {"clear", "^C"} -> 0
                       [] key[1] = "text" -> key[2]
                       [] OTHER -> line
    /\ UNCHANGED <<setting, client, state, cancel, prog, session, answers, history>>

\* F12 was acknowledged: the start mark is written and the line accepted,
\* which may draw the text again.
AcceptLine(drawn) ==
    /\ at = "accepting"
    /\ at' = "running"
    /\ Run(line)
    /\ drawn # <<>> => line # 0
    /\ pty' = Append(pty, <<"start", press>>)
    /\ frame' = frame \o drawn
    /\ UNCHANGED <<setting, client, state, cancel, press, keys, ctl, session, answers,
                   printed, ended, disturbed, timedOut, orphaned>>

WritePiece ==
    /\ at = "running" /\ prog # 0 /\ Writes(prog)
    /\ printed' = [printed EXCEPT ![prog] = Append(@, Piece(prog))]
    /\ frame' = Append(frame, Piece(prog))
    /\ UNCHANGED <<setting, client, state, cancel, shell, keys, ctl, pty, session, answers,
                   ran, ended, disturbed, timedOut, orphaned>>

\* The line ends; the prompt function sends END before it draws.
LineEnds(how) ==
    /\ at = "running"
    /\ at' = "ending"
    /\ ended' = ended \cup {press}
    /\ ctl' = Append(ctl, <<how, press>>)
    /\ UNCHANGED <<setting, client, state, cancel, line, prog, press, keys, frame, pty,
                   session, answers, printed, ran, disturbed, timedOut, orphaned>>

\* Ctrl+C reaches a running program ahead of the keys nobody has read; the
\* program may not care.
Signal ==
    /\ at = "running"
    /\ \E i \in DOMAIN keys :
         /\ keys[i][1] = "^C"
         /\ keys' = Before(keys, i) \o After(keys, i)
    /\ \/ UNCHANGED <<at, ended, ctl>>
       \/ /\ at' = "ending"
          /\ ended' = ended \cup {press}
          /\ ctl' = Append(ctl, <<"failed", press>>)
    /\ UNCHANGED <<setting, client, state, cancel, line, prog, press, frame, pty,
                   session, answers, printed, ran, disturbed, timedOut, orphaned>>

\* END was acknowledged: the prompt and behind it the end mark, which may
\* overtake what is not painted.
DrawPrompt ==
    /\ at = "prompting"
    /\ at' = "prompt"
    /\ \/ pty' = Append(pty, <<"end", press>>) /\ frame' = Append(frame, Prompt)
       \/ pty' = pty \o frame \o <<Prompt, <<"end", press>>>> /\ frame' = <<>>
    /\ UNCHANGED <<setting, client, state, cancel, line, prog, press, keys, ctl,
                   session, answers, history>>

-----------------------------------------------------------------------------
(* Cancelling, dying and starting again.                                   *)

Interrupt ==
    /\ SendInterrupt
    /\ UNCHANGED <<setting, client, state, canceller, cancels, shell, ctl, frame, pty, session,
                   answers, printed, ran, ended, timedOut, orphaned>>

InterruptRaises ==
    /\ interrupting /\ ~Alive
    /\ interrupting' = FALSE /\ canceller' = 0
    /\ flagged' = IF active = canceller THEN FALSE ELSE flagged
    /\ UNCHANGED <<setting, client, active, x, executing, cancels, shell, wires, session,
                   answers, history>>

\* A moment after Ctrl+C the execution, if it is still the same, is completed
\* by force; what was received is for the display.
CompleteCancelled ==
    /\ canceller # 0 /\ ~interrupting
    /\ canceller' = 0
    /\ IF active = canceller
         THEN Complete([x EXCEPT !.buf = <<>>, !.status = "cancelled"])
         ELSE UNCHANGED <<active, x>>
    /\ UNCHANGED <<setting, client, executing, flagged, interrupting, cancels, shell, wires,
                   session, answers, history>>

\* The process dies, or close() ends it.
SessionLost ==
    /\ Alive /\ closes < setting.closes
    /\ Lose
    /\ UNCHANGED <<setting, client, state, cancel, line, prog, press, pty, ready, reader,
                   closing, renewed, answers, history>>

\* start(), once the loss was noticed: a wait looks every 0.10 s, a start
\* takes longer.
Restart ==
    /\ ~Alive /\ (active = 0 \/ step = "installed")
    /\ at' = "prompt" /\ line' = 0 /\ prog' = 0 /\ press' = 0
    /\ pty' = <<>>
    /\ reader' = TRUE
    /\ disturbed' = IF step \in {"checking", "prepared", "installed"}
                      THEN disturbed \cup {cmd} ELSE disturbed
    /\ UNCHANGED <<setting, client, state, cancel, keys, ctl, frame, ready, closing, renewed, closes,
                   answers, printed, ran, ended, timedOut, orphaned>>

-----------------------------------------------------------------------------
Host ==
    \/ Prepare \/ TypeCommand \/ Retype \/ Prepared
    \/ Install("wait") \/ PressRun \/ Refuse \/ Leave
    \/ WaitFindsDead \/ ReaderFails
    \/ HandlePromptReady \/ HandleBegin \/ HandleBeginFence \/ HandleEnd \/ HandleEndFence
    \/ Interrupt \/ InterruptRaises \/ CompleteCancelled
    \/ Restart

Shell ==
    \/ ReadKey \/ DrawPrompt
    \/ \E drawn \in {<<>>, <<<<"echo", line>>>>} : AcceptLine(drawn)

PowerShellNext ==
    /\ setting.kind = "powershell"
    /\ \/ Host \/ Shell
       \/ \E n \in 1..Len(pty \o frame) : Receive(n)
       \/ WaitTimesOut
       \/ Abandon
       \/ WritePiece
       \/ \E how \in {"ok", "failed"} : LineEnds(how)
       \/ Signal \/ Flag \/ SessionLost
=============================================================================
