---------------------------- MODULE ControlChannel ----------------------------
(***************************************************************************)
(* The pipe between a PowerShell session and the scripts in its shell:      *)
(* WindowsControlChannel with its thread and its close(), the frames of     *)
(* ipc_named_pipe.py, and the shell's end as the scripts of                 *)
(* windows_terminal_session.py write it: READY when it starts, PING and     *)
(* BEGIN when F12 is pressed, END when the prompt returns.                  *)
(*                                                                         *)
(* A frame is a header and two pieces of payload; ReadFile and WriteFile    *)
(* may carry any part of what they are asked for.  A Ctrl+C may end a       *)
(* script in the middle of a frame it writes or reads.                      *)
(***************************************************************************)
EXTENDS Naturals, Sequences, FiniteSets

CONSTANTS MaxCommands,   \* bound: times F12 is pressed
          MaxInterrupts  \* bound: Ctrl+C in the middle of a script

VARIABLES
    thread,     \* _run: where it is
    pipe,       \* the server's end: "none", "listening", "connected", "closed"
    toServer,   \* bytes on their way to the channel
    toShell,    \* bytes on their way to the shell
    got,        \* what _read_exact has of the current frame
    handled,    \* messages handed on, in order
    stop, ready, failed,  \* _stop, _ready, _error
    shell,      \* the script: where it is and what it asks
    answer,     \* what the script has read of the answer
    sent,       \* messages the scripts began to write, in order
    started,    \* commands whose line the shell accepted
    closer,     \* close(): where it is and what it read
    begun,      \* commands begun (bound)
    interrupts  \* interruptions (bound)

channelVars == <<thread, pipe, toServer, toShell, got, handled, stop, ready, failed, shell,
                 answer, sent, started, closer, begun, interrupts>>

Server  == <<thread, pipe, got, handled, ready, failed>>
Scripts == <<shell, answer, sent, started, begun, interrupts>>

\* Messages are <<kind, command>>; the answer to m is told by m.
Frame(m)  == <<<<m, 0>>, <<m, 1>>, <<m, 2>>>>
Header(s) == Head(s)[2] = 0
FrameSize == 3
Nothing   == <<"nothing", 0>>

ChannelInit ==
    /\ thread = "start" /\ pipe = "none"
    /\ toServer = <<>> /\ toShell = <<>> /\ got = <<>> /\ handled = <<>>
    /\ stop = FALSE /\ ready = FALSE /\ failed = FALSE
    /\ shell = [at |-> "absent", asks |-> Nothing] /\ answer = <<>> /\ sent = <<>> /\ started = {}
    /\ closer = [at |-> "away", connected |-> FALSE]
    /\ begun = 0 /\ interrupts = 0

ChannelTypeOK ==
    /\ thread \in {"start", "accept", "first", "receive", "sending", "answer", "ended"}
    /\ pipe \in {"none", "listening", "connected", "closed"}
    /\ Len(got) <= FrameSize /\ Len(answer) <= FrameSize
    /\ stop \in BOOLEAN /\ ready \in BOOLEAN /\ failed \in BOOLEAN
    /\ shell.at \in {"absent", "write", "rest", "read", "run", "lost", "gone"}
    /\ closer.at \in {"away", "stopping", "look", "join", "done"}
    /\ started \subseteq 1..MaxCommands

-----------------------------------------------------------------------------
(* The thread of the channel.                                                *)

Create ==
    /\ thread = "start" /\ thread' = "accept" /\ pipe' = "listening"
    /\ UNCHANGED <<toServer, toShell, got, handled, stop, ready, failed, closer>> /\ UNCHANGED Scripts

\* accept returns and the connection is there for close() to find
Accepted ==
    /\ thread = "accept" /\ pipe = "connected" /\ thread' = "first"
    /\ UNCHANGED <<pipe, toServer, toShell, got, handled, stop, ready, failed, closer>> /\ UNCHANGED Scripts

Ends(error) ==
    /\ thread' = "ended" /\ pipe' = "closed"
    /\ failed' = (failed \/ (error /\ ~stop)) /\ ready' = (ready \/ (error /\ ~stop))

ShellIsGone == shell.at \in {"absent", "gone"} /\ pipe = "connected"

\* _read_exact asks for what the frame still lacks and no more
ReadSome ==
    /\ thread \in {"first", "receive"} /\ toServer # <<>> /\ Len(got) < FrameSize
    /\ \E n \in 1..(IF got = <<>> THEN 1 ELSE FrameSize - Len(got)) :
         /\ n <= Len(toServer)
         /\ got' = got \o SubSeq(toServer, 1, n)
         /\ toServer' = SubSeq(toServer, n + 1, Len(toServer))
    /\ UNCHANGED <<thread, pipe, toShell, handled, stop, ready, failed, closer>> /\ UNCHANGED Scripts

\* four bytes of payload are no length: the frame is refused and the thread ends
LengthIsRefused ==
    /\ thread \in {"first", "receive"} /\ got # <<>> /\ ~Header(got)
    /\ Ends(TRUE) /\ got' = <<>>
    /\ UNCHANGED <<toServer, toShell, handled, stop, closer>> /\ UNCHANGED Scripts

Message == IF got = Frame(got[1][1]) THEN got[1][1] ELSE <<"garbage", 0>>

\* Anything but READY ends a connection that begins; later everything is answered.
TakeMessage ==
    /\ thread \in {"first", "receive"} /\ Len(got) = FrameSize /\ Header(got)
    /\ got' = <<>> /\ handled' = Append(handled, Message)
    /\ \/ /\ thread = "receive" \/ Message[1] = "READY"
          /\ thread' = IF thread = "first" THEN "answer" ELSE "sending"
          /\ toShell' = toShell \o Frame(Message)
          /\ UNCHANGED <<pipe, failed, ready>>
       \/ /\ thread = "first" /\ Message[1] # "READY"
          /\ Ends(TRUE) /\ UNCHANGED toShell
    /\ UNCHANGED <<toServer, stop, closer>> /\ UNCHANGED Scripts

\* _stop is looked at once, before the next frame is waited for
Continue ==
    /\ thread \in {"answer", "sending"}
    /\ ready' = TRUE
    /\ IF stop THEN thread' = "ended" /\ pipe' = "closed" ELSE thread' = "receive" /\ UNCHANGED pipe
    /\ UNCHANGED <<toServer, toShell, got, handled, stop, failed, closer>> /\ UNCHANGED Scripts

\* EOF: an error while the first frame is awaited, the end of the loop later
EndOfFile ==
    /\ thread \in {"first", "receive"} /\ ShellIsGone /\ toServer = <<>> /\ Len(got) < FrameSize
    /\ Ends(thread = "first")
    /\ UNCHANGED <<toServer, toShell, got, handled, stop, closer>> /\ UNCHANGED Scripts

-----------------------------------------------------------------------------
(* The scripts in the shell.                                                 *)

Says(m) == /\ shell' = [at |-> "write", asks |-> m] /\ sent' = Append(sent, m)
           /\ toServer' = Append(toServer, <<m, 0>>)      \* the header is a write of its own

Connect ==
    /\ shell.at = "absent" /\ pipe = "listening"
    /\ pipe' = "connected"
    /\ Says(<<"READY", 0>>)
    /\ UNCHANGED <<thread, toShell, got, handled, stop, ready, failed, answer, started, closer, begun, interrupts>>

WritePayload ==
    /\ shell.at = "write"
    /\ toServer' = toServer \o Tail(Frame(shell.asks))
    /\ shell' = [shell EXCEPT !.at = "read"] /\ answer' = <<>>
    /\ UNCHANGED <<toShell, sent, started, stop, closer, begun, interrupts>> /\ UNCHANGED Server

ReadAnswer ==
    /\ shell.at = "read" /\ toShell # <<>> /\ Len(answer) < FrameSize
    /\ \E n \in 1..(IF answer = <<>> THEN 1 ELSE FrameSize - Len(answer)) :
         /\ n <= Len(toShell)
         /\ answer' = answer \o SubSeq(toShell, 1, n)
         /\ toShell' = SubSeq(toShell, n + 1, Len(toShell))
    /\ UNCHANGED <<toServer, shell, sent, started, stop, closer, begun, interrupts>> /\ UNCHANGED Server

\* F12: a PING and then the BEGIN of the line
PressF12 ==
    /\ shell.at = "rest" /\ begun < MaxCommands /\ begun' = begun + 1
    /\ Says(<<"PING", 0>>)
    /\ UNCHANGED <<toShell, answer, started, stop, closer, interrupts>> /\ UNCHANGED Server

\* a header that is a piece of payload: a length for which no bytes come
AnswerIsNoFrame ==
    /\ shell.at = "read" /\ answer # <<>> /\ ~Header(answer)
    /\ shell' = [shell EXCEPT !.at = "lost"]
    /\ UNCHANGED <<toServer, toShell, answer, sent, started, stop, closer, begun, interrupts>> /\ UNCHANGED Server

\* Faulty variant: any answer will do.
AnswerOfAny(m) == answer # <<>>

\* ACK:PING carries nothing of the request, ACK:BEGIN and ACK:END its number
AnswerOf(m) == answer = Frame(m)

TakeAnswer ==
    /\ shell.at = "read" /\ Len(answer) = FrameSize /\ Header(answer) /\ AnswerOf(shell.asks)
    /\ CASE shell.asks[1] = "PING"  -> Says(<<"BEGIN", begun>>) /\ UNCHANGED started
         [] shell.asks[1] = "BEGIN" -> /\ shell' = [at |-> "run", asks |-> shell.asks]
                                       /\ started' = started \cup {shell.asks[2]}
                                       /\ UNCHANGED <<sent, toServer>>
         [] OTHER                   -> /\ shell' = [at |-> "rest", asks |-> Nothing]
                                       /\ UNCHANGED <<sent, toServer, started>>
    /\ answer' = <<>>
    /\ UNCHANGED <<toShell, stop, closer, begun, interrupts>> /\ UNCHANGED Server

\* the script throws: nothing is accepted and the shell goes back to its line
ScriptThrows ==
    /\ shell.at = "read"
    /\ \/ Len(answer) = FrameSize /\ Header(answer) /\ ~AnswerOf(shell.asks)
       \/ pipe = "closed" /\ toShell = <<>> /\ Len(answer) < FrameSize
    /\ shell' = [at |-> "rest", asks |-> Nothing] /\ answer' = <<>>
    /\ UNCHANGED <<toServer, toShell, sent, started, stop, closer, begun, interrupts>> /\ UNCHANGED Server

PromptReturns ==
    /\ shell.at = "run" /\ Says(<<"END", shell.asks[2]>>)
    /\ UNCHANGED <<toShell, answer, started, stop, closer, begun, interrupts>> /\ UNCHANGED Server

\* Ctrl+C ends the script where it is; what it wrote and did not read stays
Interrupt ==
    /\ shell.at \in {"write", "read", "lost"} /\ interrupts < MaxInterrupts
    /\ interrupts' = interrupts + 1
    /\ shell' = [at |-> "rest", asks |-> Nothing] /\ answer' = <<>>
    /\ UNCHANGED <<toServer, toShell, sent, started, stop, closer, begun>> /\ UNCHANGED Server

\* the process ends, on its own or because the session terminates it
ShellDies ==
    /\ shell.at # "gone" /\ shell' = [at |-> "gone", asks |-> Nothing]
    /\ answer' = <<>>
    /\ UNCHANGED <<toServer, toShell, sent, started, stop, closer, begun, interrupts>> /\ UNCHANGED Server

-----------------------------------------------------------------------------
(* close(): it cancels the pending read of the connection it sees, or        *)
(* connects once to free a thread that still waits for the shell.            *)

CloserGoes(step) == closer' = [closer EXCEPT !.at = step]

CloseBegins ==
    /\ closer.at = "away" /\ stop' = TRUE
    /\ CloserGoes("stopping")
    /\ UNCHANGED <<toServer, toShell>> /\ UNCHANGED Server /\ UNCHANGED Scripts

CloseLooks ==
    /\ closer.at = "stopping"
    /\ closer' = [at |-> "look", connected |-> thread \in {"first", "receive", "sending", "answer"}]
    /\ UNCHANGED <<toServer, toShell, stop>> /\ UNCHANGED Server /\ UNCHANGED Scripts

\* A read that is pending is cancelled; one that is about to begin is not.
CancelPending ==
    /\ closer.at = "look" /\ closer.connected
    /\ \/ thread \in {"first", "receive"} /\ toServer = <<>> /\ Ends(TRUE)
       \/ UNCHANGED <<thread, pipe, failed, ready>>
    /\ CloserGoes("join")
    /\ UNCHANGED <<toServer, toShell, got, handled, stop>> /\ UNCHANGED Scripts

\* The probe connects and hangs up at once, so the first read finds the end; a
\* shell that comes later finds no pipe.  The pipe is taken to be there before the
\* quarter of a second of the probe is over.
Probe ==
    /\ closer.at = "look" /\ ~closer.connected /\ pipe # "none"
    /\ IF pipe = "listening" THEN pipe' = "connected" /\ shell' = [shell EXCEPT !.at = "gone"]
                             ELSE UNCHANGED <<pipe, shell>>
    /\ CloserGoes("join")
    /\ UNCHANGED <<thread, toServer, toShell, got, handled, stop, ready, failed, answer, sent, started, begun, interrupts>>

Joined ==
    /\ closer.at = "join" /\ CloserGoes("done")
    /\ UNCHANGED <<toServer, toShell, stop>> /\ UNCHANGED Server /\ UNCHANGED Scripts

ThreadGoesOn == Create \/ Accepted \/ ReadSome \/ LengthIsRefused \/ TakeMessage \/ Continue \/ EndOfFile
ScriptGoesOn == \/ WritePayload \/ ReadAnswer \/ TakeAnswer \/ AnswerIsNoFrame \/ ScriptThrows

ChannelNext ==
    \/ ThreadGoesOn \/ ScriptGoesOn \/ Connect \/ PressF12 \/ PromptReturns \/ Interrupt \/ ShellDies
    \/ CloseBegins \/ CloseLooks \/ CancelPending \/ Probe \/ Joined

ChannelFairness == WF_channelVars(ThreadGoesOn)
ChannelSpec == ChannelInit /\ [][ChannelNext]_channelVars /\ ChannelFairness

-----------------------------------------------------------------------------
(* The line of a command is accepted only after the channel has taken its     *)
(* BEGIN, whatever stale answers earlier interruptions left in the pipe.      *)
StartsOnItsOwnAnswer ==
    \A n \in started : \E i \in 1..Len(handled) : handled[i] = <<"BEGIN", n>>

(* However the pipe cuts the bytes, the channel hands on the messages the     *)
(* scripts wrote, whole and in order, until a script is interrupted.          *)
MessagesAreWhole ==
    interrupts = 0 => Len(handled) <= Len(sent) /\ handled = SubSeq(sent, 1, Len(handled))

(* When the session is closed and its shell is gone, the thread of the        *)
(* channel ends, so no session leaves a thread and a pipe behind.             *)
ThreadEndsWithShell == (closer.at = "done" /\ shell.at = "gone") ~> (thread = "ended")
=============================================================================
