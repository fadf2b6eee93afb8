--------------------------- MODULE ShellSessionsProofs ---------------------------
(***************************************************************************)
(* What holds of both terminal sessions for any number of commands, any    *)
(* output, any cancels and any losses.  A verdict is about a run because of *)
(* an invariant that follows the text of a command from the keys through   *)
(* the line editor to its run, and the marks from the shell to the record. *)
(***************************************************************************)
EXTENDS MCShellSessions, SequenceTheorems, FiniteSetTheorems, WellFoundedInduction, TLAPS

-----------------------------------------------------------------------------
(* Numbers and sequences.                                                    *)

\* A non-empty set of numbers has a least one, and one that is bounded a greatest.
LEMMA LeastOf ==
    ASSUME NEW T \in SUBSET Nat, T # {}
    PROVE  \E n \in T : \A m \in T : n <= m
<1> DEFINE F == {0..n - 1 : n \in T}
           R == StrictSubsetOrdering(Nat)
<1>1. F \subseteq FiniteSubsetsOf(Nat) /\ F # {}
  <2>1. \A n \in T : IsFiniteSet(0..n - 1) /\ 0..n - 1 \subseteq Nat
    BY FS_Interval
  <2> QED BY <2>1 DEF FiniteSubsetsOf
<1>2. IsWellFoundedOn(R, FiniteSubsetsOf(Nat))
  BY FS_StrictSubsetOrderingWellFounded
<1> HIDE DEF R
<1>3. PICK X \in F : \A Y \in F : <<Y, X>> \notin R
  BY <1>1, <1>2, WFMin
<1>4. PICK n \in T : X = 0..n - 1
  BY <1>3
<1>5. ASSUME NEW m \in T, ~(n <= m) PROVE FALSE
  <2>1. m \in Nat /\ n \in Nat /\ m < n
    BY <1>5
  <2>2. 0..m - 1 \subseteq 0..n - 1
    BY <2>1
  <2>3. n - 1 \in 0..n - 1 /\ n - 1 \notin 0..m - 1
    BY <2>1
  <2>4. 0..m - 1 # 0..n - 1
    BY <2>3
  <2>5. 0..m - 1 \in SUBSET Nat /\ 0..n - 1 \in SUBSET Nat
    BY <2>1
  <2>6. <<0..m - 1, 0..n - 1>> \in R
    BY <2>2, <2>4, <2>5 DEF R, StrictSubsetOrdering
  <2> QED BY <1>3, <1>4, <2>6
<1> QED BY <1>5

\* So has one that is bounded a greatest.
LEMMA GreatestOf ==
    ASSUME NEW b \in Nat, NEW T \in SUBSET (1..b), T # {}
    PROVE  \E n \in T : \A m \in T : m <= n
<1> DEFINE U == {b - n : n \in T}
<1>1. U \in SUBSET Nat /\ U # {}
  <2>1. \A n \in T : b - n \in Nat
    OBVIOUS
  <2> QED BY <2>1
<1>2. PICK u \in U : \A v \in U : u <= v
  BY <1>1, LeastOf
<1>3. PICK n \in T : u = b - n
  BY <1>2
<1>4. \A m \in T : b - m \in U
  OBVIOUS
<1>5. \A m \in T : b - n <= b - m
  BY <1>2, <1>3, <1>4
<1>6. \A m \in T : m \in Nat /\ m <= n
  BY <1>5
<1> QED BY <1>6

\* First finds the first mark.
LEMMA FirstIs ==
    ASSUME NEW S, NEW buf \in Seq(S), NEW mark, Has(buf, mark)
    PROVE  /\ First(buf, mark) \in 1..Len(buf) /\ buf[First(buf, mark)] = mark
           /\ \A j \in 1..First(buf, mark) - 1 : buf[j] # mark
<1> DEFINE T == {i \in 1..Len(buf) : buf[i] = mark}
<1>1. Len(buf) \in Nat /\ DOMAIN buf = 1..Len(buf)
  OBVIOUS
<1>2. T \in SUBSET Nat /\ T # {}
  BY <1>1 DEF Has
<1>3. PICK n \in T : \A m \in T : n <= m
  BY <1>2, LeastOf
<1>4. n \in DOMAIN buf /\ buf[n] = mark /\ \A j \in 1..n - 1 : buf[j] # mark
  BY <1>1, <1>3
<1> QED BY <1>1, <1>4 DEF First

-----------------------------------------------------------------------------
(* Types.                                                                    *)

\* The constants.
LEMMA CommandsAre == LastCommand \in Nat /\ LastCommand # 0 /\ Commands = 1..LastCommand /\ NoText = LastCommand + 1
  BY BoundsAssumption DEF BoundsAssumption, Commands, NoText

\* What a behaviour is about.
LEMMA SettingIs ==
    ASSUME NEW s \in Settings
    PROVE  /\ s.kind \in {"powershell", "linux"} /\ s.output \in Seq(Pieces)
           /\ s.cancels \in Nat /\ s.closes \in Nat
  BY BoundsAssumption DEF BoundsAssumption

\* Keys, messages and tokens are pairs of a kind and a command.
LEMMA KeysAre ==
    /\ \A kind \in {"sync", "clear", "text", "run", "arm", "enter", "^C"}, c \in 0..LastCommand : <<kind, c>> \in Keys
    /\ \A k \in Keys : k[2] \in 0..LastCommand
  BY DEF Keys

\* The same of what the control pipe carries.
LEMMA MessagesAre ==
    /\ \A kind \in {"ready", "begin", "ok", "failed"}, c \in 0..LastCommand : <<kind, c>> \in Messages
    /\ \A m \in Messages : m[2] \in 0..LastCommand
  BY DEF Messages

\* And of what the shell writes.
LEMMA TokensAre ==
    /\ \A kind \in Texts \cup Marks, c \in 0..LastCommand : <<kind, c>> \in Tokens
    /\ <<"prompt", 0>> \in Tokens
  BY CommandsAre DEF Tokens, Marks

\* The fields of a record.
LEMMA ExecutionsAre ==
    /\ \A y \in Execution :
          /\ y.phase \in Phases /\ y.id \in 0..LastCommand /\ y.ended \in Ends /\ y.status \in Ends
          /\ y.startMark \in BOOLEAN /\ y.endSeen \in BOOLEAN /\ y.endMark \in BOOLEAN
          /\ y.echo \in BOOLEAN /\ y.done \in BOOLEAN
          /\ y.buf \in Seq(Tokens) /\ y.prefix \in Seq(Tokens) /\ y.out \in Seq(Tokens)
    /\ \A phase \in Phases : NewExecution(phase) \in Execution
  BY CommandsAre DEF Execution, NewExecution, Ends

\* TypeOK, part by part: a step touches few of them.
ClientTyped ==
    /\ setting \in Settings
    /\ step \in {"idle", "syncing", "checking", "prepared", "installed", "waiting"}
    /\ cmd \in 1..LastCommand + 1
    /\ canceller \in 0..LastCommand /\ cancels \in Nat /\ closes \in Nat
    /\ ready \in 0..LastCommand + 1
FlagsTyped ==
    /\ retyped \in BOOLEAN /\ executing \in BOOLEAN /\ flagged \in BOOLEAN
    /\ interrupting \in BOOLEAN /\ reader \in BOOLEAN /\ closing \in BOOLEAN /\ renewed \in BOOLEAN
RecordTyped == active \in 0..LastCommand /\ x \in Execution
ShellTyped ==
    /\ at \in {"prompt", "beginning", "fencing", "accepting", "running",
               "ending", "closingfence", "prompting", "dead"}
    /\ line \in 0..LastCommand /\ prog \in 0..LastCommand /\ press \in 0..LastCommand
WiresTyped == keys \in Seq(Keys) /\ ctl \in Seq(Messages) /\ frame \in Seq(Tokens) /\ pty \in Seq(Tokens)
ResultTyped ==
    /\ result \in [Commands -> Ends \cup {"unprepared"}] /\ reported \in [Commands -> Seq(Tokens)]
    /\ ran \in [Commands -> Nat] /\ printed \in [Commands -> Seq(Tokens)]
HistoryTyped ==
    /\ ended \subseteq Commands /\ disturbed \subseteq Commands
    /\ timedOut \subseteq Commands /\ orphaned \subseteq Commands

\* The parts are TypeOK.
LEMMA TypesAre ==
    TypeOK <=> /\ ClientTyped /\ FlagsTyped /\ RecordTyped /\ ShellTyped
               /\ WiresTyped /\ ResultTyped /\ HistoryTyped
  BY DEF TypeOK, ClientTyped, RecordTyped, FlagsTyped, ShellTyped, WiresTyped, ResultTyped, HistoryTyped

\* And in the next state.
LEMMA TypesNext ==
    ASSUME ClientTyped', FlagsTyped', RecordTyped', ShellTyped', WiresTyped', ResultTyped', HistoryTyped'
    PROVE  TypeOK'
  BY DEF TypeOK, ClientTyped, RecordTyped, FlagsTyped, ShellTyped, WiresTyped, ResultTyped, HistoryTyped

\* A behaviour begins well typed.
LEMMA InitTyped == Init => TypeOK
<1> SUFFICES ASSUME Init PROVE TypeOK
  OBVIOUS
<1> USE DEF Init
<1>1. RecordTyped
  <2>1. NewExecution("none") \in Execution
    BY ExecutionsAre DEF Phases
  <2>2. x \in Execution
    BY <2>1 DEF Execution
  <2> QED BY <2>2, CommandsAre DEF RecordTyped
<1>2. ClientTyped
  BY CommandsAre DEF ClientTyped
<1>3. FlagsTyped
  BY DEF FlagsTyped
<1>4. ShellTyped
  BY CommandsAre DEF ShellTyped
<1>5. WiresTyped /\ HistoryTyped
  BY DEF WiresTyped, HistoryTyped
<1>6. ResultTyped
  <2>1. result \in [Commands -> Ends \cup {"unprepared"}]
    BY DEF Ends
  <2>2. reported \in [Commands -> Seq(Tokens)] /\ printed \in [Commands -> Seq(Tokens)]
    OBVIOUS
  <2> QED BY <2>1, <2>2 DEF ResultTyped
<1> QED BY <1>1, <1>2, <1>3, <1>4, <1>5, <1>6, TypesAre

\* Keys that are sent have the type of keys.
LEMMA SendKeeps ==
    ASSUME WiresTyped, NEW ks \in Seq(Keys), Send(ks)
    PROVE  keys' \in Seq(Keys)
  BY DEF WiresTyped, Send

\* The next command.
LEMMA GoesOn ==
    ASSUME TypeOK, cmd \in Commands, NEW how \in Ends \cup {"unprepared"}, NextCommand(how)
    PROVE  /\ result' \in [Commands -> Ends \cup {"unprepared"}]
           /\ step' = "idle" /\ cmd' = cmd + 1 /\ cmd' \in 1..LastCommand + 1 /\ retyped' = FALSE
<1>1. result' \in [Commands -> Ends \cup {"unprepared"}]
  BY TypesAre DEF NextCommand, ResultTyped
<1>2. cmd' = cmd + 1 /\ cmd' \in 1..LastCommand + 1
  BY CommandsAre DEF NextCommand
<1> QED BY <1>1, <1>2 DEF NextCommand

USE DEF vars, client, state, cancel, shell, wires, links, session, answers, history

\* What a step leaves alone keeps its type.
LEMMA RestTyped ==
    /\ RecordTyped /\ UNCHANGED <<active, x>> => RecordTyped'
    /\ ShellTyped /\ UNCHANGED shell => ShellTyped'
    /\ WiresTyped /\ UNCHANGED wires => WiresTyped'
    /\ ResultTyped /\ UNCHANGED <<result, reported, ran, printed>> => ResultTyped'
    /\ HistoryTyped /\ UNCHANGED <<ended, disturbed, timedOut, orphaned>> => HistoryTyped'
    /\ ClientTyped /\ UNCHANGED <<setting, step, cmd, canceller, cancels, closes, ready>> => ClientTyped'
  BY DEF RecordTyped, ShellTyped, WiresTyped, ResultTyped, HistoryTyped, ClientTyped

\* Every step keeps the types of the flags.
LEMMA FlagsKept ==
    ASSUME TypeOK, [Next]_vars
    PROVE  FlagsTyped'
<1> USE DEF FlagsTyped
<1>0. FlagsTyped
  BY TypesAre
<1>1. CASE Abandon \/ Refuse \/ Leave
  BY <1>0, <1>1, Zenon DEF Abandon, Refuse, Leave, NextCommand
<1>2. CASE \E phase \in Phases : Install(phase)
  BY <1>0, <1>2, Zenon DEF Install
<1>3. CASE Prepare \/ TypeCommand \/ Retype \/ Prepared \/ PressRun \/ PrepareLinux \/ SendEnter
  BY <1>0, <1>3, Zenon DEF Prepare, TypeCommand, Retype, Type, AskForLine, Prepared, PressRun, PrepareLinux, SendEnter
<1>4. CASE WaitFindsDead \/ WaitTimesOut \/ ReaderFails \/ CompleteCancelled
  BY <1>0, <1>4, Zenon DEF WaitFindsDead, WaitTimesOut, ReaderFails, CompleteCancelled
<1>5. CASE \E n \in 1..Len(pty \o frame) : Receive(n)
  BY <1>0, <1>5, Zenon DEF Receive
<1>6. CASE HandlePromptReady \/ HandleBegin \/ HandleBeginFence \/ HandleEnd \/ HandleEndFence
  BY <1>0, <1>6, Zenon DEF HandlePromptReady, HandleBegin, HandleBeginFence, HandleEnd, HandleEndFence
<1>7. CASE Interrupt \/ SendCtrlC
  BY <1>0, <1>7, Zenon DEF Interrupt, SendCtrlC, SendInterrupt
<1>8. CASE InterruptRaises
  BY <1>0, <1>8, Zenon DEF InterruptRaises
<1>9. CASE Restart \/ StartAnew
  BY <1>0, <1>9, Zenon DEF Restart, StartAnew
<1>10. CASE ReadKey \/ DrawPrompt \/ WritePiece \/ Signal
  BY <1>0, <1>10, Zenon DEF ReadKey, DrawPrompt, WritePiece, Signal
<1>11. CASE \E drawn \in {<<>>, <<<<"echo", line>>>>} : AcceptLine(drawn)
  BY <1>0, <1>11, Zenon DEF AcceptLine
<1>12. CASE \E how \in {"ok", "failed"} : LineEnds(how) \/ ProgramEnds(how)
  BY <1>0, <1>12, Zenon DEF LineEnds, ProgramEnds
<1>13. CASE Flag \/ SendCtrlCRaises
  BY <1>0, <1>13, Zenon DEF Flag, SendCtrlCRaises
<1>14. CASE SessionLost \/ CloseBegins \/ CloseEnds \/ ChannelLost
  BY <1>0, <1>14, Zenon DEF SessionLost, CloseBegins, CloseEnds, ChannelLost, Lose
<1>15. CASE ReceiveLinux \/ ReaderEnds
  BY <1>0, <1>15, Zenon DEF ReceiveLinux, ReaderEnds
<1>16. CASE ReadText \/ ReadEnter \/ ReadInterrupt \/ WritePieceLinux
  BY <1>0, <1>16, Zenon DEF ReadText, ReadEnter, ReadInterrupt, WritePieceLinux
<1>17. CASE UNCHANGED vars
  BY <1>0, <1>17, Zenon DEF vars
<1>18. Install("wait") \/ Install("begin") => \E phase \in Phases : Install(phase)
  BY DEF Phases
<1> QED BY <1>1, <1>2, <1>3, <1>4, <1>5, <1>6, <1>7, <1>8, <1>9,
             <1>10, <1>11, <1>12, <1>13, <1>14, <1>15, <1>16, <1>17, <1>18
  DEF Next, PowerShellNext, Host, Shell, LinuxNext, LinuxHost, Bash

\* The steps of the executing thread keep types.
LEMMA AbandonTyped == ASSUME TypeOK, cmd \in Commands, Abandon, FlagsTyped' PROVE TypeOK'
<1> USE TypesAre, RestTyped DEF Abandon
<1>1. WiresTyped'
  <2>1. keys' \in Seq(Keys)
    BY SendKeeps, KeysAre, CommandsAre
  <2> QED BY <2>1 DEF WiresTyped
<1>2. RecordTyped' /\ ShellTyped' /\ HistoryTyped'
  OBVIOUS
<1>3. ClientTyped'
  BY GoesOn DEF ClientTyped
<1>4. ResultTyped'
  BY GoesOn DEF ResultTyped
<1> QED BY <1>1, <1>2, <1>3, <1>4, TypesNext

\* A new record is one.
LEMMA InstallTyped == ASSUME TypeOK, cmd \in Commands, NEW phase \in Phases, Install(phase), FlagsTyped' PROVE TypeOK'
<1> USE TypesAre, RestTyped DEF Install
<1>1. WiresTyped' /\ ShellTyped' /\ ResultTyped'
  OBVIOUS
<1>2. ClientTyped'
  BY DEF ClientTyped
<1>3. HistoryTyped'
  BY DEF HistoryTyped
<1>4. RecordTyped'
  BY ExecutionsAre, CommandsAre DEF RecordTyped
<1> QED BY <1>1, <1>2, <1>3, <1>4, TypesNext

\* execute() that refuses.
LEMMA RefuseTyped == ASSUME TypeOK, cmd \in Commands, Refuse, FlagsTyped' PROVE TypeOK'
<1> USE TypesAre, RestTyped DEF Refuse
<1>1. WiresTyped' /\ ShellTyped' /\ HistoryTyped'
  OBVIOUS
<1>2. "error" \in Ends
  BY DEF Ends
<1>3. ClientTyped'
  BY <1>2, GoesOn DEF ClientTyped
<1>4. ResultTyped'
  BY <1>2, GoesOn DEF ResultTyped
<1>5. RecordTyped'
  BY CommandsAre DEF RecordTyped
<1> QED BY <1>1, <1>3, <1>4, <1>5, TypesNext

\* execute() that leaves.
LEMMA LeaveTyped == ASSUME TypeOK, cmd \in Commands, Leave, FlagsTyped' PROVE TypeOK'
<1> USE TypesAre, RestTyped DEF Leave
<1>1. WiresTyped' /\ ShellTyped' /\ HistoryTyped'
  OBVIOUS
<1>2. x.status \in Ends /\ x.out \in Seq(Tokens)
  BY ExecutionsAre DEF RecordTyped
<1>3. ClientTyped'
  BY <1>2, GoesOn DEF ClientTyped
<1>4. ResultTyped'
  BY <1>2, GoesOn DEF ResultTyped
<1>5. RecordTyped'
  BY CommandsAre DEF RecordTyped
<1> QED BY <1>1, <1>3, <1>4, <1>5, TypesNext

\* What the executing thread of PowerShell and that of bash do.
LEMMA TypeSteps ==
    ASSUME TypeOK, cmd \in Commands, Prepare \/ TypeCommand \/ Retype \/ Prepared \/ PressRun \/ PrepareLinux \/ SendEnter,
           FlagsTyped'
    PROVE  TypeOK'
<1> USE TypesAre, RestTyped
    DEF Prepare, TypeCommand, Retype, Prepared, PressRun, PrepareLinux, SendEnter, Type, AskForLine
<1>1. WiresTyped'
  <2>1. /\ <<<<"sync", 0>>>> \in Seq(Keys) /\ <<<<"text", cmd>>, <<"sync", 0>>>> \in Seq(Keys)
        /\ <<<<"run", cmd>>>> \in Seq(Keys) /\ <<<<"text", cmd>>>> \in Seq(Keys)
        /\ <<<<"arm", cmd>>, <<"enter", cmd>>>> \in Seq(Keys)
    BY KeysAre, CommandsAre
  <2>2. keys' \in Seq(Keys)
    BY <2>1, SendKeeps DEF WiresTyped
  <2> QED BY <2>2 DEF WiresTyped
<1>2. RecordTyped' /\ ShellTyped' /\ HistoryTyped' /\ ResultTyped'
  OBVIOUS
<1>3. ClientTyped'
  BY CommandsAre DEF ClientTyped
<1> QED BY <1>1, <1>2, <1>3, TypesNext

\* What the record of an execution becomes.
LEMMA ChangesAre ==
    ASSUME NEW y \in Execution
    PROVE  /\ [y EXCEPT !.done = TRUE] \in Execution /\ <<>> \in Seq(Tokens)
           /\ \A s \in Ends : [y EXCEPT !.status = s] \in Execution
           /\ \A s \in Ends : [y EXCEPT !.endSeen = TRUE, !.ended = s] \in Execution
           /\ \A c \in 0..LastCommand : [y EXCEPT !.id = c] \in Execution
           /\ [y EXCEPT !.startMark = TRUE] \in Execution /\ [y EXCEPT !.endMark = TRUE] \in Execution
           /\ \A b \in Seq(Tokens) : [y EXCEPT !.buf = b] \in Execution /\ [y EXCEPT !.prefix = b] \in Execution
           /\ \A o \in Seq(Tokens) : [y EXCEPT !.out = o] \in Execution
           /\ \A p \in Phases : [y EXCEPT !.phase = p] \in Execution
<1>1. <<>> \in Seq(Tokens)
  OBVIOUS
<1>2. [y EXCEPT !.done = TRUE] \in Execution
  BY DEF Execution
<1>3. \A s \in Ends : [y EXCEPT !.status = s] \in Execution
  BY DEF Execution
<1>4. \A s \in Ends : [y EXCEPT !.endSeen = TRUE, !.ended = s] \in Execution
  BY DEF Execution
<1>5. \A c \in 0..LastCommand : [y EXCEPT !.id = c] \in Execution
  BY DEF Execution
<1>6. [y EXCEPT !.startMark = TRUE] \in Execution /\ [y EXCEPT !.endMark = TRUE] \in Execution
  BY DEF Execution
<1>7. \A b \in Seq(Tokens) : [y EXCEPT !.buf = b] \in Execution /\ [y EXCEPT !.prefix = b] \in Execution
  BY DEF Execution
<1>8. \A o \in Seq(Tokens) : [y EXCEPT !.out = o] \in Execution
  BY DEF Execution
<1>9. \A p \in Phases : [y EXCEPT !.phase = p] \in Execution
  BY DEF Execution
<1> QED BY <1>1, <1>2, <1>3, <1>4, <1>5, <1>6, <1>7, <1>8, <1>9

\* A record that is completed.
LEMMA CompleteTyped ==
    ASSUME NEW y \in Execution, Complete(y)
    PROVE  RecordTyped' /\ x' = [y EXCEPT !.done = TRUE] /\ active' = 0
<1>1. x' = [y EXCEPT !.done = TRUE] /\ active' = 0
  BY DEF Complete
<1>2. x' \in Execution
  BY <1>1, ChangesAre
<1> QED BY <1>1, <1>2, CommandsAre DEF RecordTyped, TypesNext

\* The parts of a sequence before and after a place.
LEMMA PartsAre ==
    ASSUME NEW S, NEW s \in Seq(S), NEW i \in 0..Len(s) + 1
    PROVE  After(s, i) \in Seq(S) /\ Before(s, i) \in Seq(S)
<1>1. \A j \in i + 1..Len(s) : s[j] \in S
  OBVIOUS
<1>2. \A j \in 1..i - 1 : s[j] \in S
  OBVIOUS
<1>3. SubSeq(s, i + 1, Len(s)) \in Seq(S)
  BY <1>1, SubSeqProperties
<1>4. SubSeq(s, 1, i - 1) \in Seq(S)
  BY <1>2, SubSeqProperties
<1> QED BY <1>3, <1>4 DEF After, Before

\* The same of tokens.
LEMMA AfterIs ==
    ASSUME NEW s \in Seq(Tokens), NEW i \in 0..Len(s) + 1
    PROVE  After(s, i) \in Seq(Tokens) /\ Before(s, i) \in Seq(Tokens)
  BY PartsAre

\* What stands before the last prompt.
LEMMA BeforePromptIs == ASSUME NEW bytes \in Seq(Tokens) PROVE BeforePrompt(bytes) \in Seq(Tokens)
<1> DEFINE prompts == {i \in DOMAIN bytes : bytes[i] = Prompt}
<1>1. Len(bytes) \in Nat /\ DOMAIN bytes = 1..Len(bytes) /\ prompts \in SUBSET (1..Len(bytes))
  OBVIOUS
<1>2. CASE prompts = {}
  BY <1>2 DEF BeforePrompt
<1>3. CASE prompts # {}
  <2>1. \E n \in prompts : \A m \in prompts : m <= n
    BY <1>1, <1>3, GreatestOf
  <2> DEFINE n == CHOOSE i \in prompts : \A j \in prompts : j <= i
  <2>2. n \in prompts
    BY <2>1
  <2>3. n \in 0..Len(bytes) + 1
    BY <1>1, <2>2
  <2>4. Before(bytes, n) \in Seq(Tokens)
    BY <2>3, AfterIs
  <2>5. BeforePrompt(bytes) = Before(bytes, n)
    BY <1>3 DEF BeforePrompt
  <2> QED BY <2>4, <2>5
<1> QED BY <1>2, <1>3

\* What stands before and after a mark.
LEMMA AfterFirst ==
    ASSUME NEW s \in Seq(Tokens), NEW mark, Has(s, mark)
    PROVE  After(s, First(s, mark)) \in Seq(Tokens) /\ Before(s, First(s, mark)) \in Seq(Tokens)
<1>1. First(s, mark) \in 0..Len(s) + 1
  BY FirstIs
<1> QED BY <1>1, AfterIs

\* The reader of PowerShell keeps the type of the record, phase by phase.
LEMMA AwaitStartTyped == ASSUME NEW y \in Execution PROVE AwaitStart(y) \in Execution
<1>1. y.buf \in Seq(Tokens)
  BY ExecutionsAre
<1>2. CASE Has(y.buf, <<"start", y.id>>)
  <2>1. PICK b : b = After(y.buf, First(y.buf, <<"start", y.id>>))
    OBVIOUS
  <2>2. b \in Seq(Tokens)
    BY <1>1, <1>2, <2>1, AfterFirst
  <2>3. [y EXCEPT !.phase = "capture", !.buf = b] \in Execution
    BY <2>2 DEF Execution, Phases
  <2> QED BY <1>2, <2>1, <2>3 DEF AwaitStart
<1>3. CASE ~Has(y.buf, <<"start", y.id>>)
  <2>1. [y EXCEPT !.buf = <<>>] \in Execution
    BY ChangesAre
  <2> QED BY <1>3, <2>1 DEF AwaitStart
<1> QED BY <1>2, <1>3

\* Text that is captured.
LEMMA AppendCaptureTyped ==
    ASSUME NEW y \in Execution, NEW bytes \in Seq(Tokens)
    PROVE  AppendCapture(y, bytes) \in Execution
<1>1. PICK held : held = y.prefix \o bytes
  OBVIOUS
<1>2. held \in Seq(Tokens) /\ y.out \in Seq(Tokens)
  BY <1>1, ExecutionsAre
<1>3. CASE ~y.echo
  <2>1. PICK o : o = y.out \o held
    OBVIOUS
  <2>2. o \in Seq(Tokens)
    BY <1>2, <2>1
  <2>3. [y EXCEPT !.out = o] \in Execution
    BY <2>2, ChangesAre
  <2> QED BY <1>1, <1>3, <2>1, <2>3 DEF AppendCapture
<1>4. CASE y.echo /\ Has(held, <<"echo", cmd>>)
  <2>1. PICK late : late = After(held, First(held, <<"echo", cmd>>))
    OBVIOUS
  <2>2. late \in Seq(Tokens)
    BY <1>2, <1>4, <2>1, AfterFirst
  <2>3. PICK o : o = y.out \o late
    OBVIOUS
  <2>4. o \in Seq(Tokens) /\ <<>> \in Seq(Tokens)
    BY <1>2, <2>2, <2>3
  <2>5. [y EXCEPT !.echo = FALSE, !.prefix = <<>>, !.out = o] \in Execution
    BY <2>4 DEF Execution
  <2> QED BY <1>1, <1>4, <2>1, <2>3, <2>5 DEF AppendCapture
<1>5. CASE y.echo /\ ~Has(held, <<"echo", cmd>>)
  <2>1. PICK o : o = y.out \o held
    OBVIOUS
  <2>2. o \in Seq(Tokens) /\ <<>> \in Seq(Tokens)
    BY <1>2, <2>1
  <2>3. [y EXCEPT !.echo = FALSE, !.prefix = <<>>, !.out = o] \in Execution
    BY <2>2 DEF Execution
  <2>4. [y EXCEPT !.prefix = held] \in Execution
    BY <1>2, ChangesAre
  <2> QED BY <1>1, <1>5, <2>1, <2>3, <2>4 DEF AppendCapture
<1> QED BY <1>3, <1>4, <1>5

\* Capturing.
LEMMA CaptureTyped == ASSUME NEW y \in Execution PROVE Capture(y) \in Execution
<1>1. y.buf \in Seq(Tokens) /\ y.out \in Seq(Tokens) /\ y.ended \in Ends
  BY ExecutionsAre
<1>2. CASE y.phase # "capture"
  BY <1>2 DEF Capture
<1>3. CASE y.phase = "capture" /\ ~y.endMark
  <2>1. PICK z : z = AppendCapture(y, y.buf)
    OBVIOUS
  <2>2. z \in Execution
    BY <1>1, <2>1, AppendCaptureTyped
  <2>3. [z EXCEPT !.buf = <<>>] \in Execution
    BY <2>2, ChangesAre
  <2> QED BY <1>3, <2>1, <2>3 DEF Capture
<1>4. CASE y.phase = "capture" /\ y.endMark /\ ~Has(y.buf, <<"end", y.id>>)
  BY <1>4 DEF Capture
<1>5. CASE y.phase = "capture" /\ y.endMark /\ Has(y.buf, <<"end", y.id>>)
  <2>1. PICK i : i = First(y.buf, <<"end", y.id>>)
    OBVIOUS
  <2>2. After(y.buf, i) \in Seq(Tokens) /\ Before(y.buf, i) \in Seq(Tokens)
    BY <1>1, <1>5, <2>1, AfterFirst
  <2>3. PICK late : late = After(y.buf, i)
    OBVIOUS
  <2>4. PICK o : o = y.out \o BeforePrompt(Before(y.buf, i))
    OBVIOUS
  <2>5. o \in Seq(Tokens) /\ late \in Seq(Tokens)
    BY <1>1, <2>2, <2>3, <2>4, BeforePromptIs
  <2>6. PICK s : s = (IF flagged THEN "cancelled" ELSE y.ended)
    OBVIOUS
  <2>7. s \in Ends
    BY <1>1, <2>6 DEF Ends
  <2>8. [y EXCEPT !.phase = "drain", !.out = o, !.buf = late, !.status = s] \in Execution
    BY <2>5, <2>7 DEF Execution, Phases
  <2> QED BY <1>5, <2>1, <2>3, <2>4, <2>6, <2>8 DEF Capture
<1> QED BY <1>2, <1>3, <1>4, <1>5

\* Waiting for the last prompt.
LEMMA DrainTyped == ASSUME NEW y \in Execution PROVE Drain(y) \in Execution
<1>1. CASE y.phase # "drain" \/ ~Has(y.buf, Prompt)
  BY <1>1 DEF Drain
<1>2. CASE ~(y.phase # "drain" \/ ~Has(y.buf, Prompt))
  <2>1. PICK late : late = BeforePrompt(y.buf)
    OBVIOUS
  <2>2. late \in Seq(Tokens) /\ y.out \in Seq(Tokens)
    BY <2>1, ExecutionsAre, BeforePromptIs
  <2>3. PICK text : text = (IF Has(late, <<"echo", cmd>>) THEN After(late, First(late, <<"echo", cmd>>)) ELSE late)
    OBVIOUS
  <2>4. text \in Seq(Tokens)
    BY <2>2, <2>3, AfterFirst
  <2>5. PICK o : o = y.out \o text
    OBVIOUS
  <2>6. o \in Seq(Tokens) /\ <<>> \in Seq(Tokens)
    BY <2>2, <2>4, <2>5
  <2>7. [y EXCEPT !.out = o, !.buf = <<>>, !.done = TRUE] \in Execution
    BY <2>6 DEF Execution
  <2> QED BY <1>2, <2>1, <2>3, <2>5, <2>7 DEF Drain
<1> QED BY <1>1, <1>2

\* All phases in one reading.
LEMMA BytesTyped ==
    ASSUME RecordTyped, NEW bytes \in Seq(Tokens), ProcessExecutionBytes(bytes)
    PROVE  RecordTyped'
<1>1. PICK b : b = x.buf \o bytes
  OBVIOUS
<1>2. x \in Execution /\ b \in Seq(Tokens)
  BY <1>1, ExecutionsAre DEF RecordTyped
<1>3. [x EXCEPT !.buf = b] \in Execution
  BY <1>2, ChangesAre
<1>4. PICK y : y = Drain(Capture(AwaitStart([x EXCEPT !.buf = b])))
  OBVIOUS
<1>5. y \in Execution
  BY <1>3, <1>4, AwaitStartTyped, CaptureTyped, DrainTyped
<1>6. IF y.done THEN Complete(y) ELSE x' = y /\ active' = active
  BY <1>1, <1>4 DEF ProcessExecutionBytes
<1> QED BY <1>5, <1>6, CompleteTyped DEF RecordTyped

\* Steps that end an execution keep types.
LEMMA EndsTyped ==
    ASSUME TypeOK, FlagsTyped',
           WaitFindsDead \/ ReaderFails \/ CompleteCancelled \/ ReaderEnds \/ CloseBegins
    PROVE  TypeOK'
<1> USE TypesAre, RestTyped DEF WaitFindsDead, ReaderFails, CompleteCancelled, ReaderEnds, CloseBegins
<1>1. x \in Execution /\ "error" \in Ends /\ "cancelled" \in Ends /\ <<>> \in Seq(Tokens)
  BY DEF RecordTyped, Ends
<1>2. [x EXCEPT !.status = "error"] \in Execution
  BY <1>1, ChangesAre
<1>3. [x EXCEPT !.buf = <<>>, !.status = "cancelled"] \in Execution
  BY <1>1 DEF Execution
<1>4. RecordTyped'
  BY <1>2, <1>3, CompleteTyped DEF FailActive
<1>5. WiresTyped' /\ ShellTyped' /\ HistoryTyped' /\ ResultTyped'
  OBVIOUS
<1>6. ClientTyped'
  BY CommandsAre DEF ClientTyped
<1> QED BY <1>4, <1>5, <1>6, TypesNext

\* So does giving up the wait.
LEMMA TimesOutTyped == ASSUME TypeOK, FlagsTyped', cmd \in Commands, WaitTimesOut PROVE TypeOK'
<1> USE TypesAre, RestTyped DEF WaitTimesOut
<1>1. x \in Execution
  BY DEF RecordTyped
<1>2. PICK o : o = x.out \o x.buf
  OBVIOUS
<1>3. PICK s : s = (IF x.status = "cancelled" THEN x.status ELSE x.ended)
  OBVIOUS
<1>4. o \in Seq(Tokens) /\ s \in Ends /\ <<>> \in Seq(Tokens)
  BY <1>1, <1>2, <1>3, ExecutionsAre
<1>5. [x EXCEPT !.out = o, !.buf = <<>>, !.status = s] \in Execution
  BY <1>1, <1>4 DEF Execution
<1>6. Complete([x EXCEPT !.out = o, !.buf = <<>>, !.status = s])
  BY <1>2, <1>3
<1>7. RecordTyped'
  BY <1>5, <1>6, CompleteTyped
<1>8. WiresTyped' /\ ShellTyped' /\ ResultTyped' /\ ClientTyped'
  OBVIOUS
<1>9. HistoryTyped'
  BY DEF HistoryTyped
<1> QED BY <1>7, <1>8, <1>9, TypesNext

\* So does reading the console.
LEMMA ReceiveTyped == ASSUME TypeOK, FlagsTyped', NEW n \in 1..Len(pty \o frame), Receive(n) PROVE TypeOK'
<1> USE TypesAre, RestTyped DEF Receive
<1>1. pty \in Seq(Tokens) /\ frame \in Seq(Tokens) /\ pty \o frame \in Seq(Tokens)
  BY DEF WiresTyped
<1>2. \A s \in Seq(Tokens), k \in Nat : Rest(s, k) \in Seq(Tokens)
  <2>1. ASSUME NEW s \in Seq(Tokens), NEW k \in Nat PROVE (IF k < Len(s) THEN k ELSE Len(s)) \in 0..Len(s) + 1
    OBVIOUS
  <2> QED BY <2>1, AfterIs DEF Rest
<1>3. SubSeq(pty \o frame, 1, n) \in Seq(Tokens)
  BY <1>1
<1>4. n \in Nat /\ Len(pty) \in Nat /\ (n > Len(pty) => n - Len(pty) \in Nat)
  BY <1>1
<1>5. pty' \in Seq(Tokens) /\ frame' \in Seq(Tokens)
  BY <1>1, <1>2, <1>4
<1>6. WiresTyped'
  BY <1>5 DEF WiresTyped
<1>7. RecordTyped'
  BY <1>3, BytesTyped
<1>8. ShellTyped' /\ HistoryTyped' /\ ResultTyped' /\ ClientTyped'
  OBVIOUS
<1> QED BY <1>6, <1>7, <1>8, TypesNext

\* So do the messages of the control pipe.
LEMMA HandleTyped ==
    ASSUME TypeOK, FlagsTyped',
           HandlePromptReady \/ HandleBegin \/ HandleBeginFence \/ HandleEnd \/ HandleEndFence
    PROVE  TypeOK'
<1> USE TypesAre, RestTyped
    DEF HandlePromptReady, HandleBegin, HandleBeginFence, HandleEnd, HandleEndFence, Refused
<1>1. x \in Execution /\ press \in 0..LastCommand
  BY DEF RecordTyped, ShellTyped
<1>2. ctl # <<>> => Head(ctl) \in Messages /\ Tail(ctl) \in Seq(Messages)
  BY DEF WiresTyped
<1>3. WiresTyped'
  BY <1>2 DEF WiresTyped
<1>4. x' \in Execution
  <2>1. "ok" \in Ends /\ "failed" \in Ends
    BY DEF Ends
  <2>2. \/ x' = x \/ x' = [x EXCEPT !.id = press] \/ x' = [x EXCEPT !.startMark = TRUE]
        \/ \E s \in {"ok", "failed"} : x' = [x EXCEPT !.endSeen = TRUE, !.ended = s]
        \/ x' = [x EXCEPT !.endMark = TRUE]
    OBVIOUS
  <2>3. \A s \in {"ok", "failed"} : [x EXCEPT !.endSeen = TRUE, !.ended = s] \in Execution
    BY <1>1, <2>1, ChangesAre
  <2> QED BY <1>1, <2>2, <2>3, ChangesAre
<1>5. RecordTyped'
  BY <1>4 DEF RecordTyped
<1>6. HistoryTyped' /\ ResultTyped'
  OBVIOUS
<1>7. ShellTyped'
  BY DEF ShellTyped
<1>8. ready' \in 0..LastCommand + 1
  BY <1>2, MessagesAre, CommandsAre DEF ClientTyped
<1>9. ClientTyped'
  BY <1>8 DEF ClientTyped
<1> QED BY <1>3, <1>5, <1>6, <1>7, <1>9, TypesNext

\* So does cancelling.
LEMMA CancelTyped ==
    ASSUME TypeOK, FlagsTyped', interrupting => cmd \in Commands \/ step = "idle", executing => cmd \in Commands,
           Flag \/ Interrupt \/ SendCtrlC \/ InterruptRaises \/ SendCtrlCRaises
    PROVE  TypeOK'
<1> USE TypesAre, RestTyped DEF Flag, Interrupt, SendCtrlC, InterruptRaises, SendCtrlCRaises, SendInterrupt
<1>1. <<<<"^C", canceller>>>> \in Seq(Keys)
  BY KeysAre DEF ClientTyped
<1>2. WiresTyped'
  BY <1>1, SendKeeps DEF WiresTyped
<1>3. RecordTyped' /\ ResultTyped' /\ ShellTyped'
  OBVIOUS
<1>4. HistoryTyped'
  BY DEF HistoryTyped
<1>5. canceller' \in 0..LastCommand /\ cancels' \in Nat
  <2>1. canceller' \in {canceller, 0} \/ (executing /\ canceller' = cmd)
    OBVIOUS
  <2>2. cancels' = cancels \/ cancels' = cancels + 1
    OBVIOUS
  <2>3. executing => cmd \in 0..LastCommand
    BY CommandsAre
  <2>4. canceller \in 0..LastCommand /\ cancels \in Nat /\ 0 \in 0..LastCommand
    BY CommandsAre DEF ClientTyped
  <2> QED BY <2>1, <2>2, <2>3, <2>4
<1>6. UNCHANGED <<setting, step, cmd, closes, ready>>
  OBVIOUS
<1>7. ClientTyped'
  BY <1>5, <1>6 DEF ClientTyped
<1> QED BY <1>2, <1>3, <1>4, <1>7, TypesNext

\* So does losing a session, and starting it again.
LEMMA LossTyped ==
    ASSUME TypeOK, FlagsTyped', step # "idle" => cmd \in Commands,
           SessionLost \/ CloseEnds \/ ChannelLost \/ Restart \/ StartAnew
    PROVE  TypeOK'
<1> USE TypesAre, RestTyped DEF SessionLost, CloseEnds, ChannelLost, Lose, Restart, StartAnew
<1>1. WiresTyped'
  <2>1. <<>> \in Seq(Keys) /\ <<>> \in Seq(Messages) /\ <<>> \in Seq(Tokens)
    OBVIOUS
  <2> QED BY <2>1 DEF WiresTyped
<1>2. RecordTyped'
  BY CommandsAre DEF RecordTyped
<1>3. ResultTyped'
  OBVIOUS
<1>4. ShellTyped'
  BY CommandsAre DEF ShellTyped
<1>5. HistoryTyped'
  BY DEF HistoryTyped
<1>6. ClientTyped'
  BY DEF ClientTyped
<1> QED BY <1>1, <1>2, <1>3, <1>4, <1>5, <1>6, TypesNext

\* So does PowerShell.
LEMMA ShellTypes ==
    ASSUME TypeOK, FlagsTyped', at = "running" => press \in Commands,
           \/ ReadKey \/ DrawPrompt \/ Signal \/ WritePiece
           \/ \E drawn \in {<<>>, <<<<"echo", line>>>>} : AcceptLine(drawn)
           \/ \E how \in {"ok", "failed"} : LineEnds(how)
    PROVE  TypeOK'
<1> USE TypesAre, RestTyped
<1>1. press \in 0..LastCommand /\ line \in 0..LastCommand /\ prog \in 0..LastCommand
  BY DEF ShellTyped
<1>2. keys \in Seq(Keys) /\ ctl \in Seq(Messages) /\ frame \in Seq(Tokens) /\ pty \in Seq(Tokens)
  BY DEF WiresTyped
<1>3. CASE ReadKey
  <2> USE <1>3 DEF ReadKey
  <2>1. Head(keys) \in Keys /\ Tail(keys) \in Seq(Keys) /\ Head(keys)[2] \in 0..LastCommand
    BY <1>2, KeysAre
  <2>2. \A m \in Messages : Append(ctl, m) \in Seq(Messages)
    BY <1>2
  <2>3. <<"ready", line>> \in Messages /\ <<"begin", Head(keys)[2]>> \in Messages
    BY <1>1, <2>1, MessagesAre
  <2>4. ctl' \in Seq(Messages)
    BY <1>2, <2>2, <2>3
  <2>5. pty \o frame \in Seq(Tokens) /\ <<>> \in Seq(Tokens)
    BY <1>2
  <2>6. WiresTyped'
    BY <2>1, <2>4, <2>5 DEF WiresTyped
  <2>7. ShellTyped'
    BY <1>1, <2>1, CommandsAre DEF ShellTyped
  <2>8. RecordTyped' /\ ResultTyped' /\ HistoryTyped' /\ ClientTyped'
    OBVIOUS
  <2> QED BY <2>6, <2>7, <2>8, TypesNext
<1>4. CASE DrawPrompt
  <2> USE <1>4 DEF DrawPrompt
  <2>1. <<"end", press>> \in Tokens /\ Prompt \in Tokens
    BY <1>1, TokensAre DEF Prompt, Marks
  <2>2. \A t \in Tokens, s \in Seq(Tokens) : Append(s, t) \in Seq(Tokens)
    OBVIOUS
  <2>3. <<Prompt, <<"end", press>>>> \in Seq(Tokens) /\ <<>> \in Seq(Tokens)
    BY <2>1
  <2>4. pty \o frame \o <<Prompt, <<"end", press>>>> \in Seq(Tokens)
    BY <1>2, <2>3
  <2>5. pty' \in Seq(Tokens) /\ frame' \in Seq(Tokens)
    BY <1>2, <2>1, <2>2, <2>3, <2>4
  <2>6. WiresTyped'
    BY <2>5 DEF WiresTyped
  <2>7. ShellTyped'
    BY DEF ShellTyped
  <2>8. RecordTyped' /\ ResultTyped' /\ HistoryTyped' /\ ClientTyped'
    OBVIOUS
  <2> QED BY <2>6, <2>7, <2>8, TypesNext
<1>5. ASSUME press \in Commands, NEW ks \in Seq(Keys), keys' = ks,
             \/ at' = at /\ ended' = ended /\ ctl' = ctl
             \/ at' = "ending" /\ ended' = ended \cup {press} /\ \E how \in {"ok", "failed"} : ctl' = Append(ctl, <<how, press>>),
             UNCHANGED <<setting, client, state, cancel, line, prog, press, frame, pty,
                         session, answers, printed, ran, disturbed, timedOut, orphaned>>
      PROVE  TypeOK'
  <2> USE <1>5
  <2>1. \A how \in {"ok", "failed"} : <<how, press>> \in Messages
    BY <1>1, MessagesAre
  <2>2. \A m \in Messages : Append(ctl, m) \in Seq(Messages)
    BY <1>2
  <2>3. ctl' \in Seq(Messages)
    BY <1>2, <2>1, <2>2
  <2>4. WiresTyped'
    BY <2>3 DEF WiresTyped
  <2>5. ShellTyped'
    BY DEF ShellTyped
  <2>6. HistoryTyped'
    BY DEF HistoryTyped
  <2>7. RecordTyped' /\ ResultTyped' /\ ClientTyped'
    OBVIOUS
  <2> QED BY <2>4, <2>5, <2>6, <2>7, TypesNext
<1>6. CASE Signal
  <2>1. PICK i \in DOMAIN keys : keys' = Before(keys, i) \o After(keys, i)
    BY <1>6 DEF Signal
  <2>2. i \in 0..Len(keys) + 1
    BY <1>2, <2>1
  <2>3. Before(keys, i) \in Seq(Keys) /\ After(keys, i) \in Seq(Keys)
    BY <1>2, <2>2, PartsAre
  <2>4. PICK ks : ks = Before(keys, i) \o After(keys, i)
    OBVIOUS
  <2>5. ks \in Seq(Keys) /\ keys' = ks
    BY <2>1, <2>3, <2>4
  <2> QED BY <1>5, <1>6, <2>5 DEF Signal
<1>7. CASE \E how \in {"ok", "failed"} : LineEnds(how)
  BY <1>2, <1>5, <1>7 DEF LineEnds
<1>8. CASE \E drawn \in {<<>>, <<<<"echo", line>>>>} : AcceptLine(drawn)
  <2>1. PICK drawn \in {<<>>, <<<<"echo", line>>>>} : AcceptLine(drawn)
    BY <1>8
  <2> USE <2>1 DEF AcceptLine
  <2>2. <<"echo", line>> \in Tokens /\ <<"start", press>> \in Tokens
    BY <1>1, TokensAre DEF Marks, Texts
  <2>3. drawn \in Seq(Tokens)
    <3>1. PICK e \in Tokens : e = <<"echo", line>>
      BY <2>2
    <3>2. <<e>> \in Seq(Tokens) /\ <<>> \in Seq(Tokens)
      OBVIOUS
    <3> QED BY <3>1, <3>2
  <2>4. frame \o drawn \in Seq(Tokens) /\ Append(pty, <<"start", press>>) \in Seq(Tokens)
    BY <1>2, <2>2, <2>3
  <2>5. WiresTyped'
    BY <2>4 DEF WiresTyped
  <2>6. ShellTyped'
    BY CommandsAre DEF ShellTyped, Run
  <2>7. ResultTyped'
    BY DEF ResultTyped, Run
  <2>8. RecordTyped' /\ HistoryTyped' /\ ClientTyped'
    OBVIOUS
  <2> QED BY <2>5, <2>6, <2>7, <2>8, TypesNext
<1>9. CASE WritePiece
  <2> USE <1>9 DEF WritePiece
  <2>1. prog \in Commands
    BY <1>1, CommandsAre
  <2>2. Piece(prog) \in Tokens
    <3>1. printed[prog] \in Seq(Tokens) /\ setting.output \in Seq(Pieces)
      BY <2>1, SettingIs DEF ResultTyped, ClientTyped
    <3>2. Len(printed[prog]) + 1 \in 1..Len(setting.output)
      BY <3>1 DEF Writes
    <3>3. setting.output[Len(printed[prog]) + 1] \in Pieces
      BY <3>1, <3>2, ElementOfSeq
    <3> QED BY <1>1, <3>3, TokensAre DEF Piece, Texts
  <2>3. Append(frame, Piece(prog)) \in Seq(Tokens) /\ Append(printed[prog], Piece(prog)) \in Seq(Tokens)
    BY <1>2, <2>1, <2>2 DEF ResultTyped
  <2>4. WiresTyped'
    BY <2>3 DEF WiresTyped
  <2>5. ResultTyped'
    BY <2>1, <2>3 DEF ResultTyped
  <2>6. RecordTyped' /\ ShellTyped' /\ HistoryTyped' /\ ClientTyped'
    OBVIOUS
  <2> QED BY <2>4, <2>5, <2>6, TypesNext
<1> QED BY <1>3, <1>4, <1>6, <1>7, <1>8, <1>9

\* The marks of bash are tokens.
LEMMA MarksAre ==
    /\ PromptMark \in Tokens /\ BeginMark \in Tokens
    /\ \A how \in {"ok", "failed"} : StatusMark(how) \in Tokens
  BY TokensAre, CommandsAre DEF PromptMark, BeginMark, StatusMark, Marks

\* The prompt of bash keeps types.
LEMMA CycleTyped ==
    ASSUME WiresTyped, ShellTyped, NEW how \in {"ok", "failed"}, NEW begun \in BOOLEAN, PromptCycle(how, begun)
    PROVE  pty' \in Seq(Tokens) /\ press' = 0 /\ at' = "prompt"
<1>1. pty \in Seq(Tokens)
  BY DEF WiresTyped
<1>2. PICK first : first = IF begun THEN <<>> ELSE <<BeginMark>>
  OBVIOUS
<1>3. first \in Seq(Tokens)
  BY <1>2, MarksAre
<1>4. <<StatusMark(how)>> \in Seq(Tokens) /\ <<PromptMark>> \in Seq(Tokens)
  BY MarksAre
<1>5. PICK middle : middle = IF press # 0 THEN first \o <<StatusMark(how)>> ELSE <<>>
  OBVIOUS
<1>6. middle \in Seq(Tokens)
  BY <1>3, <1>4, <1>5
<1>7. pty \o middle \o <<PromptMark>> \in Seq(Tokens)
  BY <1>1, <1>4, <1>6
<1>8. pty' = pty \o middle \o <<PromptMark>>
  BY <1>2, <1>5 DEF PromptCycle
<1> QED BY <1>7, <1>8 DEF PromptCycle

\* So does reading a token of bash.
LEMMA TakeTyped ==
    ASSUME TypeOK, FlagsTyped', active # 0 => x.phase \in {"begin", "capture", "prompt"}, ReceiveLinux
    PROVE  TypeOK'
<1> USE TypesAre, RestTyped DEF ReceiveLinux
<1>1. pty \in Seq(Tokens) /\ x \in Execution
  BY DEF WiresTyped, RecordTyped
<1>2. Head(pty) \in Tokens /\ Tail(pty) \in Seq(Tokens)
  BY <1>1
<1>3. WiresTyped'
  BY <1>2 DEF WiresTyped
<1>4. active # 0 => StepLinux(x, Head(pty)) \in Execution
  <2> SUFFICES ASSUME active # 0 PROVE StepLinux(x, Head(pty)) \in Execution
    OBVIOUS
  <2>1. \A how \in Ends : StatusOf(x, how) \in Execution
    BY <1>1, ChangesAre DEF StatusOf, Ends
  <2>2. {"ok", "failed", "error"} \subseteq Ends /\ {"capture", "prompt"} \subseteq Phases
    BY DEF Ends, Phases
  <2>3. AwaitBegin(x, Head(pty)) \in Execution /\ AwaitPrompt(x, Head(pty)) \in Execution
    BY <1>1, <2>2, ChangesAre DEF AwaitBegin, AwaitPrompt
  <2>4. CaptureLinux(x, Head(pty)) \in Execution
    <3>1. PICK o : o = Append(x.out, Head(pty))
      OBVIOUS
    <3>2. o \in Seq(Tokens)
      BY <1>1, <1>2, <3>1, ExecutionsAre
    <3>3. [x EXCEPT !.out = o] \in Execution
      BY <1>1, <3>2, ChangesAre
    <3>4. [StatusOf(x, "error") EXCEPT !.done = TRUE] \in Execution
      BY <2>1, <2>2, ChangesAre
    <3>5. Head(pty)[1] \in {"ok", "failed"} => [StatusOf(x, Head(pty)[1]) EXCEPT !.phase = "prompt"] \in Execution
      BY <2>1, <2>2, ChangesAre
    <3> QED BY <1>1, <3>1, <3>3, <3>4, <3>5 DEF CaptureLinux
  <2> QED BY <2>3, <2>4 DEF StepLinux
<1>5. RecordTyped'
  <2>1. CASE active = 0
    BY <2>1
  <2>2. CASE active # 0
    <3>1. PICK y : y = StepLinux(x, Head(pty))
      OBVIOUS
    <3>2. y \in Execution /\ IF y.done THEN Complete(y) ELSE x' = y /\ active' = active
      BY <1>4, <2>2, <3>1
    <3> QED BY <3>2, CompleteTyped DEF RecordTyped
  <2> QED BY <2>1, <2>2
<1>6. ShellTyped' /\ ResultTyped' /\ HistoryTyped' /\ ClientTyped'
  OBVIOUS
<1> QED BY <1>3, <1>5, <1>6, TypesNext

\* So does bash.
LEMMA BashTyped ==
    ASSUME TypeOK, FlagsTyped', at = "running" => prog \in Commands,
           \/ ReadText \/ ReadEnter \/ ReadInterrupt \/ WritePieceLinux
           \/ \E how \in {"ok", "failed"} : ProgramEnds(how)
    PROVE  TypeOK'
<1> USE TypesAre, RestTyped
<1>1. press \in 0..LastCommand /\ line \in 0..LastCommand /\ prog \in 0..LastCommand /\ 0 \in 0..LastCommand
  BY CommandsAre DEF ShellTyped
<1>2. keys \in Seq(Keys) /\ pty \in Seq(Tokens)
  BY DEF WiresTyped
<1>3. \A t \in Tokens : Append(pty, t) \in Seq(Tokens)
  BY <1>2
<1>4. CASE ReadText
  <2> USE <1>4 DEF ReadText
  <2>1. Tail(keys) \in Seq(Keys) /\ Head(keys)[2] \in 0..LastCommand
    BY <1>2, KeysAre
  <2>2. pty' \in Seq(Tokens)
    BY <1>2, <1>3, MarksAre
  <2>3. WiresTyped'
    BY <2>1, <2>2 DEF WiresTyped
  <2>4. ShellTyped'
    BY <1>1, <2>1 DEF ShellTyped
  <2>5. RecordTyped' /\ ResultTyped' /\ HistoryTyped' /\ ClientTyped'
    OBVIOUS
  <2> QED BY <2>3, <2>4, <2>5, TypesNext
<1>5. CASE ReadEnter
  <2> USE <1>5 DEF ReadEnter
  <2>1. Tail(keys) \in Seq(Keys)
    BY <1>2
  <2>2. PromptCycle("ok", FALSE) => pty' \in Seq(Tokens) /\ press' = 0 /\ at' = "prompt"
    BY CycleTyped
  <2>3. pty' \in Seq(Tokens)
    BY <1>2, <1>3, <2>2, MarksAre
  <2>4. WiresTyped'
    BY <2>1, <2>3 DEF WiresTyped
  <2>5. line' = 0 /\ prog' = line /\ at' \in {"prompt", "running"} /\ press' \in {0, press}
    BY <2>2 DEF Run
  <2>6. ShellTyped'
    BY <1>1, <2>5 DEF ShellTyped
  <2>7. ResultTyped'
    BY DEF ResultTyped, Run
  <2>8. RecordTyped' /\ HistoryTyped' /\ ClientTyped'
    OBVIOUS
  <2> QED BY <2>4, <2>6, <2>7, <2>8, TypesNext
<1>6. CASE ReadInterrupt
  <2> USE <1>6 DEF ReadInterrupt
  <2>1. keys' \in Seq(Keys)
    <3>1. PICK i \in DOMAIN keys : keys' = SubSeq(keys, i + 1, Len(keys))
      OBVIOUS
    <3>2. i \in 0..Len(keys) + 1
      BY <1>2
    <3> QED BY <1>2, <3>1, <3>2, PartsAre DEF After
  <2>2. \A how \in {"ok", "failed"}, begun \in BOOLEAN :
          PromptCycle(how, begun) => pty' \in Seq(Tokens) /\ press' = 0 /\ at' = "prompt"
    BY CycleTyped
  <2>3. pty' \in Seq(Tokens) /\ press' \in {0, press} /\ at' \in {"prompt", at}
    BY <1>2, <1>3, <2>2, MarksAre
  <2>4. WiresTyped'
    BY <2>1, <2>3 DEF WiresTyped
  <2>5. ShellTyped'
    BY <1>1, <2>3 DEF ShellTyped
  <2>6. HistoryTyped'
    BY DEF HistoryTyped
  <2>7. RecordTyped' /\ ResultTyped' /\ ClientTyped'
    OBVIOUS
  <2> QED BY <2>4, <2>5, <2>6, <2>7, TypesNext
<1>7. CASE WritePieceLinux
  <2> USE <1>7 DEF WritePieceLinux
  <2>1. prog \in Commands
    OBVIOUS
  <2>2. Piece(prog) \in Tokens
    <3>1. printed[prog] \in Seq(Tokens) /\ setting.output \in Seq(Pieces)
      BY <2>1, SettingIs DEF ResultTyped, ClientTyped
    <3>2. Len(printed[prog]) + 1 \in 1..Len(setting.output)
      BY <3>1 DEF Writes
    <3>3. setting.output[Len(printed[prog]) + 1] \in Pieces
      BY <3>1, <3>2, ElementOfSeq
    <3> QED BY <1>1, <3>3, TokensAre DEF Piece, Texts
  <2>3. Append(printed[prog], Piece(prog)) \in Seq(Tokens)
    BY <2>1, <2>2 DEF ResultTyped
  <2>4. WiresTyped'
    BY <1>3, <2>2 DEF WiresTyped
  <2>5. ResultTyped'
    BY <2>1, <2>3 DEF ResultTyped
  <2>6. RecordTyped' /\ ShellTyped' /\ HistoryTyped' /\ ClientTyped'
    OBVIOUS
  <2> QED BY <2>4, <2>5, <2>6, TypesNext
<1>8. CASE \E how \in {"ok", "failed"} : ProgramEnds(how)
  <2>1. PICK how \in {"ok", "failed"} : ProgramEnds(how)
    BY <1>8
  <2> USE <2>1 DEF ProgramEnds
  <2>2. pty' \in Seq(Tokens) /\ press' = 0 /\ at' = "prompt"
    BY CycleTyped
  <2>3. WiresTyped'
    BY <2>2 DEF WiresTyped
  <2>4. ShellTyped'
    BY <1>1, <2>2 DEF ShellTyped
  <2>5. HistoryTyped'
    BY DEF HistoryTyped
  <2>6. RecordTyped' /\ ResultTyped' /\ ClientTyped'
    OBVIOUS
  <2> QED BY <2>3, <2>4, <2>5, <2>6, TypesNext
<1> QED BY <1>4, <1>5, <1>6, <1>7, <1>8

-----------------------------------------------------------------------------
(* What both sessions keep true.  Typed and Pressed are the last command      *)
(* whose text was typed and the last one the shell was told to run; a command *)
(* is prepared, told to run and answered in this order, one after the other.  *)

Typed == IF step = "idle" \/ (setting.kind = "powershell" /\ step = "syncing") THEN cmd - 1 ELSE cmd
Pressed == IF step = "waiting" THEN cmd ELSE cmd - 1
\* execute() has installed its record.
Kept == step \in {"installed", "waiting"}
Is(k, kind, c) == k[1] = kind /\ k[2] = c

\* The record, the flag of a cancel and the cancel that is under way belong to
\* the command that the executing thread is at.
ClientSound ==
    /\ step # "idle" => cmd \in Commands
    /\ active # 0 => active = cmd /\ ~x.done /\ Kept
    /\ executing => Kept
    /\ flagged => executing
    /\ canceller <= cmd
    /\ interrupting => canceller # 0
    /\ canceller = cmd => Kept
    /\ flagged /\ canceller # 0 => canceller = cmd
    /\ ~Alive => keys = <<>> /\ ctl = <<>>

\* Only what the shell was told to run has run, once; what is told of it is so.
ResultsSound ==
    \A c \in Commands :
        /\ ran[c] <= 1
        /\ ran[c] > 0 => c <= Pressed /\ result[c] # "unprepared"
        /\ c >= cmd => result[c] = "none"
        /\ Told(c) /\ c \notin disturbed => ran[c] = 1 /\ c \in ended

\* The texts that stand in the line editor or on their way to it were typed.
KeysTyped ==
    /\ line <= Typed
    /\ \A i \in 1..Len(keys) : keys[i][1] = "text" => keys[i][2] \in 1..Typed

Common == ClientSound /\ ResultsSound /\ KeysTyped

-----------------------------------------------------------------------------
(* What the PowerShell session keeps true.                                    *)

\* The shell is to run the line, runs it or has run it.
Under == {"beginning", "fencing", "accepting"}
Ran == {"running", "ending", "closingfence", "prompting"}
Erases == {"clear", "^C"}

Runs(i) == keys[i][1] = "run"
\* A key that types no other text, and tells the shell nothing.
Mine(k) == k[1] # "run" /\ (k[1] = "text" => k[2] = cmd)
\* The text of the command is all there can be in the editor.
Seen ==
    /\ line \in {0, cmd} /\ at \in {"prompt", "dead"}
    /\ \A i \in 1..Len(keys) : Mine(keys[i])
\* PROMPT_READY tells of this text, or is about to.
Reports == ready = cmd \/ \E i \in 1..Len(ctl) : Is(ctl[i], "ready", cmd)

\* PROMPT_READY tells of the command's own text only when nothing of an earlier
\* one can come after it: whoever waits for a line waits for its own.
PromptSound ==
    /\ ready = NoText \/ ready <= Typed
    /\ \A i \in 1..Len(ctl) : ctl[i][1] = "ready" => ctl[i][2] <= Typed
    /\ step \in {"prepared", "installed"} => Seen
    /\ step = "checking" /\ (Reports \/ line = cmd) => Seen
    /\ step = "checking" => \A i, j \in 1..Len(keys) :
          i < j /\ Is(keys[i], "text", cmd) => Mine(keys[j])
    /\ step = "waiting" /\ at \notin {"prompt", "dead"} => press = cmd

\* What may stand before the key that runs c, and when the key may stand there.
BeforeRun(k, c) == k[1] # "run" /\ (k[1] = "text" => k[2] = c) /\ (c \notin disturbed => k[1] \notin Erases)
MayRun(c) ==
    /\ c \in 1..Pressed /\ ran[c] = 0 /\ result[c] # "unprepared"
    /\ line \in {0, c} /\ at \in {"prompt", "dead"} /\ (c \notin disturbed => line = c)
    /\ step = "waiting" => c = cmd
RunSound ==
    \A i \in 1..Len(keys) : Runs(i) =>
        MayRun(keys[i][2]) /\ \A j \in 1..i - 1 : BeforeRun(keys[j], keys[i][2])

\* The line that runs is that of the command whose key was pressed, or it is
\* empty; unless its text was disturbed it has run when its end is told.
PressSound ==
    /\ at \in Under \cup Ran => press \in 1..Pressed /\ result[press] # "unprepared"
    /\ at \in Under => line \in {0, press} /\ ran[press] = 0 /\ (press \notin disturbed => line = press)
    /\ at \in Ran /\ press \notin disturbed => ran[press] = 1
    /\ at \in Ran \ {"running"} => press \in ended

\* Unless somebody disturbed it, the prepared text stands in the editor and
\* nothing that erases comes after it.
Clean ==
    \A j \in 1..Len(keys) : keys[j][1] \in Erases => line # cmd /\ \A i \in 1..j - 1 : ~Is(keys[i], "text", cmd)
LineSound ==
    /\ canceller = cmd => flagged
    /\ Alive /\ cmd \notin disturbed /\ ~flagged =>
          /\ step \in {"checking", "prepared", "installed"} => Clean
          /\ step \in {"prepared", "installed"} \/ (step = "checking" /\ Reports) => line = cmd

\* A record that has seen an end has seen that of its own command.
EndSound ==
    Kept =>
        /\ x.ended \in {"none", "ok", "failed"}
        /\ x.ended # "none" => step = "waiting" /\ cmd \in ended /\ (cmd \notin disturbed => ran[cmd] = 1)
        /\ x.status \in {"ok", "failed"} \/ x.endSeen \/ x.endMark \/ x.phase = "drain" => x.ended # "none"
        /\ active # 0 /\ at \in {"closingfence", "prompting"} => x.ended # "none"
        /\ step = "installed" /\ x.done => x.status \in {"error", "cancelled"}

PowerShellInv == PromptSound /\ RunSound /\ PressSound /\ LineSound /\ EndSound
Prompted == setting.kind = "powershell" /\ TypeOK /\ Common /\ PowerShellInv

-----------------------------------------------------------------------------
(* What the steps of the PowerShell session have in common.                   *)

\* What every step does, and what a step does that tells the shell nothing new.
Onward ==
    /\ Pressed \in Nat /\ Pressed' \in Nat /\ Pressed <= Pressed'
    /\ ended \subseteq ended' /\ disturbed \subseteq disturbed'
    /\ \A c \in 1..Pressed : result'[c] = "unprepared" => result[c] = "unprepared"
    /\ step' = "waiting" => step = "waiting" /\ cmd' = cmd
    /\ ran' = ran
Longer == Len(keys) <= Len(keys') /\ \A i \in 1..Len(keys) : keys'[i] = keys[i]

\* The types once more, one by one.
LEMMA KeyIs ==
    ASSUME TypeOK
    PROVE  /\ Len(keys) \in Nat /\ keys \in Seq(Keys)
           /\ \A i \in 1..Len(keys) : keys[i] \in Keys /\ keys[i][2] \in 0..LastCommand
                /\ keys[i][1] \in {"sync", "clear", "text", "run", "arm", "enter", "^C"}
           /\ Len(ctl) \in Nat /\ ctl \in Seq(Messages)
           /\ \A i \in 1..Len(ctl) : ctl[i] \in Messages /\ ctl[i][2] \in 0..LastCommand
                /\ ctl[i][1] \in {"ready", "begin", "ok", "failed"}
<1>1. keys \in Seq(Keys) /\ ctl \in Seq(Messages)
  BY TypesAre DEF WiresTyped
<1>2. \A i \in 1..Len(keys) : keys[i] \in Keys
  BY <1>1
<1>3. \A i \in 1..Len(ctl) : ctl[i] \in Messages
  BY <1>1
<1> QED BY <1>1, <1>2, <1>3 DEF Keys, Messages

\* The numbers and places.
LEMMA NumbersAre ==
    ASSUME TypeOK
    PROVE  /\ cmd \in 1..LastCommand + 1 /\ LastCommand \in Nat
           /\ line \in 0..LastCommand /\ press \in 0..LastCommand /\ ready \in 0..LastCommand + 1
           /\ NoText = LastCommand + 1 /\ canceller \in 0..LastCommand
           /\ step \in {"idle", "syncing", "checking", "prepared", "installed", "waiting"}
           /\ at \in {"prompt", "beginning", "fencing", "accepting", "running",
               "ending", "closingfence", "prompting", "dead"}
  BY TypesAre, CommandsAre DEF ClientTyped, ShellTyped

\* One key more, or two, place by place.
OneMore(k) ==
    /\ Len(keys') = Len(keys) + 1
    /\ \A i \in 1..Len(keys) : keys'[i] = keys[i]
    /\ keys'[Len(keys) + 1] = k
    /\ \A i \in 1..Len(keys') : (i \in 1..Len(keys) /\ keys'[i] = keys[i]) \/ (i = Len(keys) + 1 /\ keys'[i] = k)
TwoMore(k, m) ==
    /\ Len(keys') = Len(keys) + 2
    /\ \A i \in 1..Len(keys) : keys'[i] = keys[i]
    /\ keys'[Len(keys) + 1] = k /\ keys'[Len(keys) + 2] = m
    /\ \A i \in 1..Len(keys') :
          \/ i \in 1..Len(keys) /\ keys'[i] = keys[i]
          \/ i = Len(keys) + 1 /\ keys'[i] = k
          \/ i = Len(keys) + 2 /\ keys'[i] = m

\* What Send adds.
LEMMA OneSent == ASSUME TypeOK, Alive, NEW k, Send(<<k>>) PROVE OneMore(k)
<1>1. /\ Len(keys') = Len(keys) + 1 /\ Len(keys) \in Nat
      /\ \A i \in 1..Len(keys) : keys'[i] = keys[i]
      /\ keys'[Len(keys) + 1] = k
  BY KeyIs DEF Send
<1> QED BY <1>1 DEF OneMore

\* Two keys of one call.
LEMMA TwoSent == ASSUME TypeOK, Alive, NEW k, NEW m, Send(<<k, m>>) PROVE TwoMore(k, m)
<1>1. /\ Len(keys') = Len(keys) + 2 /\ Len(keys) \in Nat
      /\ \A i \in 1..Len(keys) : keys'[i] = keys[i]
      /\ keys'[Len(keys) + 1] = k /\ keys'[Len(keys) + 2] = m
  BY KeyIs DEF Send
<1> QED BY <1>1 DEF TwoMore

\* Keys that tell nothing leave those sound that do.
LEMMA RunKept ==
    ASSUME TypeOK, RunSound, Onward, UNCHANGED <<line, at>>, Longer, Len(keys') \in Nat,
           \A i \in 1..Len(keys') : i \in 1..Len(keys) \/ keys'[i][1] # "run"
    PROVE  RunSound'
<1>1. ASSUME NEW i \in 1..Len(keys'), keys'[i][1] = "run"
      PROVE  \E k : k = keys'[i][2] /\ MayRun(k)' /\ \A j \in 1..i - 1 : \E m : m = keys'[j] /\ BeforeRun(m, k)'
  <2>1. i \in 1..Len(keys) /\ keys'[i] = keys[i] /\ keys[i][1] = "run" /\ \A j \in 1..i - 1 : j \in 1..Len(keys)
    BY <1>1, KeyIs DEF Longer
  <2>2. PICK k : k = keys[i][2]
    OBVIOUS
  <2>3. MayRun(k) /\ \A j \in 1..i - 1 : BeforeRun(keys[j], k)
    BY <2>1, <2>2 DEF RunSound, Runs
  <2>4. MayRun(k)'
    BY <2>3, CommandsAre DEF MayRun, Onward
  <2>5. ASSUME NEW j \in 1..i - 1 PROVE \E m : m = keys'[j] /\ BeforeRun(m, k)'
    <3>1. PICK m : m = keys[j]
      OBVIOUS
    <3>2. BeforeRun(m, k)'
      BY <2>3, <3>1 DEF BeforeRun, Onward
    <3> QED BY <2>1, <3>1, <3>2 DEF Longer
  <2> QED BY <2>1, <2>2, <2>4, <2>5
<1> QED BY <1>1 DEF RunSound, Runs, MayRun, BeforeRun

\* So they do with the line that was pressed.
LEMMA PressKept ==
    ASSUME TypeOK, PressSound, Onward, UNCHANGED <<line, at, press>>
    PROVE  PressSound'
<1>1. at \in Under \cup Ran => press \in 1..Pressed' /\ result'[press] # "unprepared"
  BY CommandsAre DEF PressSound, Onward
<1> QED BY <1>1 DEF PressSound, Onward

\* And with the texts.
LEMMA KeysTypedKept ==
    ASSUME TypeOK, KeysTyped, Typed <= Typed', line' \in {0, line} \cup (1..Typed'), Typed' \in Nat, Typed \in Nat, 
           \A i \in 1..Len(keys') :
              \/ \E j \in 1..Len(keys) : keys'[i] = keys[j]
              \/ keys'[i][1] = "text" => keys'[i][2] \in 1..Typed'
    PROVE  KeysTyped'
<1>1. line' <= Typed'
  BY NumbersAre DEF KeysTyped
<1>2. ASSUME NEW i \in 1..Len(keys'), keys'[i][1] = "text" PROVE keys'[i][2] \in 1..Typed'
  BY <1>2, KeyIs DEF KeysTyped
<1> QED BY <1>1, <1>2 DEF KeysTyped

-----------------------------------------------------------------------------
(* The steps of the PowerShell session.                                       *)

\* What a step leaves alone stays sound.
LEMMA ResultsRest ==
    ASSUME ResultsSound, ended \subseteq ended', disturbed \subseteq disturbed', UNCHANGED <<ran, result, cmd, step>>
    PROVE  ResultsSound'
  BY DEF ResultsSound, Told, Pressed

LEMMA KeysRest == ASSUME KeysTyped, UNCHANGED <<line, keys, step, cmd, setting>> PROVE KeysTyped'
  BY DEF KeysTyped, Typed

LEMMA PromptRest == ASSUME PromptSound, UNCHANGED <<ready, ctl, keys, line, at, step, cmd, press, setting>> PROVE PromptSound'
  BY DEF PromptSound, Typed, Seen, Mine, Reports, Is

LEMMA OnwardRest ==
    ASSUME TypeOK, UNCHANGED <<step, cmd, ran, result>>, ended \subseteq ended', disturbed \subseteq disturbed'
    PROVE  Onward
  BY NumbersAre DEF Onward, Pressed

LEMMA RunRest == ASSUME TypeOK, RunSound, Onward, UNCHANGED <<line, at, keys>> PROVE RunSound'
<1>1. Longer /\ Len(keys') \in Nat /\ \A i \in 1..Len(keys') : i \in 1..Len(keys) \/ keys'[i][1] # "run"
  BY KeyIs DEF Longer
<1> QED BY <1>1, RunKept

LEMMA LineRest ==
    ASSUME LineSound, disturbed \subseteq disturbed', UNCHANGED <<canceller, flagged, cmd, at, line, keys, step, ready, ctl>>
    PROVE  LineSound'
  BY DEF LineSound, Clean, Reports, Is, Erases, Alive

LEMMA EndRest ==
    ASSUME EndSound, ended \subseteq ended', disturbed \subseteq disturbed',
           UNCHANGED <<step, x, cmd, ran, active>>, at' = at \/ at' \notin {"closingfence", "prompting"}
    PROVE  EndSound'
  BY DEF EndSound, Kept

\* A step that changes nothing but the record and the reader.
LEMMA RecordRest ==
    ASSUME Prompted, UNCHANGED <<setting, client, shell, keys, ctl, ready, flagged, executing, result, ran, ended, disturbed, canceller>>
    PROVE  ResultsSound' /\ KeysTyped' /\ PromptSound' /\ RunSound' /\ PressSound' /\ LineSound'
<1> USE DEF Prompted, Common, PowerShellInv
<1>1. Onward
  BY OnwardRest
<1> QED BY <1>1, ResultsRest, KeysRest, PromptRest, RunRest, PressKept, LineRest

\* The steps of the executing thread keep what holds: it asks for the line.
LEMMA PrepareKeeps == ASSUME Prompted, Prepare PROVE Common' /\ PowerShellInv'
<1> USE DEF Prompted, Common, PowerShellInv, Prepare, AskForLine, Kept
<1>1. OneMore(<<"sync", 0>>)
  BY OneSent
<1>2. /\ Typed = cmd - 1 /\ Typed' = cmd - 1 /\ Pressed = cmd - 1 /\ Pressed' = cmd - 1 /\ cmd \in 1..LastCommand + 1
      /\ Len(keys') \in Nat /\ Longer /\ \A i \in 1..Len(keys') : i \in 1..Len(keys) \/ keys'[i][1] = "sync"
  BY <1>1, NumbersAre, KeyIs DEF Typed, Pressed, OneMore, Longer
<1>3. ClientSound'
  BY NumbersAre, CommandsAre DEF ClientSound, Alive
<1>4. ResultsSound'
  BY <1>2 DEF ResultsSound, Told
<1>5. KeysTyped'
  BY <1>2, KeysTypedKept DEF Longer
<1>6. PromptSound'
  BY <1>2, NumbersAre DEF PromptSound
<1>7. Onward
  BY <1>2 DEF Onward
<1>8. RunSound' /\ PressSound'
  BY <1>2, <1>7, RunKept, PressKept
<1>9. LineSound' /\ EndSound'
  BY DEF LineSound, EndSound
<1> QED BY <1>3, <1>4, <1>5, <1>6, <1>8, <1>9

\* It types the text.
LEMMA TypeKeeps == ASSUME Prompted, TypeCommand \/ Retype PROVE Common' /\ PowerShellInv'
<1> USE DEF Prompted, Common, PowerShellInv, TypeCommand, Retype, Type, AskForLine, Kept
<1>1. TwoMore(<<"text", cmd>>, <<"sync", 0>>)
  BY TwoSent
<1>0. Typed <= cmd /\ Typed' = cmd /\ Typed \in Nat /\ Pressed = cmd - 1 /\ Pressed' = cmd - 1 /\ cmd \in 1..LastCommand + 1
  BY NumbersAre DEF Typed, Pressed
<1>2. /\ Len(keys') \in Nat /\ Longer
      /\ \A i \in 1..Len(keys') :
            \/ i \in 1..Len(keys)
            \/ i = Len(keys) + 1 /\ keys'[i][1] = "text" /\ keys'[i][2] = cmd
            \/ i = Len(keys) + 2 /\ keys'[i][1] = "sync"
  BY <1>1, KeyIs DEF TwoMore, Longer
<1>3. ClientSound'
  BY NumbersAre, CommandsAre DEF ClientSound, Alive
<1>4. ResultsSound'
  BY <1>0 DEF ResultsSound, Told
<1>5. KeysTyped'
  BY <1>0, <1>2, KeysTypedKept DEF Longer
<1>6. /\ cmd # NoText
      /\ Reports' \/ line = cmd => step = "checking" /\ (Reports \/ line = cmd)
      /\ Reports' => step = "checking" /\ Reports
      /\ \A i \in 1..Len(keys) : Is(keys[i], "text", cmd) => step = "checking"
  <2>1. cmd # NoText
    BY NumbersAre, CommandsAre DEF ClientSound
  <2>2. Reports' => Reports
    BY <2>1 DEF Reports
  <2>3. step = "syncing" => ~Reports /\ line # cmd /\ \A i \in 1..Len(keys) : ~Is(keys[i], "text", cmd)
    <3> SUFFICES ASSUME step = "syncing" PROVE ~Reports /\ line # cmd /\ \A i \in 1..Len(keys) : ~Is(keys[i], "text", cmd)
      OBVIOUS
    <3>1. Typed = cmd - 1
      BY DEF Typed
    <3>2. ready # cmd /\ line # cmd
      BY <2>1, <3>1, NumbersAre DEF PromptSound, KeysTyped
    <3>3. \A i \in 1..Len(ctl) : ~Is(ctl[i], "ready", cmd)
      BY <3>1, NumbersAre, KeyIs DEF PromptSound, Is
    <3>4. \A i \in 1..Len(keys) : ~Is(keys[i], "text", cmd)
      BY <3>1, NumbersAre, KeyIs DEF KeysTyped, Is
    <3> QED BY <3>2, <3>3, <3>4 DEF Reports
  <2> QED BY <2>1, <2>2, <2>3
<1>7. Onward
  BY <1>0 DEF Onward
<1>8. RunSound' /\ PressSound'
  BY <1>0, <1>2, <1>7, RunKept, PressKept
<1>9. EndSound'
  BY DEF EndSound
<1>10. PromptSound'
  <2>1. ready' = NoText /\ \A i \in 1..Len(ctl) : ctl[i][1] = "ready" => ctl[i][2] <= cmd
    BY <1>0, KeyIs, NumbersAre DEF PromptSound
  <2>2. ASSUME step = "checking", Reports \/ line = cmd PROVE Seen'
    <3>1. Seen
      BY <2>2 DEF PromptSound
    <3>2. ASSUME NEW i \in 1..Len(keys') PROVE \E k : k = keys'[i] /\ Mine(k)'
      BY <1>2, <3>1, <3>2 DEF Seen, Mine, Longer
    <3> QED BY <3>1, <3>2 DEF Seen, Mine
  <2>3. ASSUME NEW i \in 1..Len(keys'), NEW j \in 1..Len(keys'), i < j, Is(keys'[i], "text", cmd)
        PROVE  \E k : k = keys'[j] /\ Mine(k)'
    <3>1. CASE j \in 1..Len(keys)
      <4>1. i \in 1..Len(keys) /\ keys'[i] = keys[i] /\ keys'[j] = keys[j]
        BY <1>2, <2>3, <3>1, KeyIs DEF Longer
      <4>2. step = "checking" /\ Mine(keys[j])
        BY <1>6, <2>3, <3>1, <4>1 DEF PromptSound
      <4> QED BY <4>1, <4>2 DEF Mine
    <3>2. CASE j \notin 1..Len(keys)
      BY <1>2, <3>2 DEF Mine
    <3> QED BY <3>1, <3>2
  <2> QED BY <1>0, <1>6, <2>1, <2>2, <2>3 DEF PromptSound, Is, Mine
<1>11. LineSound'
  <2>1. canceller = cmd => flagged
    BY DEF LineSound
  <2>2. ASSUME Alive, cmd \notin disturbed, ~flagged PROVE Clean'
    <3>1. ASSUME NEW j \in 1..Len(keys'), keys'[j][1] \in Erases
          PROVE  line # cmd /\ \A i \in 1..j - 1 : ~Is(keys'[i], "text", cmd)
      <4>1. j \in 1..Len(keys) /\ keys[j][1] \in Erases /\ \A i \in 1..j - 1 : i \in 1..Len(keys) /\ keys'[i] = keys[i]
        BY <1>2, <3>1, KeyIs DEF Longer, Erases
      <4>2. CASE step = "checking"
        <5>1. Clean
          BY <2>2, <4>2 DEF LineSound
        <5> QED BY <4>1, <5>1 DEF Clean
      <4>3. CASE step # "checking"
        BY <1>6, <4>1, <4>3
      <4> QED BY <4>2, <4>3
    <3> QED BY <3>1 DEF Clean
  <2>3. ASSUME Alive, cmd \notin disturbed, ~flagged, Reports' PROVE line = cmd
    BY <1>6, <2>3 DEF LineSound
  <2> QED BY <2>1, <2>2, <2>3 DEF LineSound, Alive
<1> QED BY <1>3, <1>4, <1>5, <1>8, <1>9, <1>10, <1>11

\* PROMPT_READY told of the text.
LEMMA PreparedKeeps == ASSUME Prompted, Prepared PROVE Common' /\ PowerShellInv'
<1> USE DEF Prompted, Common, PowerShellInv, Prepared
<1>1. Typed' = Typed /\ Typed = cmd /\ Pressed' = Pressed /\ Pressed = cmd - 1 /\ cmd \in 1..LastCommand + 1
  BY NumbersAre DEF Typed, Pressed
<1>2. ClientSound'
  BY DEF ClientSound, Kept, Alive
<1>3. ResultsSound' /\ KeysTyped'
  BY <1>1 DEF ResultsSound, Told, KeysTyped
<1>4. Onward
  BY <1>1 DEF Onward
<1>5. RunSound' /\ PressSound'
  BY <1>4, RunRest, PressKept
<1>6. Reports
  BY DEF Reports
<1>7. Seen /\ Seen'
  BY <1>6 DEF PromptSound, Seen, Mine
<1>8. PromptSound'
  BY <1>1, <1>7 DEF PromptSound
<1>9. LineSound'
  <2>1. Clean' <=> Clean
    BY DEF Clean, Is
  <2> QED BY <1>6, <2>1 DEF LineSound, Alive
<1>10. EndSound'
  BY DEF EndSound, Kept
<1> QED BY <1>2, <1>3, <1>5, <1>8, <1>9, <1>10

\* execute() installs its record.
LEMMA InstallKeeps == ASSUME Prompted, Install("wait") PROVE Common' /\ PowerShellInv'
<1> USE DEF Prompted, Common, PowerShellInv, Install
<1>1. Typed' = Typed /\ Typed = cmd /\ Pressed' = Pressed /\ Pressed = cmd - 1 /\ cmd \in 1..LastCommand + 1
  BY NumbersAre DEF Typed, Pressed
<1>2. ~x'.done /\ x'.ended = "none" /\ x'.status = "none" /\ ~x'.endSeen /\ ~x'.endMark /\ x'.phase = "wait"
  BY DEF NewExecution
<1>3. ClientSound'
  BY <1>2 DEF ClientSound, Kept, Alive
<1>4. ResultsSound' /\ KeysTyped'
  BY <1>1 DEF ResultsSound, Told, KeysTyped
<1>5. Onward
  BY <1>1 DEF Onward
<1>6. RunSound' /\ PressSound'
  BY <1>5, RunRest, PressKept
<1>7. Seen /\ Seen'
  BY DEF PromptSound, Seen, Mine
<1>8. PromptSound'
  BY <1>1, <1>7 DEF PromptSound
<1>9. LineSound'
  <2>1. Clean' <=> Clean
    BY DEF Clean, Is
  <2>2. canceller # cmd /\ ~flagged
    BY DEF ClientSound, Kept
  <2> QED BY <2>1, <2>2 DEF LineSound, Alive
<1>10. EndSound'
  BY <1>2, <1>7 DEF EndSound, Kept, Seen
<1> QED BY <1>3, <1>4, <1>6, <1>8, <1>9, <1>10

\* F12: the line is that of the command, and nothing before it in the keys takes it away.
LEMMA PressRunKeeps == ASSUME Prompted, PressRun PROVE Common' /\ PowerShellInv'
<1> USE DEF Prompted, Common, PowerShellInv, PressRun
<1>1. Typed' = Typed /\ Typed = cmd /\ Pressed' = cmd /\ Pressed = cmd - 1 /\ cmd \in Commands /\ cmd \in 1..LastCommand + 1
  BY NumbersAre DEF Typed, Pressed, ClientSound
<1>2. Seen
  BY DEF PromptSound
<1>3. /\ Longer /\ Len(keys') \in Nat
      /\ flagged => keys' = keys
      /\ \A i \in 1..Len(keys') : \/ i \in 1..Len(keys) /\ keys'[i] = keys[i]
                                  \/ i = Len(keys) + 1 /\ keys'[i] = <<"run", cmd>> /\ ~flagged
  <2>1. CASE flagged
    BY <2>1, KeyIs DEF Longer
  <2>2. CASE ~flagged
    <3>1. OneMore(<<"run", cmd>>)
      BY <2>2, OneSent
    <3> QED BY <2>2, <3>1, KeyIs DEF OneMore, Longer
  <2> QED BY <2>1, <2>2
<1>4. ClientSound'
  BY DEF ClientSound, Kept, Alive
<1>5. ResultsSound'
  BY <1>1 DEF ResultsSound, Told
<1>6. KeysTyped'
  <2>1. \A i \in 1..Len(keys') : (\E j \in 1..Len(keys) : keys'[i] = keys[j]) \/ keys'[i][1] # "text"
    BY <1>3
  <2> QED BY <1>1, <2>1, KeysTypedKept
<1>7. ran[cmd] = 0 /\ result[cmd] = "none" /\ ran' = ran /\ result' = result
  BY <1>1, TypesAre DEF ResultsSound, ResultTyped
<1>8. PromptSound'
  BY <1>1, <1>2 DEF PromptSound, Seen
<1>9. RunSound'
  <2>1. ASSUME NEW i \in 1..Len(keys'), keys'[i][1] = "run" PROVE i = Len(keys) + 1 /\ keys'[i][2] = cmd /\ ~flagged
    BY <1>2, <1>3, <2>1 DEF Seen, Mine
  <2>2. \A i \in 1..Len(keys) : keys[i][1] # "run" /\ (keys[i][1] = "text" => keys[i][2] = cmd)
    BY <1>2 DEF Seen, Mine
  <2>3. PICK c : c = cmd
    OBVIOUS
  <2>4. ~flagged => MayRun(c)'
    BY <1>1, <1>2, <1>7, <2>3 DEF MayRun, Seen, LineSound
  <2>5. ASSUME NEW j \in 1..Len(keys), ~flagged PROVE \E m : m = keys'[j] /\ BeforeRun(m, c)'
    <3>1. c \notin disturbed => keys[j][1] \notin Erases
      BY <2>3, <2>5 DEF LineSound, Clean
    <3>2. PICK m : m = keys[j]
      OBVIOUS
    <3> QED BY <1>3, <2>2, <2>3, <3>1, <3>2 DEF BeforeRun, Longer
  <2>6. ASSUME NEW i \in 1..Len(keys'), keys'[i][1] = "run"
        PROVE  keys'[i][2] = c /\ MayRun(c)' /\ \A j \in 1..i - 1 : \E m : m = keys'[j] /\ BeforeRun(m, c)'
    <3>1. \A j \in 1..i - 1 : j \in 1..Len(keys)
      BY <2>1, <2>6, KeyIs
    <3> QED BY <2>1, <2>3, <2>4, <2>5, <2>6, <3>1
  <2> QED BY <2>6 DEF RunSound, Runs, MayRun, BeforeRun
<1>10. PressSound'
  BY <1>2 DEF PressSound, Seen, Under, Ran
<1>11. LineSound'
  BY DEF LineSound
<1>12. EndSound'
  BY <1>2 DEF EndSound, Kept, Seen
<1> QED BY <1>4, <1>5, <1>6, <1>8, <1>9, <1>10, <1>11, <1>12

\* The next command, by its numbers.
LEMMA NextCommandIs ==
    ASSUME TypeOK, ClientSound, NEW how \in Ends \cup {"unprepared"}, NextCommand(how), step # "idle", UNCHANGED setting
    PROVE  /\ Typed <= Typed' /\ Typed' = cmd /\ Typed \in Nat /\ Pressed <= Pressed' /\ Pressed' = cmd /\ Pressed \in Nat
           /\ cmd' = cmd + 1 /\ step' = "idle" /\ cmd \in Commands /\ cmd \in Nat /\ ~Kept'
           /\ result' = [result EXCEPT ![cmd] = how]
           /\ result'[cmd] = how /\ \A c \in Commands : c # cmd => result'[c] = result[c]
<1>1. cmd \in Commands /\ cmd \in 1..LastCommand + 1
  BY NumbersAre DEF ClientSound
<1>2. Typed <= Typed' /\ Typed' = cmd /\ Typed \in Nat /\ Pressed <= Pressed' /\ Pressed' = cmd /\ Pressed \in Nat
  BY <1>1 DEF Typed, Pressed, NextCommand
<1> QED BY <1>1, <1>2, TypesAre DEF NextCommand, ResultTyped, Kept

\* The command is not executed after all.
LEMMA AbandonKeeps == ASSUME Prompted, Abandon PROVE Common' /\ PowerShellInv'
<1> USE DEF Prompted, Common, PowerShellInv, Abandon
<1>1. NextCommand("unprepared") /\ step # "idle"
  OBVIOUS
<1>2. /\ Typed <= Typed' /\ Typed' = cmd /\ Typed \in Nat /\ Pressed <= Pressed' /\ Pressed' = cmd /\ Pressed \in Nat
      /\ cmd' = cmd + 1 /\ step' = "idle" /\ cmd \in Commands /\ cmd \in Nat /\ ~Kept'
      /\ result'[cmd] = "unprepared" /\ \A c \in Commands : c # cmd => result'[c] = result[c]
  BY <1>1, NextCommandIs
<1>3. Pressed = cmd - 1 /\ ~Kept
  BY DEF Pressed, Kept
<1>4. /\ Longer /\ Len(keys') \in Nat /\ (~Alive => keys' = keys)
      /\ \A i \in 1..Len(keys') : (i \in 1..Len(keys) /\ keys'[i] = keys[i]) \/ keys'[i][1] = "clear"
  <2>1. CASE ~Alive
    BY <2>1, KeyIs DEF Longer, Send
  <2>2. CASE Alive
    <3>1. OneMore(<<"clear", 0>>)
      BY <2>2, OneSent
    <3> QED BY <2>2, <3>1, KeyIs DEF OneMore, Longer
  <2> QED BY <2>1, <2>2
<1>5. ClientSound'
  BY <1>2, <1>3, <1>4, NumbersAre DEF ClientSound, Alive
<1>6. ResultsSound'
  BY <1>2, <1>3, CommandsAre DEF ResultsSound, Told
<1>7. KeysTyped'
  <2>1. \A i \in 1..Len(keys') : (\E j \in 1..Len(keys) : keys'[i] = keys[j]) \/ keys'[i][1] # "text"
    BY <1>4
  <2> QED BY <1>2, <2>1, KeysTypedKept
<1>8. PromptSound'
  <2>1. ready = NoText \/ ready <= Typed'
    BY <1>2, NumbersAre DEF PromptSound
  <2>2. \A i \in 1..Len(ctl) : ctl[i][1] = "ready" => ctl[i][2] <= Typed'
    BY <1>2, KeyIs DEF PromptSound
  <2> QED BY <1>2, <2>1, <2>2 DEF PromptSound
<1>9. Onward
  BY <1>2, <1>3, CommandsAre DEF Onward
<1>10. RunSound' /\ PressSound'
  <2>1. \A i \in 1..Len(keys') : i \in 1..Len(keys) \/ keys'[i][1] # "run"
    BY <1>4
  <2> QED BY <1>4, <1>9, <2>1, RunKept, PressKept
<1>11. LineSound' /\ EndSound'
  BY <1>2, NumbersAre DEF LineSound, EndSound, ClientSound
<1> QED BY <1>5, <1>6, <1>7, <1>8, <1>10, <1>11

\* execute() returns.
LEMMA ReturnKeeps == ASSUME Prompted, Refuse \/ Leave PROVE Common' /\ PowerShellInv'
<1> USE DEF Prompted, Common, PowerShellInv
<1>1. PICK how \in Ends : NextCommand(how) /\ (how \in {"ok", "failed"} => step = "waiting" /\ how = x.status)
  <2>1. x.status \in Ends /\ "error" \in Ends
    BY TypesAre, ExecutionsAre DEF RecordTyped, Ends
  <2> QED BY <2>1 DEF Refuse, Leave
<1>2. /\ step \in {"prepared", "installed", "waiting"}
      /\ UNCHANGED <<setting, cancel, shell, wires, session, history>>
      /\ active' = 0 /\ ~executing' /\ ~flagged'
  BY DEF Refuse, Leave, ClientSound, Kept
<1>3. /\ Typed <= Typed' /\ Typed' = cmd /\ Typed \in Nat /\ Pressed <= Pressed' /\ Pressed' = cmd /\ Pressed \in Nat
      /\ cmd' = cmd + 1 /\ step' = "idle" /\ cmd \in Commands /\ cmd \in Nat /\ ~Kept'
      /\ result'[cmd] = how /\ \A c \in Commands : c # cmd => result'[c] = result[c]
  BY <1>1, <1>2, NextCommandIs
<1>4. how # "unprepared"
  BY DEF Ends
<1>5. ClientSound'
  BY <1>2, <1>3, NumbersAre DEF ClientSound, Alive
<1>6. ResultsSound'
  <2>1. how \in {"ok", "failed"} => cmd \in ended /\ (cmd \notin disturbed => ran[cmd] = 1)
    BY <1>1 DEF EndSound, Kept
  <2>2. \A c \in Commands : ran[c] \in Nat
    BY TypesAre DEF ResultTyped
  <2> QED BY <1>2, <1>3, <1>4, <2>1, <2>2, CommandsAre DEF ResultsSound, Told
<1>7. KeysTyped'
  BY <1>2, <1>3, KeysTypedKept
<1>8. PromptSound'
  <2>1. ready = NoText \/ ready <= Typed'
    BY <1>3, NumbersAre DEF PromptSound
  <2>2. \A i \in 1..Len(ctl) : ctl[i][1] = "ready" => ctl[i][2] <= Typed'
    BY <1>3, KeyIs DEF PromptSound
  <2> QED BY <1>2, <1>3, <2>1, <2>2 DEF PromptSound
<1>9. Onward
  BY <1>2, <1>3, <1>4, CommandsAre DEF Onward
<1>10. RunSound' /\ PressSound'
  BY <1>2, <1>9, RunRest, PressKept
<1>11. LineSound' /\ EndSound'
  BY <1>2, <1>3, NumbersAre DEF LineSound, EndSound, ClientSound
<1> QED BY <1>5, <1>6, <1>7, <1>8, <1>10, <1>11

\* What the record says of the end, and what the reader makes of it.
SameEnd(y, z) == z.ended = y.ended /\ z.endSeen = y.endSeen /\ z.endMark = y.endMark
\* No phase of the reader invents an end.
LEMMA AwaitStartEnd ==
    ASSUME NEW y \in Execution
    PROVE  LET z == AwaitStart(y) IN SameEnd(y, z) /\ z.done = y.done /\ z.status = y.status
             /\ (z.phase = "drain" => y.phase = "drain")
  BY DEF AwaitStart, SameEnd, Execution

\* Nor does the text that is captured.
LEMMA AppendCaptureEnd ==
    ASSUME NEW y \in Execution, NEW bytes
    PROVE  LET z == AppendCapture(y, bytes) IN SameEnd(y, z) /\ z.done = y.done /\ z.status = y.status /\ z.phase = y.phase
<1>1. PICK held : held = y.prefix \o bytes
  OBVIOUS
<1>2. PICK o : o = y.out \o held
  OBVIOUS
<1>3. PICK p : p = y.out \o After(held, First(held, <<"echo", cmd>>))
  OBVIOUS
<1> QED BY <1>1, <1>2, <1>3 DEF AppendCapture, SameEnd, Execution

\* Capturing ends by the mark, or goes on to the last prompt.
LEMMA CaptureEnd ==
    ASSUME NEW y \in Execution
    PROVE  LET z == Capture(y) IN SameEnd(y, z) /\ z.done = y.done
             /\ (z.status = y.status \/ z.status = "cancelled" \/ (y.endMark /\ z.status = y.ended))
             /\ (z.phase = "drain" => y.phase = "drain" \/ y.endMark)
<1>1. CASE y.phase # "capture"
  BY <1>1 DEF Capture, SameEnd
<1>2. CASE y.phase = "capture" /\ ~y.endMark
  <2>1. PICK z : z = AppendCapture(y, y.buf)
    OBVIOUS
  <2>2. z \in Execution /\ y.buf \in Seq(Tokens)
    BY <2>1, AppendCaptureTyped, ExecutionsAre
  <2>3. SameEnd(y, z) /\ z.done = y.done /\ z.status = y.status /\ z.phase = y.phase
    BY <2>1, AppendCaptureEnd
  <2>4. Capture(y) = [z EXCEPT !.buf = <<>>]
    BY <1>2, <2>1 DEF Capture
  <2> QED BY <1>2, <2>2, <2>3, <2>4 DEF SameEnd, Execution
<1>3. CASE y.phase = "capture" /\ y.endMark
  <2>1. PICK i : i = First(y.buf, <<"end", y.id>>)
    OBVIOUS
  <2>2. PICK late : late = After(y.buf, i)
    OBVIOUS
  <2>3. PICK o : o = y.out \o BeforePrompt(Before(y.buf, i))
    OBVIOUS
  <2>4. PICK s : s = (IF flagged THEN "cancelled" ELSE y.ended)
    OBVIOUS
  <2>5. Capture(y) = y \/ Capture(y) = [y EXCEPT !.phase = "drain", !.out = o, !.buf = late, !.status = s]
    BY <1>3, <2>1, <2>2, <2>3, <2>4 DEF Capture
  <2>6. LET z == [y EXCEPT !.phase = "drain", !.out = o, !.buf = late, !.status = s]
        IN SameEnd(y, z) /\ z.done = y.done /\ z.status = s
    BY DEF SameEnd, Execution
  <2> QED BY <1>3, <2>4, <2>5, <2>6 DEF SameEnd
<1> QED BY <1>1, <1>2, <1>3

\* The last prompt ends it.
LEMMA DrainEnd ==
    ASSUME NEW y \in Execution
    PROVE  LET z == Drain(y) IN SameEnd(y, z) /\ z.status = y.status /\ z.phase = y.phase
             /\ (z.done => y.done \/ y.phase = "drain")
<1>1. PICK late : late = BeforePrompt(y.buf)
  OBVIOUS
<1>2. PICK text : text = (IF Has(late, <<"echo", cmd>>) THEN After(late, First(late, <<"echo", cmd>>)) ELSE late)
  OBVIOUS
<1>3. PICK o : o = y.out \o text
  OBVIOUS
<1>4. Drain(y) = y \/ (y.phase = "drain" /\ Drain(y) = [y EXCEPT !.out = o, !.buf = <<>>, !.done = TRUE])
  BY <1>1, <1>2, <1>3 DEF Drain
<1>5. LET z == [y EXCEPT !.out = o, !.buf = <<>>, !.done = TRUE]
      IN SameEnd(y, z) /\ z.status = y.status /\ z.phase = y.phase
  BY DEF SameEnd, Execution
<1> QED BY <1>4, <1>5 DEF SameEnd

\* All phases in one reading.
LEMMA BytesEnd ==
    ASSUME x \in Execution, NEW bytes \in Seq(Tokens), ProcessExecutionBytes(bytes), active # 0 => ~x.done, active # 0
    PROVE  /\ SameEnd(x, x') /\ (x'.status = x.status \/ x'.status = "cancelled" \/ (x.endMark /\ x'.status = x.ended))
           /\ x'.phase = "drain" => x.phase = "drain" \/ x.endMark
           /\ x'.done => x.phase = "drain" \/ x.endMark
           /\ active' = 0 \/ (active' = active /\ ~x'.done)
<1>1. PICK b : b = x.buf \o bytes
  OBVIOUS
<1>2. b \in Seq(Tokens)
  BY <1>1, ExecutionsAre
<1>3. PICK s : s = [x EXCEPT !.buf = b]
  OBVIOUS
<1>4. s \in Execution /\ SameEnd(x, s) /\ s.status = x.status /\ s.phase = x.phase /\ s.done = x.done
  BY <1>2, <1>3 DEF SameEnd, Execution
<1>5. PICK t : t = AwaitStart(s)
  OBVIOUS
<1>6. t \in Execution /\ SameEnd(s, t) /\ t.done = s.done /\ t.status = s.status /\ (t.phase = "drain" => s.phase = "drain")
  BY <1>4, <1>5, AwaitStartTyped, AwaitStartEnd
<1>7. PICK u : u = Capture(t)
  OBVIOUS
<1>8. /\ u \in Execution /\ SameEnd(t, u) /\ u.done = t.done
      /\ u.status = t.status \/ u.status = "cancelled" \/ (t.endMark /\ u.status = t.ended)
      /\ u.phase = "drain" => t.phase = "drain" \/ t.endMark
  BY <1>6, <1>7, CaptureTyped, CaptureEnd
<1>9. PICK y : y = Drain(u)
  OBVIOUS
<1>10. y \in Execution /\ SameEnd(u, y) /\ y.status = u.status /\ y.phase = u.phase /\ (y.done => u.done \/ u.phase = "drain")
  BY <1>8, <1>9, DrainTyped, DrainEnd
<1>11. IF y.done THEN Complete(y) ELSE x' = y /\ active' = active
  BY <1>1, <1>3, <1>5, <1>7, <1>9 DEF ProcessExecutionBytes
<1>12. IF y.done THEN x' = [y EXCEPT !.done = TRUE] /\ active' = 0 ELSE x' = y /\ active' = active
  BY <1>11 DEF Complete
<1>13. SameEnd(y, x') /\ x'.status = y.status /\ x'.phase = y.phase /\ x'.done = y.done
  BY <1>10, <1>12 DEF SameEnd, Execution
<1>14. SameEnd(x, x') /\ (x'.status = x.status \/ x'.status = "cancelled" \/ (x.endMark /\ x'.status = x.ended))
  BY <1>4, <1>6, <1>8, <1>10, <1>13 DEF SameEnd
<1> QED BY <1>4, <1>6, <1>8, <1>10, <1>12, <1>13, <1>14 DEF SameEnd

\* The reader has got on with the execution, or it is over.
LEMMA ReceiveKeeps ==
    ASSUME Prompted, NEW n \in 1..Len(pty \o frame), Receive(n) PROVE Common' /\ PowerShellInv'
<1> USE DEF Prompted, Common, PowerShellInv
<1>1. UNCHANGED <<setting, client, executing, flagged, cancel, shell, keys, ctl, session, answers, history>>
  BY DEF Receive
<1>2. ResultsSound' /\ KeysTyped' /\ PromptSound' /\ RunSound' /\ PressSound' /\ LineSound'
  BY <1>1, RecordRest
<1>3. CASE active = 0
  <2>1. UNCHANGED <<active, x>>
    BY <1>3 DEF Receive
  <2>2. ClientSound' /\ EndSound'
    BY <1>1, <2>1, EndRest DEF ClientSound, Kept, Alive
  <2> QED BY <1>2, <2>2
<1>4. CASE active # 0
  <2>1. PICK bytes : bytes = SubSeq(pty \o frame, 1, n)
    OBVIOUS
  <2>2. bytes \in Seq(Tokens)
    BY <2>1, TypesAre DEF WiresTyped
  <2>3. ProcessExecutionBytes(bytes)
    BY <1>4, <2>1 DEF Receive
  <2>4. x \in Execution /\ ~x.done /\ Kept
    BY <1>4, TypesAre DEF RecordTyped, ClientSound
  <2>5. /\ SameEnd(x, x') /\ (x'.status = x.status \/ x'.status = "cancelled" \/ (x.endMark /\ x'.status = x.ended))
        /\ x'.phase = "drain" => x.phase = "drain" \/ x.endMark
        /\ x'.done => x.phase = "drain" \/ x.endMark
        /\ active' = 0 \/ (active' = active /\ ~x'.done)
    BY <1>4, <2>2, <2>3, <2>4, BytesEnd
  <2>6. ClientSound'
    BY <1>1, <2>5 DEF ClientSound, Kept, Alive
  <2>7. EndSound'
    BY <1>1, <1>4, <2>4, <2>5 DEF EndSound, Kept, SameEnd
  <2> QED BY <1>2, <2>6, <2>7
<1> QED BY <1>3, <1>4

\* Something else ends the execution.
LEMMA EndsKeep ==
    ASSUME Prompted, WaitFindsDead \/ WaitTimesOut \/ ReaderFails \/ CompleteCancelled PROVE Common' /\ PowerShellInv'
<1> USE DEF Prompted, Common, PowerShellInv
<1>0. x \in Execution
  BY TypesAre DEF RecordTyped
<1>1. /\ UNCHANGED <<setting, client, executing, flagged, interrupting, cancels, shell, keys, ctl, frame, pty, ready,
                     answers, printed, ran, ended, disturbed, orphaned>>
      /\ canceller' = canceller \/ (canceller' = 0 /\ ~interrupting)
  BY DEF WaitFindsDead, WaitTimesOut, ReaderFails, CompleteCancelled
<1>2. \/ UNCHANGED <<active, x>>
      \/ /\ active' = 0 /\ x'.done /\ SameEnd(x, x') /\ x'.phase = x.phase
         /\ x'.status \in {"error", "cancelled"} \/ (step = "waiting" /\ x.endSeen /\ x'.status = x.ended)
  <2>1. PICK o : o = x.out \o x.buf
    OBVIOUS
  <2>2. PICK s : s = (IF x.status = "cancelled" THEN x.status ELSE x.ended)
    OBVIOUS
  <2>3. \/ UNCHANGED <<active, x>>
        \/ active' = 0 /\ x' = [[x EXCEPT !.status = "error"] EXCEPT !.done = TRUE]
        \/ active' = 0 /\ x' = [[x EXCEPT !.buf = <<>>, !.status = "cancelled"] EXCEPT !.done = TRUE]
        \/ active' = 0 /\ x' = [[x EXCEPT !.out = o, !.buf = <<>>, !.status = s] EXCEPT !.done = TRUE]
             /\ step = "waiting" /\ x.endSeen
    BY <2>1, <2>2 DEF WaitFindsDead, WaitTimesOut, ReaderFails, CompleteCancelled, Complete, Waiting
  <2> QED BY <1>0, <2>2, <2>3 DEF SameEnd, Execution
<1>3. ResultsSound' /\ KeysTyped' /\ PromptSound' /\ RunSound' /\ PressSound'
  <2>1. Onward
    BY <1>1, OnwardRest
  <2> QED BY <1>1, <2>1, ResultsRest, KeysRest, PromptRest, RunRest, PressKept
<1>4. LineSound'
  <2>1. Clean' <=> Clean
    BY <1>1 DEF Clean, Is
  <2>2. Reports' <=> Reports
    BY <1>1 DEF Reports, Is
  <2> QED BY <1>1, <2>1, <2>2, NumbersAre DEF LineSound, Alive
<1>5. ClientSound'
  BY <1>1, <1>2, NumbersAre DEF ClientSound, Kept, Alive
<1>6. EndSound'
  BY <1>1, <1>2 DEF EndSound, Kept, SameEnd
<1> QED BY <1>3, <1>4, <1>5, <1>6

\* PROMPT_READY is handled.
LEMMA PromptReadyKeeps == ASSUME Prompted, HandlePromptReady PROVE Common' /\ PowerShellInv'
<1> USE DEF Prompted, Common, PowerShellInv
<1>1. /\ UNCHANGED <<setting, client, state, cancel, shell, keys, frame, pty, answers, history>>
      /\ ctl # <<>> /\ Head(ctl)[1] = "ready" /\ ready' = Head(ctl)[2] /\ ctl' = Tail(ctl)
  BY DEF HandlePromptReady
<1>2. /\ Len(ctl) \in Nat /\ Len(ctl) > 0 /\ ctl[1][1] = "ready" /\ ready' = ctl[1][2] /\ Len(ctl') = Len(ctl) - 1
      /\ \A i \in 1..Len(ctl') : ctl'[i] = ctl[i + 1] /\ i + 1 \in 1..Len(ctl)
  BY <1>1, KeyIs
<1>3. Onward
  BY <1>1, OnwardRest
<1>4. ResultsSound' /\ KeysTyped' /\ RunSound' /\ PressSound' /\ EndSound'
  BY <1>1, <1>3, ResultsRest, KeysRest, RunRest, PressKept, EndRest
<1>5. Reports' => Reports
  BY <1>1, <1>2 DEF Reports, Is
<1>6. PromptSound'
  <2>1. ready' <= Typed
    BY <1>2 DEF PromptSound
  <2>2. \A i \in 1..Len(ctl') : ctl'[i][1] = "ready" => ctl'[i][2] <= Typed
    BY <1>2 DEF PromptSound
  <2>3. Typed' = Typed /\ (Seen <=> Seen')
    BY <1>1 DEF Typed, Seen, Mine
  <2>4. \A k : Mine(k) <=> k[1] # "run" /\ (k[1] = "text" => k[2] = cmd')
    BY <1>1 DEF Mine
  <2>5. step = "checking" => \A i, j \in 1..Len(keys) : i < j /\ Is(keys[i], "text", cmd) => Mine(keys[j])
    BY DEF PromptSound
  <2>6. (step = "checking" => \A i, j \in 1..Len(keys) : i < j /\ Is(keys[i], "text", cmd) => Mine(keys[j]))'
    BY <1>1, <2>5 DEF Is, Mine
  <2> QED BY <1>1, <1>5, <2>1, <2>2, <2>3, <2>6 DEF PromptSound
<1>7. LineSound'
  <2>1. Clean' <=> Clean
    BY <1>1 DEF Clean, Is
  <2> QED BY <1>1, <1>5, <2>1 DEF LineSound, Alive
<1>8. ClientSound'
  BY <1>1, KeyIs DEF ClientSound, Kept, Alive
<1> QED BY <1>4, <1>6, <1>7, <1>8

\* What a message of the shell about a line changes: the shell is at work, and
\* who waits for it waits for this line.
LEMMA AtWork ==
    ASSUME Prompted, at \notin {"prompt", "dead"}
    PROVE  /\ step \notin {"prepared", "installed"} /\ (step = "waiting" => press = cmd)
           /\ step = "checking" => ~Reports /\ line # cmd
           /\ \A i \in 1..Len(keys) : keys[i][1] # "run"
           /\ press \in Commands /\ Alive /\ (active # 0 => step = "waiting")
<1> USE DEF Prompted, Common, PowerShellInv
<1>1. step \notin {"prepared", "installed"} /\ (step = "waiting" => press = cmd) /\ (step = "checking" => ~Reports /\ line # cmd)
  BY DEF PromptSound, Seen
<1>2. \A i \in 1..Len(keys) : keys[i][1] # "run"
  BY DEF RunSound, Runs, MayRun
<1>3. at \in Under \cup Ran /\ press \in 1..Pressed
  BY NumbersAre DEF PressSound, Under, Ran
<1>4. Pressed <= LastCommand
  BY NumbersAre, CommandsAre DEF Pressed, ClientSound
<1>5. press \in Commands
  BY <1>3, <1>4, NumbersAre, CommandsAre DEF Pressed
<1> QED BY <1>1, <1>2, <1>5 DEF Alive, ClientSound, Kept

\* A step of the shell at work that leaves the keys, the line and the history
\* of runs alone.
LEMMA WorkKeeps ==
    ASSUME Prompted, at \notin {"prompt", "dead"}, at' # "dead",
           UNCHANGED <<setting, client, active, executing, flagged, cancel, line, prog, press, ready, reader, closing,
                       renewed, closes, answers, printed, ran, disturbed, timedOut, orphaned>>,
           x'.done = x.done,
           Len(keys') \in Nat, \A i \in 1..Len(keys') : \E a \in 1..Len(keys) : keys'[i] = keys[a],
           \A i, j \in 1..Len(keys') : i < j => \E a, b \in 1..Len(keys) : a < b /\ keys'[i] = keys[a] /\ keys'[j] = keys[b],
           \A i \in 1..Len(ctl') : ctl'[i][1] # "ready" \/ \E a \in 1..Len(ctl) : ctl'[i] = ctl[a],
           ended \subseteq ended', at' \in Under => at \in Under, at' \in Ran => at \in Ran,
           at' \in Ran \ {"running"} => at # "running" \/ press \in ended'
    PROVE  ClientSound' /\ ResultsSound' /\ KeysTyped' /\ PromptSound' /\ RunSound' /\ PressSound' /\ LineSound'
<1> USE DEF Prompted, Common, PowerShellInv
<1>1. /\ step \notin {"prepared", "installed"} /\ (step = "waiting" => press = cmd)
      /\ step = "checking" => ~Reports /\ line # cmd
      /\ \A i \in 1..Len(keys) : keys[i][1] # "run"
      /\ press \in Commands /\ Alive /\ (active # 0 => step = "waiting")
  BY AtWork
<1>2. Typed' = Typed /\ Pressed' = Pressed /\ Typed \in Nat /\ Pressed \in Nat
  BY NumbersAre DEF Typed, Pressed
<1>3. ClientSound'
  BY <1>1 DEF ClientSound, Kept, Alive
<1>4. ResultsSound'
  BY ResultsRest
<1>5. KeysTyped'
  BY <1>2, KeysTypedKept
<1>6. RunSound'
  BY <1>1 DEF RunSound, Runs
<1>7. PressSound'
  BY <1>1, <1>2 DEF PressSound
<1>8. Reports' => Reports
  BY DEF Reports, Is
<1>9. PromptSound'
  <2>1. \A i \in 1..Len(ctl') : ctl'[i][1] = "ready" => ctl'[i][2] <= Typed'
    BY <1>2 DEF PromptSound
  <2>2. (step = "checking" => \A i, j \in 1..Len(keys) : i < j /\ Is(keys[i], "text", cmd) => Mine(keys[j]))'
    <3> SUFFICES ASSUME step = "checking", NEW i \in 1..Len(keys'), NEW j \in 1..Len(keys'), i < j, Is(keys'[i], "text", cmd)
                 PROVE  keys'[j][1] # "run" /\ (keys'[j][1] = "text" => keys'[j][2] = cmd)
      BY DEF Is, Mine
    <3>1. PICK a \in 1..Len(keys), b \in 1..Len(keys) : a < b /\ keys'[i] = keys[a] /\ keys'[j] = keys[b]
      OBVIOUS
    <3>2. Mine(keys[b])
      BY <3>1 DEF PromptSound, Is
    <3> QED BY <3>1, <3>2 DEF Mine
  <2> QED BY <1>1, <1>2, <1>8, <2>1, <2>2 DEF PromptSound
<1>10. LineSound'
  <2>1. ASSUME Clean PROVE Clean'
    <3> SUFFICES ASSUME NEW i \in 1..Len(keys'), keys'[i][1] \in Erases
                 PROVE  line # cmd /\ \A j \in 1..i - 1 : ~Is(keys'[j], "text", cmd)
      BY DEF Clean, Is
    <3>1. line # cmd
      BY <2>1 DEF Clean
    <3>2. ASSUME NEW j \in 1..i - 1 PROVE ~Is(keys'[j], "text", cmd)
      <4>1. j \in 1..Len(keys') /\ j < i
        OBVIOUS
      <4>2. PICK a \in 1..Len(keys), b \in 1..Len(keys) : a < b /\ keys'[j] = keys[a] /\ keys'[i] = keys[b]
        BY <4>1
      <4>3. a \in 1..b - 1
        BY <4>2, KeyIs
      <4> QED BY <2>1, <4>2, <4>3 DEF Clean
    <3> QED BY <3>1, <3>2
  <2> QED BY <1>1, <1>8, <2>1 DEF LineSound, Alive
<1> QED BY <1>3, <1>4, <1>5, <1>6, <1>7, <1>9, <1>10

\* A step that leaves the keys alone.
LEMMA SameKeys ==
    ASSUME TypeOK, UNCHANGED keys
    PROVE  /\ Len(keys') \in Nat /\ \A i \in 1..Len(keys') : \E a \in 1..Len(keys) : keys'[i] = keys[a]
           /\ \A i, j \in 1..Len(keys') : i < j => \E a, b \in 1..Len(keys) : a < b /\ keys'[i] = keys[a] /\ keys'[j] = keys[b]
  BY KeyIs

\* The messages of the control pipe are handled.
LEMMA HandleKeeps ==
    ASSUME Prompted, HandleBegin \/ HandleBeginFence \/ HandleEnd \/ HandleEndFence PROVE Common' /\ PowerShellInv'
<1> USE DEF Prompted, Common, PowerShellInv, HandleBegin, HandleBeginFence, HandleEnd, HandleEndFence, Refused
<1>1. at \in {"beginning", "fencing", "ending", "closingfence"} /\ UNCHANGED keys
  OBVIOUS
<1>2. /\ step \notin {"prepared", "installed"} /\ (step = "waiting" => press = cmd)
      /\ press \in Commands /\ Alive /\ (active # 0 => step = "waiting")
  BY <1>1, AtWork
<1>3. \A i \in 1..Len(ctl') : ctl'[i][1] # "ready" \/ \E a \in 1..Len(ctl) : ctl'[i] = ctl[a]
  <2>1. CASE ctl' = ctl
    BY <2>1, KeyIs
  <2>2. CASE ctl # <<>> /\ ctl' = Tail(ctl)
    <3>1. \A i \in 1..Len(ctl') : i + 1 \in 1..Len(ctl) /\ ctl'[i] = ctl[i + 1]
      BY <2>2, KeyIs
    <3> QED BY <3>1
  <2> QED BY <2>1, <2>2
<1>4. x \in Execution
  BY TypesAre DEF RecordTyped
<1>5. /\ x'.done = x.done /\ x'.status = x.status /\ x'.phase = x.phase
      /\ \/ SameEnd(x, x')
         \/ /\ active # 0 /\ x'.ended \in {"ok", "failed"} /\ x'.endSeen /\ x'.endMark = x.endMark /\ at = "ending"
         \/ /\ active # 0 /\ x'.ended = x.ended /\ x'.endSeen = x.endSeen /\ at = "closingfence"
  <2>1. \/ x' = x \/ x' = [x EXCEPT !.id = press] \/ x' = [x EXCEPT !.startMark = TRUE]
        \/ active # 0 /\ at = "ending" /\ \E how \in {"ok", "failed"} : x' = [x EXCEPT !.endSeen = TRUE, !.ended = how]
        \/ active # 0 /\ at = "closingfence" /\ x' = [x EXCEPT !.endMark = TRUE]
    OBVIOUS
  <2> QED BY <1>4, <2>1 DEF SameEnd, Execution
<1>6. /\ at' \in {"prompt", "fencing", "accepting", "closingfence", "prompting"}
      /\ at' \in Under => at \in Under
      /\ at' \in Ran => at \in Ran /\ at # "running"
      /\ at' \in {"closingfence", "prompting"} => at = "closingfence" \/ x'.ended \in {"ok", "failed"}
  <2>1. CASE HandleBegin \/ HandleBeginFence
    BY <2>1 DEF Under, Ran
  <2>2. CASE HandleEnd
    BY <1>4, <2>2 DEF Under, Ran, Execution
  <2>3. CASE HandleEndFence
    BY <2>3 DEF Under, Ran
  <2> QED BY <2>1, <2>2, <2>3
<1>7. ClientSound' /\ ResultsSound' /\ KeysTyped' /\ PromptSound' /\ RunSound' /\ PressSound' /\ LineSound'
  BY <1>1, <1>3, <1>5, <1>6, SameKeys, WorkKeeps
<1>8. EndSound'
  <2>1. at \in {"ending", "closingfence"} => press \in ended /\ (press \notin disturbed => ran[press] = 1)
    BY DEF PressSound, Ran
  <2>2. UNCHANGED <<step, cmd, ended, disturbed, ran, active>>
    OBVIOUS
  <2> QED BY <1>2, <1>5, <1>6, <2>1, <2>2 DEF EndSound, Kept, SameEnd
<1> QED BY <1>7, <1>8

\* A shell at work does not report its line.
LEMMA NotReady ==
    ASSUME TypeOK, NEW how \in {"ok", "failed"}, NEW c, ctl' = Append(ctl, <<how, c>>)
    PROVE  \A i \in 1..Len(ctl') : ctl'[i][1] # "ready" \/ \E a \in 1..Len(ctl) : ctl'[i] = ctl[a]
<1>1. /\ Len(ctl') = Len(ctl) + 1 /\ Len(ctl) \in Nat /\ ctl'[Len(ctl) + 1] = <<how, c>>
      /\ \A i \in 1..Len(ctl) : ctl'[i] = ctl[i]
  BY KeyIs
<1> QED BY <1>1

\* Ctrl+C that the shell sees drops keys, and may end what runs.
LEMMA SignalDrops ==
    ASSUME TypeOK, NEW i \in 1..Len(keys), keys' = Before(keys, i) \o After(keys, i)
    PROVE  /\ Len(keys') \in Nat /\ \A j \in 1..Len(keys') : \E a \in 1..Len(keys) : keys'[j] = keys[a]
           /\ \A j, k \in 1..Len(keys') : j < k => \E a, b \in 1..Len(keys) : a < b /\ keys'[j] = keys[a] /\ keys'[k] = keys[b]
<1>1. keys \in Seq(Keys) /\ Len(keys) \in Nat
  BY KeyIs
<1>2. PICK s : s = Before(keys, i)
  OBVIOUS
<1>3. PICK t : t = After(keys, i)
  OBVIOUS
<1>4. s \in Seq(Keys) /\ Len(s) = i - 1 /\ \A j \in 1..i - 1 : s[j] = keys[j]
  <2>1. \A j \in 1..i - 1 : keys[j] \in Keys
    BY <1>1
  <2> QED BY <1>1, <1>2, <2>1, SubSeqProperties DEF Before
<1>5. t \in Seq(Keys) /\ Len(t) = Len(keys) - i /\ \A j \in 1..Len(keys) - i : t[j] = keys[i + j]
  <2>1. \A j \in i + 1..Len(keys) : keys[j] \in Keys
    BY <1>1
  <2> QED BY <1>1, <1>3, <2>1, SubSeqProperties DEF After
<1>6. keys' = s \o t
  BY <1>2, <1>3
<1>7. Len(keys') = Len(keys) - 1
  BY <1>1, <1>4, <1>5, <1>6
<1>8. ASSUME NEW j \in 1..Len(keys')
      PROVE  \E a \in 1..Len(keys) : keys'[j] = keys[a] /\ ((a = j /\ j < i) \/ (a = j + 1 /\ i <= j))
  <2>1. CASE j < i
    <3>1. j \in 1..Len(keys) /\ keys'[j] = keys[j]
      BY <1>1, <1>4, <1>5, <1>6, <2>1
    <3> QED BY <2>1, <3>1
  <2>2. CASE i <= j
    <3>1. j - (i - 1) \in 1..Len(t) /\ i + (j - (i - 1)) = j + 1 /\ j + 1 \in 1..Len(keys)
      BY <1>1, <1>5, <1>7, <2>2
    <3>2. keys'[j] = t[j - (i - 1)]
      BY <1>1, <1>4, <1>5, <1>6, <1>7, <2>2
    <3> QED BY <1>5, <2>2, <3>1, <3>2
  <2> QED BY <1>1, <1>7, <2>1, <2>2
<1>9. ASSUME NEW j \in 1..Len(keys'), NEW k \in 1..Len(keys'), j < k
      PROVE  \E a, b \in 1..Len(keys) : a < b /\ keys'[j] = keys[a] /\ keys'[k] = keys[b]
  <2>1. PICK a \in 1..Len(keys) : keys'[j] = keys[a] /\ ((a = j /\ j < i) \/ (a = j + 1 /\ i <= j))
    BY <1>8
  <2>2. PICK b \in 1..Len(keys) : keys'[k] = keys[b] /\ ((b = k /\ k < i) \/ (b = k + 1 /\ i <= k))
    BY <1>8
  <2>3. a < b
    BY <1>1, <1>7, <1>9, <2>1, <2>2
  <2> QED BY <2>1, <2>2, <2>3
<1>10. \A j \in 1..Len(keys') : \E a \in 1..Len(keys) : keys'[j] = keys[a]
  BY <1>8
<1>11. Len(keys') \in Nat
  BY <1>1, <1>7
<1> QED BY <1>9, <1>10, <1>11

\* The steps of the shell around a line.
LEMMA ShellWorks ==
    ASSUME Prompted, DrawPrompt \/ Signal \/ \E how \in {"ok", "failed"} : LineEnds(how)
    PROVE  Common' /\ PowerShellInv'
<1> USE DEF Prompted, Common, PowerShellInv
<1>1. at \in {"running", "prompting"}
  BY DEF DrawPrompt, Signal, LineEnds
<1>2. /\ Len(keys') \in Nat /\ \A i \in 1..Len(keys') : \E a \in 1..Len(keys) : keys'[i] = keys[a]
      /\ \A i, j \in 1..Len(keys') : i < j => \E a, b \in 1..Len(keys) : a < b /\ keys'[i] = keys[a] /\ keys'[j] = keys[b]
  <2>1. keys' = keys \/ \E i \in 1..Len(keys) : keys' = Before(keys, i) \o After(keys, i)
    <3>1. DOMAIN keys = 1..Len(keys)
      BY KeyIs
    <3>2. CASE Signal
      <4>1. PICK i \in DOMAIN keys : keys' = Before(keys, i) \o After(keys, i)
        BY <3>2 DEF Signal
      <4> QED BY <3>1, <4>1
    <3>3. CASE ~Signal
      BY <3>3 DEF DrawPrompt, LineEnds
    <3> QED BY <3>2, <3>3
  <2> QED BY <2>1, SameKeys, SignalDrops
<1>3. /\ UNCHANGED <<setting, client, active, x, executing, flagged, cancel, line, prog, press, ready, reader, closing,
                     renewed, closes, answers, printed, ran, disturbed, timedOut, orphaned>>
      /\ \/ at' \in {at, "prompt"} /\ UNCHANGED <<ctl, ended>>
         \/ /\ at = "running" /\ at' = "ending" /\ ended' = ended \cup {press}
            /\ \E how \in {"ok", "failed"} : ctl' = Append(ctl, <<how, press>>)
  BY DEF DrawPrompt, Signal, LineEnds
<1>4. \A i \in 1..Len(ctl') : ctl'[i][1] # "ready" \/ \E a \in 1..Len(ctl) : ctl'[i] = ctl[a]
  BY <1>3, NotReady, KeyIs
<1>5. ClientSound' /\ ResultsSound' /\ KeysTyped' /\ PromptSound' /\ RunSound' /\ PressSound' /\ LineSound'
  <2>1. at \notin {"prompt", "dead"} /\ at' # "dead" /\ x'.done = x.done
    BY <1>1, <1>3
  <2>2. /\ ended \subseteq ended' /\ (at' \in Under => at \in Under) /\ (at' \in Ran => at \in Ran)
        /\ at' \in Ran \ {"running"} => at # "running" \/ press \in ended'
    BY <1>1, <1>3 DEF Under, Ran
  <2> QED BY <1>2, <1>3, <1>4, <2>1, <2>2, WorkKeeps
<1>6. EndSound'
  <2>1. ended \subseteq ended' /\ (at' = at \/ at' \notin {"closingfence", "prompting"})
    BY <1>3
  <2> QED BY <1>3, <2>1, EndRest
<1> QED BY <1>5, <1>6

\* The program writes.
LEMMA WritesKeep == ASSUME Prompted, WritePiece PROVE Common' /\ PowerShellInv'
<1> USE DEF Prompted, Common, PowerShellInv, WritePiece
<1>1. ResultsSound' /\ KeysTyped' /\ PromptSound' /\ RunSound' /\ PressSound' /\ LineSound'
  BY RecordRest
<1>2. ClientSound' /\ EndSound'
  BY EndRest DEF ClientSound, Kept, Alive
<1> QED BY <1>1, <1>2

\* The line runs, and it is that of the command that F12 was pressed for.
LEMMA AcceptKeeps ==
    ASSUME Prompted, NEW drawn, AcceptLine(drawn) PROVE Common' /\ PowerShellInv'
<1> USE DEF Prompted, Common, PowerShellInv
<1>1. /\ at = "accepting" /\ at' = "running" /\ line' = 0
      /\ ran' = IF line = 0 THEN ran ELSE [ran EXCEPT ![line] = @ + 1]
      /\ UNCHANGED <<setting, client, state, cancel, press, keys, ctl, session, answers,
                     printed, ended, disturbed, timedOut, orphaned>>
  BY DEF AcceptLine, Run
<1>2. /\ step \notin {"prepared", "installed"} /\ (step = "waiting" => press = cmd)
      /\ step = "checking" => ~Reports /\ line # cmd
      /\ \A i \in 1..Len(keys) : keys[i][1] # "run"
      /\ press \in Commands /\ Alive /\ (active # 0 => step = "waiting")
  BY <1>1, AtWork
<1>3. Typed' = Typed /\ Pressed' = Pressed /\ Typed \in Nat /\ Pressed \in Nat
  BY <1>1, NumbersAre DEF Typed, Pressed
<1>4. /\ press \in 1..Pressed /\ result[press] # "unprepared" /\ line \in {0, press} /\ ran[press] = 0
      /\ press \notin disturbed => line = press
  BY <1>1 DEF PressSound, Under
<1>5. /\ ran' = ran \/ ran' = [ran EXCEPT ![press] = 1]
      /\ press \notin disturbed => ran'[press] = 1
      /\ \A c \in Commands : ran[c] \in Nat /\ (ran'[c] = ran[c] \/ (c = press /\ ran'[c] = 1))
  <2>1. ran \in [Commands -> Nat] /\ press # 0
    BY <1>2, TypesAre, CommandsAre DEF ResultTyped
  <2>2. CASE line = 0
    BY <1>1, <1>2, <1>4, <2>1, <2>2
  <2>3. CASE line = press
    <3>1. ran[press] + 1 = 1 /\ line # 0
      BY <1>4, <2>1, <2>3
    <3>2. ran' = [ran EXCEPT ![press] = ran[press] + 1]
      BY <1>1, <2>3, <3>1
    <3>3. ran' = [ran EXCEPT ![press] = 1]
      BY <3>1, <3>2
    <3> QED BY <1>2, <2>1, <3>3
  <2> QED BY <1>4, <2>2, <2>3
<1>6. ResultsSound'
  BY <1>1, <1>3, <1>4, <1>5 DEF ResultsSound, Told
<1>7. KeysTyped'
  BY <1>1, <1>3, KeysTypedKept, KeyIs
<1>8. ClientSound'
  BY <1>1 DEF ClientSound, Kept, Alive
<1>9. RunSound'
  BY <1>1, <1>2 DEF RunSound, Runs
<1>10. PressSound'
  BY <1>1, <1>3, <1>4, <1>5 DEF PressSound, Under, Ran
<1>11. Reports' => Reports
  BY <1>1 DEF Reports, Is
<1>12. PromptSound'
  <2>1. cmd # 0
    BY NumbersAre
  <2>2. (step = "checking" => \A i, j \in 1..Len(keys) : i < j /\ Is(keys[i], "text", cmd) => Mine(keys[j]))'
    BY <1>1 DEF PromptSound, Is, Mine
  <2> QED BY <1>1, <1>2, <1>3, <1>11, <2>1, <2>2 DEF PromptSound
<1>13. LineSound'
  <2>1. Clean => Clean'
    BY <1>1, NumbersAre DEF Clean, Is
  <2> QED BY <1>1, <1>2, <1>11, <2>1 DEF LineSound, Alive
<1>14. EndSound'
  <2>1. x.ended # "none" /\ Kept => cmd \in ended /\ (cmd \notin disturbed => ran'[cmd] = 1)
    BY <1>2, <1>4, <1>5 DEF EndSound
  <2> QED BY <1>1, <2>1 DEF EndSound, Kept
<1> QED BY <1>6, <1>7, <1>8, <1>9, <1>10, <1>12, <1>13, <1>14

\* The editor reads a key.
LEMMA ReadKeyKeeps == ASSUME Prompted, ReadKey PROVE Common' /\ PowerShellInv'
<1> USE DEF Prompted, Common, PowerShellInv
<1>0. PICK key : key = keys[1]
  OBVIOUS
<1>1. /\ at = "prompt" /\ keys # <<>> /\ keys' = Tail(keys) /\ Head(keys) = key
      /\ ctl' = CASE key[1] = "sync" -> Append(ctl, <<"ready", line>>)
                  [] key[1] = "run"  -> Append(ctl, <<"begin", key[2]>>)
                  [] OTHER -> ctl
      /\ at' = IF key[1] = "run" THEN "beginning" ELSE at
      /\ press' = IF key[1] = "run" THEN key[2] ELSE press
      /\ line' = CASE key[1] \in {"clear", "^C"} -> 0
                   [] key[1] = "text" -> key[2]
                   [] OTHER -> line
      /\ UNCHANGED <<setting, client, state, cancel, prog, session, answers, history>>
  <2>1. key = Head(keys)
    BY <1>0
  <2> QED BY <2>1 DEF ReadKey
<1>2. /\ Len(keys) \in Nat /\ Len(keys) > 0 /\ key \in Keys /\ 1 \in 1..Len(keys)
      /\ Len(keys') \in Nat /\ Len(keys') = Len(keys) - 1
      /\ \A i \in 1..Len(keys') : keys'[i] = keys[i + 1] /\ i + 1 \in 1..Len(keys)
      /\ key[2] \in 0..LastCommand /\ key[1] \in {"sync", "clear", "text", "run", "arm", "enter", "^C"}
  BY <1>0, <1>1, KeyIs
<1>3. /\ \A i \in 1..Len(ctl') : \/ i \in 1..Len(ctl) /\ ctl'[i] = ctl[i]
                                 \/ ctl'[i] = <<"ready", line>> /\ key[1] = "sync"
                                 \/ ctl'[i][1] = "begin"
  <2>1. Len(ctl) \in Nat
    BY KeyIs
  <2>2. \A m : ctl' = Append(ctl, m) => \A i \in 1..Len(ctl') : (i \in 1..Len(ctl) /\ ctl'[i] = ctl[i]) \/ ctl'[i] = m
    BY KeyIs
  <2> QED BY <1>1, <2>1, <2>2
<1>4. Typed' = Typed /\ Pressed' = Pressed /\ Typed \in Nat /\ Pressed \in Nat
  BY <1>1, NumbersAre DEF Typed, Pressed
<1>5. key[1] = "text" => key[2] \in 1..Typed
  BY <1>0, <1>2 DEF KeysTyped
<1>6. key[1] = "run" => MayRun(key[2])
  BY <1>0, <1>2 DEF RunSound, Runs
<1>7. ClientSound'
  BY <1>1 DEF ClientSound, Kept, Alive
<1>8. ResultsSound'
  BY <1>1, ResultsRest
<1>9. KeysTyped'
  BY <1>1, <1>2, <1>4, <1>5, KeysTypedKept
<1>10. EndSound'
  BY <1>1, EndRest
<1>11. ASSUME Seen PROVE Seen'
  <2>1. key[1] # "run" /\ (key[1] = "text" => key[2] = cmd)
    BY <1>0, <1>2, <1>11 DEF Seen, Mine
  <2>2. line' \in {0, cmd} /\ at' = "prompt"
    BY <1>1, <1>2, <1>11, <2>1 DEF Seen
  <2>3. \A i \in 1..Len(keys') : keys'[i][1] # "run" /\ (keys'[i][1] = "text" => keys'[i][2] = cmd)
    BY <1>2, <1>11 DEF Seen, Mine
  <2> QED BY <1>1, <2>2, <2>3 DEF Seen, Mine
<1>12. Reports' => Reports \/ (key[1] = "sync" /\ line = cmd)
  BY <1>1, <1>3 DEF Reports, Is
<1>13. cmd # 0 /\ line' = cmd => line = cmd \/ (key[1] = "text" /\ key[2] = cmd)
  BY <1>1
<1>14. ASSUME step = "checking", key[1] = "text", key[2] = cmd PROVE Seen'
  <2>1. \A i \in 1..Len(keys') : Mine(keys[i + 1])
    <3> SUFFICES ASSUME NEW i \in 1..Len(keys') PROVE Mine(keys[i + 1])
      OBVIOUS
    <3>1. i + 1 \in 1..Len(keys) /\ 1 < i + 1 /\ Is(keys[1], "text", cmd)
      BY <1>0, <1>2, <1>14 DEF Is
    <3> QED BY <1>2, <1>14, <3>1 DEF PromptSound
  <2>2. line' = cmd /\ at' = "prompt"
    BY <1>1, <1>14
  <2> QED BY <1>1, <1>2, <2>1, <2>2 DEF Seen, Mine
<1>15. PromptSound'
  <2>1. \A i \in 1..Len(ctl') : ctl'[i][1] = "ready" => ctl'[i][2] <= Typed'
    BY <1>3, <1>4 DEF PromptSound, KeysTyped
  <2>2. ASSUME step = "checking" PROVE \A i, j \in 1..Len(keys') : i < j /\ Is(keys'[i], "text", cmd) => Mine(keys'[j])
    <3> SUFFICES ASSUME NEW i \in 1..Len(keys'), NEW j \in 1..Len(keys'), i < j, Is(keys'[i], "text", cmd) PROVE Mine(keys'[j])
      OBVIOUS
    <3>1. i + 1 < j + 1 /\ keys'[i] = keys[i + 1] /\ keys'[j] = keys[j + 1] /\ i + 1 \in 1..Len(keys) /\ j + 1 \in 1..Len(keys)
      BY <1>2
    <3> QED BY <2>2, <3>1 DEF PromptSound
  <2>3. (step = "checking" => \A i, j \in 1..Len(keys) : i < j /\ Is(keys[i], "text", cmd) => Mine(keys[j]))'
    BY <1>1, <2>2 DEF Is, Mine
  <2>4. step = "waiting" /\ at' \notin {"prompt", "dead"} => press' = cmd
    BY <1>1, <1>6 DEF MayRun
  <2>5. ASSUME step = "checking", Reports' \/ line' = cmd PROVE Seen'
    <3>1. cmd # 0
      BY NumbersAre
    <3> QED BY <1>11, <1>12, <1>13, <1>14, <2>5, <3>1 DEF PromptSound
  <2> QED BY <1>1, <1>4, <1>11, <2>1, <2>3, <2>4, <2>5 DEF PromptSound
<1>16. RunSound'
  <2>1. ASSUME NEW i \in 1..Len(keys'), keys'[i][1] = "run"
        PROVE  \E c : c = keys'[i][2] /\ MayRun(c)' /\ \A j \in 1..i - 1 : \E m : m = keys'[j] /\ BeforeRun(m, c)'
    <3>1. PICK c : c = keys'[i][2]
      OBVIOUS
    <3>2. i + 1 \in 1..Len(keys) /\ keys'[i] = keys[i + 1]
      BY <1>2
    <3>7. 1 \in 1..(i + 1) - 1
      OBVIOUS
    <3>3. MayRun(c) /\ \A j \in 1..(i + 1) - 1 : BeforeRun(keys[j], c)
      BY <2>1, <3>1, <3>2 DEF RunSound, Runs
    <3>4. BeforeRun(key, c)
      BY <1>0, <3>3, <3>7
    <3>5. MayRun(c)'
      BY <1>1, <1>2, <1>4, <3>3, <3>4 DEF MayRun, BeforeRun, Erases
    <3>6. ASSUME NEW j \in 1..i - 1 PROVE \E m : m = keys'[j] /\ BeforeRun(m, c)'
      <4>1. j \in 1..Len(keys') /\ j + 1 \in 1..(i + 1) - 1 /\ keys'[j] = keys[j + 1]
        BY <1>2
      <4>2. PICK m : m = keys'[j]
        OBVIOUS
      <4>3. BeforeRun(m, c)
        BY <3>3, <4>1, <4>2
      <4> QED BY <1>1, <4>2, <4>3 DEF BeforeRun
    <3> QED BY <3>1, <3>5, <3>6
  <2> QED BY <2>1 DEF RunSound, Runs, MayRun, BeforeRun
<1>17. PressSound'
  <2>1. CASE key[1] = "run"
    <3>1. at' = "beginning" /\ press' = key[2] /\ line' = line /\ MayRun(key[2])
      BY <1>1, <1>6, <2>1
    <3> QED BY <1>1, <1>4, <3>1 DEF PressSound, MayRun, Under, Ran
  <2>2. CASE key[1] # "run"
    BY <1>1, <2>2 DEF PressSound, Under, Ran
  <2> QED BY <2>1, <2>2
<1>18. LineSound'
  <2>0. cmd # 0
    BY NumbersAre
  <2>1. ASSUME Clean PROVE Clean' /\ (line = cmd => key[1] \notin Erases)
    <3>1. line = cmd => key[1] \notin Erases
      BY <1>0, <1>2, <2>1 DEF Clean
    <3>2. ASSUME NEW j \in 1..Len(keys'), keys'[j][1] \in Erases
          PROVE  line' # cmd /\ \A i \in 1..j - 1 : ~Is(keys'[i], "text", cmd)
      <4>1. j + 1 \in 1..Len(keys) /\ keys[j + 1][1] \in Erases /\ 1 \in 1..(j + 1) - 1
        BY <1>2, <3>2
      <4>2. line # cmd /\ \A i \in 1..(j + 1) - 1 : ~Is(keys[i], "text", cmd)
        BY <2>1, <4>1 DEF Clean
      <4>3. ~Is(key, "text", cmd)
        BY <1>0, <4>1, <4>2
      <4>4. line' # cmd
        BY <1>1, <1>13, <2>0, <4>2, <4>3 DEF Is
      <4>5. \A i \in 1..j - 1 : i + 1 \in 1..(j + 1) - 1 /\ i \in 1..Len(keys')
        BY <1>2
      <4> QED BY <1>2, <4>2, <4>4, <4>5
    <3> QED BY <1>1, <3>1, <3>2 DEF Clean
  <2>2. Alive' /\ Alive
    BY <1>1 DEF Alive
  <2>3. ASSUME cmd \notin disturbed, ~flagged, step \in {"prepared", "installed"} \/ (step = "checking" /\ Reports)
        PROVE  line' = cmd
    <3>1. Seen /\ Clean /\ line = cmd
      BY <2>2, <2>3 DEF PromptSound, LineSound
    <3>2. key[1] \notin Erases /\ (key[1] = "text" => key[2] = cmd)
      BY <1>0, <1>2, <2>1, <3>1 DEF Seen, Mine
    <3> QED BY <1>1, <3>1, <3>2 DEF Erases
  <2>4. ASSUME key[1] = "sync", line = cmd PROVE line' = cmd
    BY <1>1, <2>4
  <2> QED BY <1>1, <1>12, <2>1, <2>2, <2>3, <2>4 DEF LineSound
<1> QED BY <1>7, <1>8, <1>9, <1>10, <1>15, <1>16, <1>17, <1>18

\* cancel_current sets the flag.
LEMMA FlagKeeps == ASSUME Prompted, Flag PROVE Common' /\ PowerShellInv'
<1> USE DEF Prompted, Common, PowerShellInv, Flag
<1>1. Onward
  BY OnwardRest
<1>2. ResultsSound' /\ KeysTyped' /\ PromptSound' /\ RunSound' /\ PressSound' /\ EndSound'
  BY <1>1, ResultsRest, KeysRest, PromptRest, RunRest, PressKept, EndRest
<1>3. ClientSound'
  BY NumbersAre DEF ClientSound, Kept, Alive
<1>4. LineSound'
  BY DEF LineSound
<1> QED BY <1>2, <1>3, <1>4

\* Ctrl+C may come late: then it disturbs the next command.
LEMMA InterruptKeeps == ASSUME Prompted, Interrupt PROVE Common' /\ PowerShellInv'
<1> USE DEF Prompted, Common, PowerShellInv, Interrupt, SendInterrupt
<1>1. OneMore(<<"^C", canceller>>)
  BY OneSent
<1>2. /\ Longer /\ Len(keys') \in Nat
      /\ \A i \in 1..Len(keys') : \/ i \in 1..Len(keys) /\ keys'[i] = keys[i]
                                  \/ i = Len(keys) + 1 /\ keys'[i][1] = "^C"
  BY <1>1, KeyIs DEF OneMore, Longer
<1>3. Typed' = Typed /\ Pressed' = Pressed /\ Typed \in Nat /\ Pressed \in Nat
  BY NumbersAre DEF Typed, Pressed
<1>4. Onward
  BY OnwardRest
<1>5. ResultsSound' /\ EndSound'
  BY ResultsRest, EndRest
<1>6. KeysTyped'
  <2>1. \A i \in 1..Len(keys') : (\E j \in 1..Len(keys) : keys'[i] = keys[j]) \/ keys'[i][1] # "text"
    BY <1>2
  <2> QED BY <1>3, <2>1, KeysTypedKept
<1>7. RunSound' /\ PressSound'
  <2>1. \A i \in 1..Len(keys') : i \in 1..Len(keys) \/ keys'[i][1] # "run"
    BY <1>2
  <2> QED BY <1>2, <1>4, <2>1, RunKept, PressKept
<1>8. ClientSound'
  BY DEF ClientSound, Kept, Alive
<1>9. PromptSound'
  <2>1. Seen => Seen'
    <3>1. ASSUME Seen, NEW i \in 1..Len(keys') PROVE keys'[i][1] # "run" /\ (keys'[i][1] = "text" => keys'[i][2] = cmd)
      BY <1>2, <3>1 DEF Seen, Mine
    <3> QED BY <3>1 DEF Seen, Mine
  <2>2. Reports' => Reports
    BY DEF Reports, Is
  <2>3. ASSUME step = "checking", NEW i \in 1..Len(keys'), NEW j \in 1..Len(keys'), i < j, Is(keys'[i], "text", cmd)
        PROVE  Mine(keys'[j])
    <3>1. CASE j \in 1..Len(keys)
      <4>1. i \in 1..Len(keys)
        BY <2>3, <3>1, KeyIs
      <4> QED BY <1>2, <2>3, <3>1, <4>1 DEF PromptSound, Longer
    <3>2. CASE j \notin 1..Len(keys)
      BY <1>2, <3>2 DEF Mine
    <3> QED BY <3>1, <3>2
  <2>4. (step = "checking" => \A i, j \in 1..Len(keys) : i < j /\ Is(keys[i], "text", cmd) => Mine(keys[j]))'
    BY <2>3 DEF Is, Mine
  <2> QED BY <1>3, <2>1, <2>2, <2>4 DEF PromptSound
<1>10. LineSound'
  <2>1. CASE step = "idle" \/ cmd = canceller
    BY <2>1 DEF LineSound
  <2>2. CASE ~(step = "idle" \/ cmd = canceller)
    BY <2>2 DEF LineSound
  <2> QED BY <2>1, <2>2
<1> QED BY <1>5, <1>6, <1>7, <1>8, <1>9, <1>10

\* Its Ctrl+C may fail.
LEMMA InterruptRaisesKeeps == ASSUME Prompted, InterruptRaises PROVE Common' /\ PowerShellInv'
<1> USE DEF Prompted, Common, PowerShellInv, InterruptRaises
<1>1. Onward
  BY OnwardRest
<1>2. ResultsSound' /\ KeysTyped' /\ PromptSound' /\ RunSound' /\ PressSound' /\ EndSound'
  BY <1>1, ResultsRest, KeysRest, PromptRest, RunRest, PressKept, EndRest
<1>3. ClientSound'
  BY NumbersAre DEF ClientSound, Kept, Alive
<1>4. LineSound'
  BY NumbersAre DEF LineSound, Alive
<1> QED BY <1>2, <1>3, <1>4

\* Nothing is typed into a shell that is gone, or into one that has just begun.
LEMMA EmptySound ==
    ASSUME Prompted, keys' = <<>>, ctl' = <<>>, at' \in {"prompt", "dead"}, line' \in {0, line},
           UNCHANGED <<setting, step, cmd, ready, ran, result, ended>>, disturbed \subseteq disturbed'
    PROVE  ResultsSound' /\ KeysTyped' /\ PromptSound' /\ RunSound' /\ PressSound'
<1> USE DEF Prompted, Common, PowerShellInv
<1>1. Len(keys') = 0 /\ Len(ctl') = 0
  OBVIOUS
<1>2. Typed' = Typed /\ Typed \in Nat
  BY NumbersAre DEF Typed
<1>3. ResultsSound'
  BY ResultsRest
<1>4. KeysTyped'
  BY <1>1, <1>2, KeysTypedKept
<1>5. RunSound' /\ PressSound'
  BY <1>1 DEF RunSound, PressSound, Under, Ran
<1>6. Seen /\ line' \in {0, line} => Seen'
  BY <1>1 DEF Seen
<1>7. PromptSound'
  <2>1. Reports' => Reports
    BY <1>1 DEF Reports
  <2>2. line' = cmd => line = cmd
    BY NumbersAre
  <2> QED BY <1>1, <1>2, <1>6, <2>1, <2>2 DEF PromptSound
<1> QED BY <1>3, <1>4, <1>5, <1>7

\* The session is lost, or begins again.
LEMMA LossKeeps == ASSUME Prompted, SessionLost \/ Restart PROVE Common' /\ PowerShellInv'
<1> USE DEF Prompted, Common, PowerShellInv
<1>1. /\ keys' = <<>> /\ ctl' = <<>> /\ at' \in {"prompt", "dead"} /\ line' \in {0, line}
      /\ UNCHANGED <<setting, client, state, cancel, ready, ran, result, ended>> /\ disturbed \subseteq disturbed'
      /\ at' = "dead" \/ (step \in {"checking", "prepared", "installed"} => cmd \in disturbed')
  BY DEF SessionLost, Restart, Lose, ClientSound
<1>2. ResultsSound' /\ KeysTyped' /\ PromptSound' /\ RunSound' /\ PressSound'
  BY <1>1, EmptySound
<1>3. ClientSound'
  BY <1>1 DEF ClientSound, Kept, Alive
<1>4. LineSound'
  BY <1>1 DEF LineSound, Alive
<1>5. EndSound'
  BY <1>1, EndRest
<1> QED BY <1>2, <1>3, <1>4, <1>5

\* Every step of the PowerShell session keeps what holds of it.
LEMMA PowerShellKeeps == ASSUME Prompted, PowerShellNext PROVE Common' /\ PowerShellInv'
<1> USE PrepareKeeps, TypeKeeps, PreparedKeeps, InstallKeeps, PressRunKeeps, AbandonKeeps, ReturnKeeps,
        ReceiveKeeps, EndsKeep, PromptReadyKeeps, HandleKeeps, ShellWorks, WritesKeep, AcceptKeeps, ReadKeyKeeps,
        FlagKeeps, InterruptKeeps, InterruptRaisesKeeps, LossKeeps
<1>1. CASE Host
  BY <1>1 DEF Host
<1>2. CASE Shell
  BY <1>2 DEF Shell
<1>3. CASE \E n \in 1..Len(pty \o frame) : Receive(n)
  BY <1>3
<1>4. CASE WaitTimesOut \/ Abandon \/ WritePiece \/ Signal \/ Flag \/ SessionLost
  BY <1>4
<1>5. CASE \E how \in {"ok", "failed"} : LineEnds(how)
  BY <1>5
<1> QED BY <1>1, <1>2, <1>3, <1>4, <1>5 DEF PowerShellNext

\* And the types.
LEMMA PowerShellTyped == ASSUME Prompted, PowerShellNext, FlagsTyped' PROVE TypeOK'
<1> USE DEF Prompted, Common, PowerShellInv
<1>1. step # "idle" => cmd \in Commands
  BY DEF ClientSound
<1>2. at = "running" => press \in Commands
  BY AtWork
<1>3. cmd \in Commands \/ ~(Prepare \/ TypeCommand \/ Retype \/ Prepared \/ PressRun \/ Install("wait") \/ Refuse \/ Leave
                              \/ Abandon \/ WaitTimesOut)
  BY <1>1, NumbersAre, CommandsAre DEF Prepare, TypeCommand, Retype, Prepared, PressRun, Install, Refuse, Leave,
       Abandon, WaitTimesOut, Waiting
<1>4. executing => cmd \in Commands
  BY <1>1 DEF ClientSound, Kept
<1>5. interrupting => cmd \in Commands \/ step = "idle"
  BY <1>1
<1>6. CASE Prepare \/ TypeCommand \/ Retype \/ Prepared \/ PressRun \/ Refuse \/ Leave \/ Abandon \/ WaitTimesOut
  BY <1>3, <1>6, TypeSteps, RefuseTyped, LeaveTyped, AbandonTyped, TimesOutTyped
<1>7. CASE Install("wait")
  BY <1>3, <1>7, InstallTyped DEF Phases
<1>8. CASE WaitFindsDead \/ ReaderFails \/ CompleteCancelled
  BY <1>8, EndsTyped
<1>9. CASE HandlePromptReady \/ HandleBegin \/ HandleBeginFence \/ HandleEnd \/ HandleEndFence
  BY <1>9, HandleTyped
<1>10. CASE Interrupt \/ InterruptRaises \/ Flag
  BY <1>4, <1>5, <1>10, CancelTyped
<1>11. CASE SessionLost \/ Restart
  BY <1>1, <1>11, LossTyped
<1>12. CASE Shell \/ WritePiece \/ Signal \/ \E how \in {"ok", "failed"} : LineEnds(how)
  BY <1>2, <1>12, ShellTypes DEF Shell
<1>13. CASE \E n \in 1..Len(pty \o frame) : Receive(n)
  BY <1>13, ReceiveTyped
<1> QED BY <1>6, <1>7, <1>8, <1>9, <1>10, <1>11, <1>12, <1>13 DEF PowerShellNext, Host, Shell

-----------------------------------------------------------------------------
(* What the Linux session keeps true.                                         *)

\* F12 and Enter.
Orders == {"arm", "enter"}
NoOrder == \A i \in 1..Len(keys) : keys[i][1] \notin Orders
OnlyPrompts == \A i \in 1..Len(pty) : pty[i] = PromptMark
\* Nothing is told to run, and nothing of what ran is still to be read.
Quiet == OnlyPrompts /\ at \in {"prompt", "dead"} /\ (at = "prompt" => press = 0) /\ NoOrder
\* A command may begin, or its record has just been installed.
Settled ==
    \/ step \in {"prepared", "installed"}
    \/ step \in {"idle", "waiting"} /\ active = 0 /\ Alive /\ ~closing

\* F12 and Enter stand side by side, of one command only: the one that is
\* waited for, or the last one while the session is being closed.
MayEnter(c) ==
    /\ \/ c = cmd /\ step = "waiting"
       \/ c = cmd - 1 /\ step = "idle" /\ closing
    /\ at # "running" /\ c \in Commands /\ ran[c] = 0 /\ result[c] # "unprepared"
EnterSound ==
    /\ \A i \in 1..Len(keys) : keys[i][1] \in Orders => MayEnter(keys[i][2])
    /\ \A i \in 1..Len(keys) : keys[i][1] = "arm" => i < Len(keys) /\ Is(keys[i + 1], "enter", keys[i][2])
    /\ \A i \in 1..Len(keys) : keys[i][1] = "enter" =>
          \/ i = 1 /\ at = "prompt" /\ press = keys[i][2]
          \/ i > 1 /\ keys[i - 1][1] = "arm"
    /\ \A i, j \in 1..Len(keys) : keys[i][1] = "enter" /\ keys[j][1] = "enter" => i = j

\* While the traps are armed the next key is Enter; what runs is what they were
\* armed for.
BashSound ==
    /\ at \in {"prompt", "running", "dead"} /\ press <= Pressed
    /\ at = "prompt" /\ press # 0 => keys # <<>> /\ Is(keys[1], "enter", press)
    /\ at = "running" => prog \in Commands /\ prog <= Pressed /\ press = prog /\ ran[prog] = 1

\* When bash has read the first n keys, no other text than that of c stands in
\* the line; it does stand there.
Owned(c, n) ==
    \/ \E j \in 1..n : Is(keys[j], "text", c) /\ \A k \in j + 1..n : keys[k][1] # "text"
    \/ line \in {0, c} /\ \A k \in 1..n : keys[k][1] # "text"
Intact(c, n) ==
    \/ \E j \in 1..n : Is(keys[j], "text", c) /\ \A k \in j + 1..n : keys[k][1] \notin {"text", "clear", "^C"}
    \/ line = c /\ \A k \in 1..n : keys[k][1] \notin {"text", "clear", "^C"}
\* A Ctrl+C may have taken the text, or the command is cancelled by one.
Excused == cmd \in disturbed \/ (flagged /\ canceller = 0)
TextSound ==
    /\ step \in {"prepared", "installed"} /\ Alive => Owned(cmd, Len(keys)) /\ (Excused \/ Intact(cmd, Len(keys)))
    /\ \A i \in 1..Len(keys) : keys[i][1] = "enter" =>
          /\ Owned(keys[i][2], i - 1)
          /\ active # 0 => Excused \/ (Intact(cmd, i - 1) /\ \A j \in i + 1..Len(keys) : keys[j][1] # "^C")

\* The command was run to its end.
Fair == cmd \in ended /\ ran[cmd] = 1
Statuses == {"ok", "failed"}
\* BEGIN of the command is written.
Begun == x.phase # "begin" \/ \E i \in 1..Len(pty) : pty[i] = BeginMark

\* The phase of the record follows what bash does: before BEGIN only prompts of
\* the editor come, after it nothing is told to run any more.  The marks carry no
\* identity, so this is what keeps one command's marks out of the next one.
PhaseSound ==
    /\ step \notin {"syncing", "checking"}
    /\ Settled => Quiet
    /\ canceller = cmd => \/ flagged
                          \/ active = 0 /\ (step = "installed" => cmd \in disturbed)
    /\ step = "installed" /\ active = 0 => closing \/ ~Alive \/ renewed
    /\ Kept /\ x.status \in Statuses => cmd \in disturbed \/ Fair
    /\ Kept /\ x.done /\ ~NoOrder => closing
    /\ active # 0 =>
          /\ x.phase \in {"begin", "capture", "prompt"}
          /\ step = "installed" => x.phase = "begin"
          /\ Begun => NoOrder /\ (at = "prompt" => press = 0)
          /\ ~Begun => OnlyPrompts /\ at # "running"
          /\ at = "running" => prog = cmd /\ x.phase # "prompt"

\* The marks that are still to be read are those of this command, in order, and
\* after STATUS or the prompt that takes its place only prompts come.
MarksSound ==
    active # 0 =>
        /\ at = "running" /\ x.phase = "capture" => \A i \in 1..Len(pty) : pty[i][1] \in Pieces
        /\ at = "running" /\ x.phase = "begin" => \E i \in 1..Len(pty) :
              /\ pty[i] = BeginMark /\ \A j \in 1..i - 1 : pty[j] = PromptMark
              /\ \A j \in i + 1..Len(pty) : pty[j][1] \in Pieces
        /\ x.phase = "prompt" => OnlyPrompts
        /\ x.phase = "capture" => \A i, j \in 1..Len(pty) : i < j /\ pty[i] = PromptMark => pty[j] = PromptMark
        /\ x.phase = "begin" => \A i, j, k \in 1..Len(pty) :
              i < j /\ j < k /\ pty[i] = BeginMark /\ pty[j] = PromptMark => pty[k] = PromptMark
        /\ \A i, j \in 1..Len(pty) : i < j /\ pty[i][1] \in Statuses => pty[j] = PromptMark
        /\ \A i \in 1..Len(pty) : pty[i][1] \in Statuses => Excused \/ Fair

LinuxInv == EnterSound /\ BashSound /\ TextSound /\ PhaseSound /\ MarksSound
Remote == setting.kind = "linux" /\ TypeOK /\ Common /\ LinuxInv

-----------------------------------------------------------------------------
(* What the steps of the Linux session have in common.                        *)

\* The marks differ from each other and from output.
LEMMA MarkKinds ==
    /\ PromptMark[1] = "prompt" /\ BeginMark[1] = "begin" /\ PromptMark # BeginMark
    /\ \A how \in Statuses : StatusMark(how)[1] = how /\ StatusMark(how) # PromptMark /\ StatusMark(how) # BeginMark
    /\ \A t : t[1] \in Pieces => t # PromptMark /\ t # BeginMark /\ t[1] \notin Statuses
    /\ PromptMark[1] \notin Statuses \cup Pieces /\ BeginMark[1] \notin Statuses \cup Pieces
    /\ \A t : t[1] \in Statuses => t # PromptMark /\ t # BeginMark /\ t[1] \notin Pieces
  BY DEF PromptMark, BeginMark, StatusMark, Statuses, Pieces

\* The types once more.
LEMMA TokenIs ==
    ASSUME TypeOK
    PROVE  /\ pty \in Seq(Tokens) /\ Len(pty) \in Nat /\ x \in Execution
           /\ \A i \in 1..Len(pty) : pty[i] \in Tokens
  BY TypesAre DEF WiresTyped, RecordTyped

\* The numbers and the history.
LEMMA NumbersToo ==
    ASSUME TypeOK
    PROVE  /\ prog \in 0..LastCommand /\ active \in 0..LastCommand
           /\ ran \in [Commands -> Nat] /\ result \in [Commands -> Ends \cup {"unprepared"}]
           /\ ended \subseteq Commands /\ disturbed \subseteq Commands
  BY TypesAre DEF ShellTyped, RecordTyped, ResultTyped, HistoryTyped

\* What a step leaves alone stays sound.
LEMMA EnterRest ==
    ASSUME EnterSound, UNCHANGED <<keys, cmd, step, at, ran, press>>, closing => closing',
           \A c \in Commands : result'[c] = "unprepared" => result[c] = "unprepared"
    PROVE  EnterSound'
<1>1. ASSUME NEW i \in 1..Len(keys), keys[i][1] \in Orders PROVE \E c : c = keys[i][2] /\ MayEnter(c)'
  <2>1. PICK c : c = keys[i][2]
    OBVIOUS
  <2>2. MayEnter(c)
    BY <1>1, <2>1 DEF EnterSound
  <2> QED BY <2>1, <2>2 DEF MayEnter
<1>2. ASSUME NEW i \in 1..Len(keys') PROVE keys'[i][1] \in Orders => MayEnter(keys[i][2])'
  BY <1>1, <1>2 DEF MayEnter
<1>3. (\A i \in 1..Len(keys) : keys[i][1] \in Orders => MayEnter(keys[i][2]))'
  BY <1>2
<1> QED BY <1>3 DEF EnterSound, Is

\* Bash and its line.
LEMMA BashRest ==
    ASSUME TypeOK, BashSound, UNCHANGED <<keys, at, press, prog, ran>>, Pressed <= Pressed', Pressed \in Nat, Pressed' \in Nat
    PROVE  BashSound'
  BY NumbersAre, NumbersToo DEF BashSound, Is

\* The text.
LEMMA OwnedRest ==
    ASSUME NEW c, NEW n, UNCHANGED <<keys, line>>
    PROVE  (Owned(c, n)' <=> Owned(c, n)) /\ (Intact(c, n)' <=> Intact(c, n))
  BY DEF Owned, Intact, Is

\* And what is waited for.
LEMMA TextRest ==
    ASSUME TextSound, UNCHANGED <<keys, line, step, at, cmd>>, Excused => Excused', active' # 0 => active # 0
    PROVE  TextSound'
<1>1. ASSUME step \in {"prepared", "installed"}, Alive
      PROVE  \E c, n : c = cmd' /\ n = Len(keys') /\ Owned(c, n)' /\ (Excused' \/ Intact(c, n)')
  <2>1. PICK c, n : c = cmd /\ n = Len(keys)
    OBVIOUS
  <2>2. Owned(c, n) /\ (Excused \/ Intact(c, n))
    BY <1>1, <2>1 DEF TextSound
  <2> QED BY <2>1, <2>2, OwnedRest
<1>2. ASSUME NEW i \in 1..Len(keys), keys[i][1] = "enter"
      PROVE  \E c, d, n : /\ c = keys'[i][2] /\ n = i - 1 /\ d = cmd' /\ Owned(c, n)'
                         /\ active' # 0 => Excused' \/ (Intact(d, n)' /\ \A j \in i + 1..Len(keys') : keys'[j][1] # "^C")
  <2>1. PICK c, n, d : c = keys[i][2] /\ n = i - 1 /\ d = cmd
    OBVIOUS
  <2>2. Owned(c, n) /\ (active # 0 => Excused \/ (Intact(d, n) /\ \A j \in i + 1..Len(keys) : keys[j][1] # "^C"))
    BY <1>2, <2>1 DEF TextSound
  <2> QED BY <2>1, <2>2, OwnedRest
<1> QED BY <1>1, <1>2 DEF TextSound, Alive, Owned, Intact

-----------------------------------------------------------------------------
(* The steps of the Linux session: its threads.                               *)

\* The text of a command that is prepared, or that stands before its Enter, with
\* constants in the place of what a step may change.
LEMMA TextIs ==
    ASSUME TypeOK,
           step' \in {"prepared", "installed"} /\ Alive' =>
             \E c, n : c = cmd' /\ n = Len(keys') /\ Owned(c, n)' /\ (Excused' \/ Intact(c, n)'),
           \A i \in 1..Len(keys') : keys'[i][1] = "enter" =>
             \E c, d, n : /\ c = keys'[i][2] /\ n = i - 1 /\ d = cmd' /\ Owned(c, n)'
                          /\ active' # 0 => Excused' \/ (Intact(d, n)' /\ \A j \in i + 1..Len(keys') : keys'[j][1] # "^C")
    PROVE  TextSound'
  BY DEF TextSound, Owned, Intact

\* More keys do not change what the line will be after the first ones.
LEMMA OwnedLonger ==
    ASSUME TypeOK, Longer, NEW c, NEW n \in 0..Len(keys), UNCHANGED line
    PROVE  (Owned(c, n) => Owned(c, n)') /\ (Intact(c, n) => Intact(c, n)')
<1>1. \A j \in 1..n : keys'[j] = keys[j] /\ j \in Nat
  BY KeyIs DEF Longer
<1>2. \A j \in 1..n : \A k \in j + 1..n : k \in 1..n
  BY KeyIs
<1>3. ASSUME Owned(c, n) PROVE Owned(c, n)'
  <2>1. CASE \E j \in 1..n : Is(keys[j], "text", c) /\ \A k \in j + 1..n : keys[k][1] # "text"
    BY <1>1, <1>2, <2>1 DEF Owned, Is
  <2>2. CASE line \in {0, c} /\ \A k \in 1..n : keys[k][1] # "text"
    BY <1>1, <2>2 DEF Owned
  <2> QED BY <1>3, <2>1, <2>2 DEF Owned
<1>4. ASSUME Intact(c, n) PROVE Intact(c, n)'
  <2>1. CASE \E j \in 1..n : Is(keys[j], "text", c) /\ \A k \in j + 1..n : keys[k][1] \notin {"text", "clear", "^C"}
    BY <1>1, <1>2, <2>1 DEF Intact, Is
  <2>2. CASE line = c /\ \A k \in 1..n : keys[k][1] \notin {"text", "clear", "^C"}
    BY <1>1, <2>2 DEF Intact
  <2> QED BY <1>4, <2>1, <2>2 DEF Intact
<1> QED BY <1>3, <1>4

\* Before Enter nothing is told to run.
LEMMA NothingOrdered == ASSUME NoOrder PROVE \A i \in 1..Len(keys) : keys[i][1] \notin {"arm", "enter"}
  BY DEF NoOrder, Orders

\* The steps of the executing thread keep what holds: it types the text.
LEMMA PrepareLinuxKeeps == ASSUME Remote, PrepareLinux PROVE Common' /\ LinuxInv'
<1> USE DEF Remote, Common, LinuxInv, PrepareLinux
<1>1. OneMore(<<"text", cmd>>)
  BY OneSent
<1>2. /\ Longer /\ Len(keys') \in Nat /\ Len(keys') = Len(keys) + 1 /\ Len(keys) \in Nat
      /\ keys'[Len(keys) + 1] = <<"text", cmd>>
      /\ \A i \in 1..Len(keys') : \/ i \in 1..Len(keys) /\ keys'[i] = keys[i]
                                  \/ i = Len(keys) + 1 /\ keys'[i] = <<"text", cmd>>
  BY <1>1, KeyIs DEF OneMore, Longer
<1>3. /\ Typed = cmd - 1 /\ Typed' = cmd /\ Typed \in Nat /\ Pressed = cmd - 1 /\ Pressed' = cmd - 1 /\ cmd \in Nat /\ cmd >= 1
      /\ cmd \in Commands /\ active = 0
  BY NumbersAre, CommandsAre DEF Typed, Pressed, ClientSound, Kept
<1>4. Quiet
  BY <1>3 DEF PhaseSound, Settled
<1>5. NoOrder /\ NoOrder' /\ (at = "prompt" => press = 0)
  BY <1>2, <1>4 DEF Quiet, NoOrder, Orders
<1>6. ClientSound'
  BY <1>3 DEF ClientSound, Kept, Alive
<1>7. ResultsSound'
  BY <1>3 DEF ResultsSound, Told
<1>8. KeysTyped'
  <2>1. \A i \in 1..Len(keys') : (\E j \in 1..Len(keys) : keys'[i] = keys[j]) \/ (keys'[i][1] = "text" => keys'[i][2] \in 1..Typed')
    BY <1>2, <1>3
  <2> QED BY <1>3, <2>1, KeysTypedKept
<1>9. EnterSound'
  BY <1>5, NothingOrdered DEF EnterSound, NoOrder, Orders
<1>10. BashSound'
  BY <1>3, <1>4 DEF BashSound, Quiet
<1>11. TextSound'
  <2>1. PICK c, n : c = cmd /\ n = Len(keys')
    OBVIOUS
  <2>2. n \in 1..n /\ Is(keys'[n], "text", c) /\ \A k \in n + 1..n : FALSE
    BY <1>2, <2>1 DEF Is
  <2>3. Owned(c, n)' /\ Intact(c, n)'
    BY <2>2 DEF Owned, Intact
  <2>4. \A i \in 1..Len(keys') : keys'[i][1] # "enter"
    BY <1>5 DEF NoOrder, Orders
  <2> QED BY <2>1, <2>3, <2>4, TextIs
<1>12. PhaseSound'
  <2>1. Quiet'
    BY <1>4, <1>5 DEF Quiet, OnlyPrompts
  <2>2. canceller # cmd
    BY DEF ClientSound, Kept
  <2> QED BY <1>3, <2>1, <2>2 DEF PhaseSound, Kept
<1>13. MarksSound'
  BY <1>3 DEF MarksSound
<1> QED BY <1>6, <1>7, <1>8, <1>9, <1>10, <1>11, <1>12, <1>13

\* The command is not executed after all.
LEMMA AbandonLinuxKeeps == ASSUME Remote, Abandon PROVE Common' /\ LinuxInv'
<1> USE DEF Remote, Common, LinuxInv, Abandon
<1>1. NextCommand("unprepared") /\ step # "idle"
  OBVIOUS
<1>2. /\ Typed <= Typed' /\ Typed' = cmd /\ Typed \in Nat /\ Pressed <= Pressed' /\ Pressed' = cmd /\ Pressed \in Nat
      /\ cmd' = cmd + 1 /\ step' = "idle" /\ cmd \in Commands /\ cmd \in Nat /\ ~Kept'
      /\ result'[cmd] = "unprepared" /\ \A c \in Commands : c # cmd => result'[c] = result[c]
  BY <1>1, NextCommandIs
<1>3. Pressed = cmd - 1 /\ ~Kept
  BY DEF Pressed, Kept
<1>4. /\ Longer /\ Len(keys') \in Nat /\ (~Alive => keys' = keys)
      /\ \A i \in 1..Len(keys') : (i \in 1..Len(keys) /\ keys'[i] = keys[i]) \/ keys'[i][1] = "clear"
  <2>1. CASE ~Alive
    BY <2>1, KeyIs DEF Longer, Send
  <2>2. CASE Alive
    <3>1. OneMore(<<"clear", 0>>)
      BY <2>2, OneSent
    <3> QED BY <2>2, <3>1, KeyIs DEF OneMore, Longer
  <2> QED BY <2>1, <2>2
<1>5. ClientSound' /\ active = 0
  BY <1>2, <1>3, <1>4, NumbersAre DEF ClientSound, Alive
<1>6. ResultsSound'
  BY <1>2, <1>3, CommandsAre DEF ResultsSound, Told
<1>7. KeysTyped'
  <2>1. \A i \in 1..Len(keys') : (\E j \in 1..Len(keys) : keys'[i] = keys[j]) \/ keys'[i][1] # "text"
    BY <1>4
  <2> QED BY <1>2, <2>1, KeysTypedKept
<1>8. Quiet
  BY DEF PhaseSound, Settled
<1>9. NoOrder /\ NoOrder' /\ (at = "prompt" => press = 0)
  BY <1>4, <1>8 DEF Quiet, NoOrder, Orders
<1>10. EnterSound'
  BY <1>9, NothingOrdered DEF EnterSound, NoOrder, Orders
<1>11. BashSound'
  BY <1>2, <1>8, NumbersAre DEF BashSound, Quiet
<1>12. TextSound'
  BY <1>2, <1>9, TextIs DEF NoOrder, Orders
<1>13. PhaseSound'
  <2>1. Quiet'
    BY <1>8, <1>9 DEF Quiet, OnlyPrompts
  <2>2. canceller # cmd + 1
    BY <1>2, NumbersAre DEF ClientSound
  <2> QED BY <1>2, <1>5, <2>1, <2>2 DEF PhaseSound
<1>14. MarksSound'
  BY <1>5 DEF MarksSound
<1> QED BY <1>5, <1>6, <1>7, <1>10, <1>11, <1>12, <1>13, <1>14

\* execute() installs its record.
LEMMA InstallLinuxKeeps == ASSUME Remote, Install("begin") PROVE Common' /\ LinuxInv'
<1> USE DEF Remote, Common, LinuxInv, Install
<1>1. Typed' = Typed /\ Typed = cmd /\ Pressed' = Pressed /\ Pressed = cmd - 1 /\ cmd \in 1..LastCommand + 1 /\ cmd # 0 /\ Pressed \in Nat
  BY NumbersAre DEF Typed, Pressed
<1>2. ~x'.done /\ x'.status = "none" /\ x'.phase = "begin"
  BY DEF NewExecution
<1>3. ClientSound'
  BY <1>2 DEF ClientSound, Kept, Alive
<1>4. ResultsSound' /\ KeysTyped'
  BY <1>1 DEF ResultsSound, Told, KeysTyped
<1>5. Quiet /\ NoOrder /\ ~flagged /\ canceller # cmd
  BY DEF PhaseSound, Settled, Quiet, ClientSound, Kept
<1>6. EnterSound'
  BY <1>5, NothingOrdered DEF EnterSound, NoOrder, Orders
<1>7. BashSound'
  BY <1>1, BashRest
<1>8. TextSound'
  <2>1. PICK c, n : c = cmd /\ n = Len(keys)
    OBVIOUS
  <2>2. Owned(c, n) /\ (Excused \/ Intact(c, n))
    BY <2>1 DEF TextSound
  <2>3. Owned(c, n)' /\ (Excused' \/ Intact(c, n)')
    BY <1>5, <2>2, OwnedRest DEF Excused
  <2> QED BY <1>5, <2>1, <2>3, NothingOrdered, TextIs
<1>9. OnlyPrompts' /\ NoOrder'
  BY <1>5 DEF Quiet, OnlyPrompts, NoOrder
<1>10. PhaseSound'
  <2>1. Quiet'
    BY <1>5, <1>9 DEF Quiet
  <2>2. ~Begun'
    BY <1>2, <1>9, MarkKinds DEF Begun, OnlyPrompts
  <2>3. at # "running"
    BY <1>5 DEF Quiet
  <2> QED BY <1>1, <1>2, <1>5, <1>9, <2>1, <2>2, <2>3 DEF PhaseSound, Statuses
<1>11. MarksSound'
  <2>1. at # "running"
    BY <1>5 DEF Quiet
  <2>2. \A i \in 1..Len(pty') : pty'[i] = PromptMark
    BY <1>9 DEF OnlyPrompts
  <2> QED BY <1>2, <2>1, <2>2, MarkKinds DEF MarksSound
<1> QED BY <1>3, <1>4, <1>6, <1>7, <1>8, <1>10, <1>11

\* F12 and Enter.
LEMMA SendEnterKeeps == ASSUME Remote, SendEnter PROVE Common' /\ LinuxInv'
<1> USE DEF Remote, Common, LinuxInv, SendEnter
<1>1. TwoMore(<<"arm", cmd>>, <<"enter", cmd>>)
  BY TwoSent
<1>2. /\ Longer /\ Len(keys') \in Nat /\ Len(keys') = Len(keys) + 2 /\ Len(keys) \in Nat
      /\ keys'[Len(keys) + 1] = <<"arm", cmd>> /\ keys'[Len(keys) + 2] = <<"enter", cmd>>
      /\ \A i \in 1..Len(keys') : \/ i \in 1..Len(keys) /\ keys'[i] = keys[i]
                                  \/ i = Len(keys) + 1 /\ keys'[i] = <<"arm", cmd>>
                                  \/ i = Len(keys) + 2 /\ keys'[i] = <<"enter", cmd>>
  BY <1>1, KeyIs DEF TwoMore, Longer
<1>3. Typed' = Typed /\ Typed = cmd /\ Pressed' = cmd /\ Pressed = cmd - 1 /\ cmd \in Commands /\ cmd \in 1..LastCommand + 1 /\ Pressed \in Nat
  BY NumbersAre DEF Typed, Pressed, ClientSound
<1>4. Quiet /\ NoOrder /\ OnlyPrompts
  BY DEF PhaseSound, Settled, Quiet
<1>5. \A i \in 1..Len(keys) : keys[i][1] \notin Orders
  BY <1>4 DEF NoOrder
<1>6. ClientSound'
  BY DEF ClientSound, Kept, Alive
<1>7. ResultsSound'
  BY <1>3 DEF ResultsSound, Told
<1>8. KeysTyped'
  <2>1. \A i \in 1..Len(keys') : (\E j \in 1..Len(keys) : keys'[i] = keys[j]) \/ keys'[i][1] # "text"
    BY <1>2
  <2> QED BY <1>3, <2>1, KeysTypedKept
<1>9. ran[cmd] = 0 /\ result[cmd] = "none" /\ ran' = ran /\ result' = result
  BY <1>3, NumbersToo DEF ResultsSound
<1>10. EnterSound'
  <2>1. PICK c : c = cmd
    OBVIOUS
  <2>2. MayEnter(c)'
    BY <1>3, <1>4, <1>9, <2>1 DEF MayEnter, Quiet
  <2>3. \A i \in 1..Len(keys') : keys'[i][1] \in Orders => keys'[i][2] = c
    BY <1>2, <1>5, <2>1
  <2>4. \A i \in 1..Len(keys') : keys'[i][1] = "arm" => i = Len(keys) + 1
    BY <1>2, <1>5 DEF Orders
  <2>5. \A i \in 1..Len(keys') : keys'[i][1] = "enter" => i = Len(keys) + 2
    BY <1>2, <1>5 DEF Orders
  <2>6. \A i \in 1..Len(keys') : keys'[i][1] = "arm" => i < Len(keys') /\ Is(keys'[i + 1], "enter", keys'[i][2])
    BY <1>2, <2>3, <2>4 DEF Is
  <2>7. \A i \in 1..Len(keys') : keys'[i][1] = "enter" => i > 1 /\ keys'[i - 1][1] = "arm"
    BY <1>2, <2>5
  <2>8. \A i, j \in 1..Len(keys') : keys'[i][1] = "enter" /\ keys'[j][1] = "enter" => i = j
    BY <2>5
  <2>9. \A i \in 1..Len(keys') : keys'[i][1] \in Orders => \E d : d = keys'[i][2] /\ MayEnter(d)'
    BY <2>2, <2>3
  <2> QED BY <2>6, <2>7, <2>8, <2>9 DEF EnterSound, MayEnter, Is
<1>11. BashSound'
  BY <1>3, <1>4, NumbersAre DEF BashSound, Quiet
<1>12. TextSound'
  <2>1. PICK c, n : c = cmd /\ n = Len(keys)
    OBVIOUS
  <2>2. Owned(c, n) /\ (Excused \/ Intact(c, n)) /\ n \in 0..Len(keys) /\ n \in Nat
    BY <1>2, <2>1 DEF TextSound
  <2>3. Owned(c, n)' /\ (Intact(c, n) => Intact(c, n)')
    BY <1>2, <2>2, OwnedLonger
  <2>4. \A k : k \in 1..n + 1 <=> k \in 1..n \/ k = n + 1
    BY <2>2
  <2>5. keys'[n + 1][1] = "arm" /\ \A j \in 1..n : \A k \in j + 1..n + 1 : k \in j + 1..n \/ k = n + 1
    BY <1>2, <2>1, <2>2
  <2>6. Owned(c, n + 1)'
    BY <2>3, <2>4, <2>5 DEF Owned
  <2>7. Intact(c, n)' => Intact(c, n + 1)'
    BY <2>4, <2>5 DEF Intact
  <2>8. Excused' <=> Excused
    BY DEF Excused
  <2>9. ASSUME NEW i \in 1..Len(keys'), keys'[i][1] = "enter"
        PROVE  keys'[i][2] = c /\ i - 1 = n + 1 /\ \A j \in i + 1..Len(keys') : keys'[j][1] # "^C"
    <3>1. i = Len(keys) + 2
      BY <1>2, <1>5, <2>9 DEF Orders
    <3> QED BY <1>2, <2>1, <3>1
  <2> QED BY <2>1, <2>2, <2>3, <2>6, <2>7, <2>8, <2>9, TextIs
<1>13. PhaseSound'
  <2>1. active = 0 => closing
    BY DEF PhaseSound
  <2>2. OnlyPrompts' /\ (Begun' <=> Begun)
    BY <1>4 DEF OnlyPrompts, Begun
  <2>3. active # 0 => x.phase = "begin" /\ ~Begun
    BY <1>4, MarkKinds DEF PhaseSound, Begun, OnlyPrompts
  <2>4. ~Settled'
    BY <2>1 DEF Settled
  <2>5. active # 0 => ~x.done /\ active = cmd
    BY DEF ClientSound
  <2>6. at # "running"
    BY <1>4 DEF Quiet
  <2> QED BY <2>1, <2>2, <2>3, <2>4, <2>5, <2>6 DEF PhaseSound, Kept, Fair
<1>14. MarksSound'
  <2>1. active # 0 => x.phase = "begin"
    BY DEF PhaseSound
  <2>2. at # "running"
    BY <1>4 DEF Quiet
  <2>3. \A i \in 1..Len(pty') : pty'[i] = PromptMark
    BY <1>4 DEF OnlyPrompts
  <2> QED BY <2>1, <2>2, <2>3, MarkKinds DEF MarksSound
<1> QED BY <1>6, <1>7, <1>8, <1>10, <1>11, <1>12, <1>13, <1>14

\* execute() returns.
LEMMA ReturnLinuxKeeps == ASSUME Remote, Refuse \/ Leave PROVE Common' /\ LinuxInv'
<1> USE DEF Remote, Common, LinuxInv
<1>1. PICK how \in Ends : NextCommand(how) /\ (how \in {"ok", "failed"} => step = "waiting" /\ how = x.status)
  <2>1. x.status \in Ends /\ "error" \in Ends
    BY TypesAre, ExecutionsAre DEF RecordTyped, Ends
  <2> QED BY <2>1 DEF Refuse, Leave
<1>2. /\ step \in {"prepared", "installed", "waiting"} /\ (step = "waiting" => x.done)
      /\ UNCHANGED <<setting, cancel, shell, wires, session, history, x>>
      /\ active' = 0 /\ ~executing' /\ ~flagged'
  BY DEF Refuse, Leave, ClientSound, Kept
<1>3. /\ Typed <= Typed' /\ Typed' = cmd /\ Typed \in Nat /\ Pressed <= Pressed' /\ Pressed' = cmd /\ Pressed \in Nat
      /\ cmd' = cmd + 1 /\ step' = "idle" /\ cmd \in Commands /\ cmd \in Nat /\ ~Kept'
      /\ result'[cmd] = how /\ \A c \in Commands : c # cmd => result'[c] = result[c]
  BY <1>1, <1>2, NextCommandIs
<1>4. how # "unprepared"
  BY DEF Ends
<1>5. ClientSound'
  BY <1>2, <1>3, NumbersAre DEF ClientSound, Alive
<1>6. ResultsSound'
  <2>1. how \in {"ok", "failed"} => cmd \in disturbed \/ Fair
    BY <1>1 DEF PhaseSound, Kept, Statuses
  <2>2. \A c \in Commands : ran[c] \in Nat
    BY NumbersToo
  <2> QED BY <1>2, <1>3, <1>4, <2>1, <2>2, CommandsAre DEF ResultsSound, Told, Fair
<1>7. KeysTyped'
  BY <1>2, <1>3, KeysTypedKept
<1>8. ~NoOrder => step = "waiting" /\ closing
  BY <1>2 DEF PhaseSound, Settled, Quiet, Kept
<1>9. EnterSound'
  <2>1. ASSUME NEW i \in 1..Len(keys), keys[i][1] \in Orders PROVE \E c : c = keys'[i][2] /\ MayEnter(c)'
    <3>1. PICK c : c = keys[i][2]
      OBVIOUS
    <3>2. MayEnter(c) /\ step = "waiting" /\ closing
      BY <1>8, <2>1, <3>1 DEF EnterSound, NoOrder
    <3>3. c = cmd' - 1 /\ result'[c] # "unprepared"
      BY <1>3, <1>4, <3>2 DEF MayEnter
    <3> QED BY <1>2, <1>3, <3>1, <3>2, <3>3 DEF MayEnter
  <2>2. \A i \in 1..Len(keys') : keys'[i][1] \in Orders => \E c : c = keys'[i][2] /\ MayEnter(c)'
    BY <1>2, <2>1
  <2> QED BY <1>2, <2>2 DEF EnterSound, MayEnter, Is
<1>10. BashSound'
  BY <1>2, <1>3, BashRest
<1>11. TextSound'
  <2>1. ASSUME NEW i \in 1..Len(keys), keys[i][1] = "enter" PROVE \E c, n : c = keys'[i][2] /\ n = i - 1 /\ Owned(c, n)'
    <3>1. PICK c, n : c = keys[i][2] /\ n = i - 1
      OBVIOUS
    <3>2. Owned(c, n)
      BY <2>1, <3>1 DEF TextSound
    <3> QED BY <1>2, <3>1, <3>2, OwnedRest
  <2> QED BY <1>2, <1>3, <2>1, TextIs
<1>12. PhaseSound'
  <2>1. canceller # cmd + 1
    BY <1>3, NumbersAre DEF ClientSound
  <2>2. Settled' => Settled
    <3>1. step # "waiting" => Settled
      BY <1>2 DEF Settled
    <3>2. step = "waiting" => active = 0
      BY <1>2 DEF ClientSound
    <3>3. closing' = closing /\ at' = at /\ step' = "idle"
      BY <1>2, <1>3
    <3>4. Settled' => Alive /\ ~closing
      BY <3>3 DEF Settled, Alive
    <3> QED BY <1>2, <3>1, <3>2, <3>4 DEF Settled
  <2>3. Settled' => Quiet'
    BY <1>2, <2>2 DEF PhaseSound, Quiet, OnlyPrompts, NoOrder
  <2> QED BY <1>2, <1>3, <2>1, <2>3 DEF PhaseSound
<1>13. MarksSound'
  BY <1>2 DEF MarksSound
<1> QED BY <1>5, <1>6, <1>7, <1>9, <1>10, <1>11, <1>12, <1>13

\* The execution fails, if there is one: the reader has ended, or the session is
\* being closed.
LEMMA FailsKeep == ASSUME Remote, ReaderEnds \/ CloseBegins PROVE Common' /\ LinuxInv'
<1> USE DEF Remote, Common, LinuxInv
<1>0. x \in Execution
  BY TokenIs
<1>1. /\ UNCHANGED <<setting, client, executing, flagged, cancel, shell, wires, renewed, answers, history>>
      /\ active' = 0 /\ (closing => closing') /\ closing' \in {closing, TRUE} /\ (closing' \/ ~Alive)
  <2>1. UNCHANGED <<setting, client, executing, flagged, cancel, shell, wires, renewed, answers, history>>
    BY Zenon DEF ReaderEnds, CloseBegins
  <2>2. active' = 0
    BY DEF ReaderEnds, CloseBegins, FailActive, Complete
  <2>4. closing' \in {closing, TRUE}
    BY Zenon DEF ReaderEnds, CloseBegins
  <2>3. (closing => closing') /\ (closing' \/ ~Alive)
    <3>1. CASE ReaderEnds
      <4>1. closing' = closing /\ (closing \/ ~Alive)
        BY <3>1, Zenon DEF ReaderEnds
      <4> QED BY <4>1
    <3>2. CASE CloseBegins
      BY <3>2 DEF CloseBegins
    <3> QED BY <3>1, <3>2
  <2> QED BY <2>1, <2>2, <2>3, <2>4
<1>2. \/ x' = x
      \/ x'.done /\ x'.status = "error" /\ x'.phase = x.phase
  <2>1. x' = x \/ x' = [[x EXCEPT !.status = "error"] EXCEPT !.done = TRUE]
    BY DEF ReaderEnds, CloseBegins, FailActive, Complete
  <2> QED BY <1>0, <2>1 DEF Execution
<1>3. Typed' = Typed /\ Pressed' = Pressed /\ Typed \in Nat /\ Pressed \in Nat
  BY <1>1, NumbersAre DEF Typed, Pressed
<1>4. ClientSound'
  BY <1>1 DEF ClientSound, Kept, Alive
<1>5. ResultsSound' /\ KeysTyped'
  BY <1>1, ResultsRest, KeysRest
<1>6. EnterSound' /\ BashSound'
  BY <1>1, <1>3, EnterRest, BashRest
<1>7. TextSound'
  <2>1. Excused => Excused'
    BY <1>1 DEF Excused
  <2> QED BY <1>1, <2>1, TextRest
<1>8. PhaseSound'
  <2>1. Settled' => step \in {"prepared", "installed"}
    BY <1>1 DEF Settled, Alive
  <2>2. Settled' => Quiet'
    BY <1>1, <2>1 DEF PhaseSound, Settled, Quiet, OnlyPrompts, NoOrder
  <2>3. ~Alive => NoOrder'
    BY <1>1 DEF ClientSound, NoOrder
  <2>4. canceller = cmd => flagged \/ (step = "installed" => cmd \in disturbed)
    BY DEF PhaseSound
  <2> QED BY <1>1, <1>2, <2>2, <2>3, <2>4 DEF PhaseSound, Kept, Fair, Statuses, Alive
<1>9. MarksSound'
  BY <1>1 DEF MarksSound
<1> QED BY <1>4, <1>5, <1>6, <1>7, <1>8, <1>9

\* A step that does not touch bash or the record.
LEMMA MarksFrame ==
    ASSUME MarksSound, UNCHANGED <<at, pty, x, active, cmd, ended, ran>>, Excused => Excused'
    PROVE  MarksSound'
  BY DEF MarksSound, OnlyPrompts, Fair

\* cancel_current sets the flag, or its Ctrl+C fails.
LEMMA FlagLinuxKeeps == ASSUME Remote, Flag \/ SendCtrlCRaises PROVE Common' /\ LinuxInv'
<1> USE DEF Remote, Common, LinuxInv
<1>1. /\ UNCHANGED <<setting, client, active, x, executing, shell, wires, session, answers, history>>
      /\ \/ flagged' /\ ~flagged /\ canceller' = cmd /\ executing /\ interrupting'
         \/ ~flagged' /\ canceller' = 0 /\ interrupting /\ ~interrupting'
  BY Zenon DEF Flag, SendCtrlCRaises
<1>2. Typed' = Typed /\ Pressed' = Pressed /\ Typed \in Nat /\ Pressed \in Nat /\ cmd # 0
  BY <1>1, NumbersAre DEF Typed, Pressed
<1>3. Excused => Excused'
  BY <1>1 DEF Excused, ClientSound
<1>4. ClientSound'
  BY <1>1, <1>2, NumbersAre DEF ClientSound, Kept, Alive
<1>5. ResultsSound' /\ KeysTyped'
  BY <1>1, ResultsRest, KeysRest
<1>6. EnterSound' /\ BashSound'
  BY <1>1, <1>2, EnterRest, BashRest
<1>7. TextSound' /\ MarksSound'
  BY <1>1, <1>3, TextRest, MarksFrame
<1>8. PhaseSound'
  BY <1>1, <1>2 DEF PhaseSound, Settled, Quiet, OnlyPrompts, NoOrder, Kept, Fair, Begun, Alive
<1> QED BY <1>4, <1>5, <1>6, <1>7, <1>8

\* What has not been read of the text is taken away by Ctrl+C.
LEMMA SendCtrlCKeeps == ASSUME Remote, SendCtrlC PROVE Common' /\ LinuxInv'
<1> USE DEF Remote, Common, LinuxInv, SendCtrlC, SendInterrupt
<1>1. OneMore(<<"^C", canceller>>)
  BY OneSent
<1>2. /\ Longer /\ Len(keys') \in Nat /\ Len(keys') = Len(keys) + 1 /\ Len(keys) \in Nat
      /\ keys'[Len(keys) + 1][1] = "^C"
      /\ \A i \in 1..Len(keys') : \/ i \in 1..Len(keys) /\ keys'[i] = keys[i]
                                  \/ i = Len(keys) + 1 /\ keys'[i][1] = "^C"
  BY <1>1, KeyIs DEF OneMore, Longer
<1>3. Typed' = Typed /\ Pressed' = Pressed /\ Typed \in Nat /\ Pressed \in Nat /\ cmd # 0
  BY NumbersAre DEF Typed, Pressed
<1>4. ClientSound'
  <2>1. canceller' = 0 /\ ~interrupting' /\ Alive' /\ cmd # 0 /\ canceller' <= cmd'
    BY <1>3, NumbersAre DEF Alive
  <2>2. /\ step # "idle" => cmd \in Commands
        /\ active # 0 => active = cmd /\ ~x.done /\ Kept
        /\ executing => Kept
        /\ flagged => executing
    BY DEF ClientSound
  <2> QED BY <1>3, <2>1, <2>2 DEF ClientSound, Kept
<1>5. ResultsSound'
  BY ResultsRest
<1>6. KeysTyped'
  <2>1. \A i \in 1..Len(keys') : (\E j \in 1..Len(keys) : keys'[i] = keys[j]) \/ keys'[i][1] # "text"
    BY <1>2
  <2> QED BY <1>3, <2>1, KeysTypedKept
<1>7. Excused => Excused'
  BY DEF Excused
<1>8. step \in {"prepared", "installed"} \/ active # 0 => Excused'
  <2>1. CASE step = "idle" \/ cmd = canceller
    BY <2>1 DEF PhaseSound, ClientSound, Excused, Kept
  <2>2. CASE ~(step = "idle" \/ cmd = canceller)
    BY <2>2 DEF Excused
  <2> QED BY <2>1, <2>2
<1>9. EnterSound'
  <2>1. ASSUME NEW i \in 1..Len(keys'), keys'[i][1] \in Orders PROVE i \in 1..Len(keys) /\ \E c : c = keys'[i][2] /\ MayEnter(c)'
    <3>1. i \in 1..Len(keys) /\ keys'[i] = keys[i]
      BY <1>2, <2>1 DEF Orders
    <3>2. PICK c : c = keys[i][2]
      OBVIOUS
    <3>3. MayEnter(c)
      BY <2>1, <3>1, <3>2 DEF EnterSound
    <3> QED BY <3>1, <3>2, <3>3 DEF MayEnter
  <2>2. ASSUME NEW i \in 1..Len(keys'), keys'[i][1] = "arm" PROVE i < Len(keys') /\ Is(keys'[i + 1], "enter", keys'[i][2])
    <3>1. i \in 1..Len(keys) /\ keys'[i] = keys[i]
      BY <1>2, <2>2
    <3>2. i < Len(keys) /\ Is(keys[i + 1], "enter", keys[i][2])
      BY <2>2, <3>1 DEF EnterSound
    <3>3. i + 1 \in 1..Len(keys)
      BY <1>2, <3>1, <3>2
    <3> QED BY <1>2, <3>1, <3>2, <3>3 DEF Longer, Is
  <2>3. ASSUME NEW i \in 1..Len(keys'), keys'[i][1] = "enter"
        PROVE  (i = 1 /\ at = "prompt" /\ press = keys'[i][2]) \/ (i > 1 /\ keys'[i - 1][1] = "arm")
    <3>1. i \in 1..Len(keys) /\ keys'[i] = keys[i]
      BY <1>2, <2>3
    <3>2. i > 1 => i - 1 \in 1..Len(keys)
      BY <1>2, <3>1
    <3> QED BY <1>2, <2>3, <3>1, <3>2 DEF EnterSound, Longer
  <2>4. \A i, j \in 1..Len(keys') : keys'[i][1] = "enter" /\ keys'[j][1] = "enter" => i = j
    BY <1>2 DEF EnterSound
  <2> QED BY <2>1, <2>2, <2>3, <2>4 DEF EnterSound, MayEnter, Is
<1>10. BashSound'
  <2>1. at = "prompt" /\ press # 0 => keys' # <<>> /\ Is(keys'[1], "enter", press)
    <3>1. ASSUME at = "prompt", press # 0 PROVE 1 \in 1..Len(keys) /\ Is(keys[1], "enter", press)
      BY <3>1, KeyIs DEF BashSound
    <3> QED BY <1>2, <3>1 DEF Longer
  <2> QED BY <1>3, <2>1 DEF BashSound, Is
<1>11. TextSound'
  <2>1. ASSUME step \in {"prepared", "installed"}
        PROVE  \E c, n : c = cmd' /\ n = Len(keys') /\ Owned(c, n)' /\ (Excused' \/ Intact(c, n)')
    <3>1. PICK c, n : c = cmd /\ n = Len(keys)
      OBVIOUS
    <3>2. Owned(c, n) /\ n \in 0..Len(keys)
      BY <1>2, <2>1, <3>1 DEF TextSound
    <3>3. Owned(c, n)'
      BY <1>2, <3>2, OwnedLonger
    <3>4. \A k : k \in 1..n + 1 <=> k \in 1..n \/ k = n + 1
      BY <1>2, <3>1
    <3>5. keys'[n + 1][1] = "^C" /\ \A j \in 1..n : \A k \in j + 1..n + 1 : k \in j + 1..n \/ k = n + 1
      BY <1>2, <3>1, <3>2
    <3>6. Owned(c, n + 1)'
      BY <3>3, <3>4, <3>5 DEF Owned
    <3> QED BY <1>2, <1>8, <2>1, <3>1, <3>6
  <2>2. ASSUME NEW i \in 1..Len(keys'), keys'[i][1] = "enter"
        PROVE  \E c, d, n : /\ c = keys'[i][2] /\ n = i - 1 /\ d = cmd' /\ Owned(c, n)'
                            /\ active' # 0 => Excused' \/ (Intact(d, n)' /\ \A j \in i + 1..Len(keys') : keys'[j][1] # "^C")
    <3>1. i \in 1..Len(keys) /\ keys'[i] = keys[i]
      BY <1>2, <2>2
    <3>2. PICK c, d, n : c = keys[i][2] /\ n = i - 1 /\ d = cmd
      OBVIOUS
    <3>3. Owned(c, n) /\ n \in 0..Len(keys)
      BY <1>2, <2>2, <3>1, <3>2 DEF TextSound
    <3>4. Owned(c, n)'
      BY <1>2, <3>3, OwnedLonger
    <3> QED BY <1>8, <3>1, <3>2, <3>4
  <2> QED BY <2>1, <2>2, TextIs
<1>12. PhaseSound'
  <2>1. NoOrder => NoOrder'
    BY <1>2 DEF NoOrder, Orders
  <2> QED BY <1>3, <2>1 DEF PhaseSound, Settled, Quiet, OnlyPrompts, Kept, Fair, Begun, Alive
<1>13. MarksSound'
  BY <1>7, MarksFrame
<1> QED BY <1>4, <1>5, <1>6, <1>9, <1>10, <1>11, <1>12, <1>13

\* The session is lost.
LEMMA LossLinuxKeeps == ASSUME Remote, CloseEnds \/ ChannelLost PROVE Common' /\ LinuxInv'
<1> USE DEF Remote, Common, LinuxInv
<1>1. /\ keys' = <<>> /\ ctl' = <<>> /\ at' = "dead" /\ Len(keys') = 0
      /\ UNCHANGED <<setting, client, state, cancel, line, prog, press, pty, answers, history>>
  BY DEF CloseEnds, ChannelLost, Lose
<1>2. Typed' = Typed /\ Pressed' = Pressed /\ Typed \in Nat /\ Pressed \in Nat
  BY <1>1, NumbersAre DEF Typed, Pressed
<1>3. ClientSound'
  BY <1>1 DEF ClientSound, Kept, Alive
<1>4. ResultsSound' /\ KeysTyped'
  BY <1>1, <1>2, ResultsRest, KeysTypedKept
<1>5. EnterSound' /\ BashSound' /\ TextSound' /\ NoOrder'
  BY <1>1, <1>2 DEF EnterSound, BashSound, TextSound, Alive, NoOrder
<1>6. PhaseSound'
  <2>1. Settled' => step \in {"prepared", "installed"}
    BY <1>1 DEF Settled, Alive
  <2>2. Settled' => Quiet'
    BY <1>1, <1>5, <2>1 DEF PhaseSound, Settled, Quiet, OnlyPrompts
  <2>3. Begun' <=> Begun
    BY <1>1 DEF Begun
  <2>4. OnlyPrompts' <=> OnlyPrompts
    BY <1>1 DEF OnlyPrompts
  <2> QED BY <1>1, <1>5, <2>2, <2>3, <2>4 DEF PhaseSound, Kept, Fair, Alive
<1>7. MarksSound'
  BY <1>1 DEF MarksSound, OnlyPrompts, Excused, Fair
<1> QED BY <1>3, <1>4, <1>5, <1>6, <1>7

\* It begins again.
LEMMA StartAnewKeeps == ASSUME Remote, StartAnew PROVE Common' /\ LinuxInv'
<1> USE DEF Remote, Common, LinuxInv, StartAnew
<1>1. keys' = <<>> /\ Len(keys') = 0 /\ Len(pty') = 0 /\ disturbed \subseteq disturbed'
  BY DEF ClientSound
<1>2. Typed' = Typed /\ Pressed' = Pressed /\ Typed \in Nat /\ Pressed \in Nat
  BY NumbersAre DEF Typed, Pressed
<1>3. ClientSound'
  BY DEF ClientSound, Kept, Alive
<1>4. ResultsSound' /\ KeysTyped'
  BY <1>1, <1>2, ResultsRest, KeysTypedKept
<1>5. EnterSound' /\ BashSound' /\ NoOrder' /\ OnlyPrompts'
  BY <1>1, <1>2 DEF EnterSound, BashSound, NoOrder, OnlyPrompts
<1>6. TextSound'
  <2>1. PICK c, n : c = cmd /\ n = 0
    OBVIOUS
  <2>2. Owned(c, n)'
    BY <2>1 DEF Owned
  <2>3. step \in {"prepared", "installed"} => Excused'
    BY DEF Excused
  <2> QED BY <1>1, <2>1, <2>2, <2>3, TextIs
<1>7. PhaseSound'
  BY <1>1, <1>5 DEF PhaseSound, Quiet, Kept, Fair
<1>8. MarksSound'
  BY DEF MarksSound
<1> QED BY <1>3, <1>4, <1>5, <1>6, <1>7, <1>8

\* What one token does to the record.
Enters(y, t) == x.phase = "begin" /\ t = BeginMark /\ y.phase = "capture" /\ y.status = x.status /\ y.done = x.done
Stays(y, t) ==
    /\ y.phase = x.phase /\ y.status = x.status /\ y.done = x.done
    /\ x.phase = "begin" => t # BeginMark
    /\ x.phase = "capture" => t # PromptMark /\ t[1] \notin Statuses
SaysHow(y, t) ==
    /\ x.phase = "capture" /\ t[1] \in Statuses
    /\ y.phase = "prompt" /\ y.done = x.done /\ y.status = IF flagged THEN "cancelled" ELSE t[1]
Finishes(y, t) ==
    /\ x.phase \in {"capture", "prompt"} /\ t = PromptMark /\ y.done = TRUE /\ y.phase = x.phase
    /\ y.status = x.status \/ y.status \notin Statuses

\* These are all the cases there are.
LEMMA TokenDoes ==
    ASSUME x \in Execution, x.phase \in {"begin", "capture", "prompt"}, NEW t \in Tokens,
           x.phase = "prompt" => t = PromptMark
    PROVE  \E y : y = StepLinux(x, t) /\ (Enters(y, t) \/ Stays(y, t) \/ SaysHow(y, t) \/ Finishes(y, t))
<1>1. PICK y : y = StepLinux(x, t)
  OBVIOUS
<1>2. x.done \in BOOLEAN /\ [x EXCEPT !.phase = "capture"].status = x.status
  BY ExecutionsAre
<1>3. CASE x.phase = "begin"
  <2>1. y = IF t = BeginMark THEN [x EXCEPT !.phase = "capture"] ELSE x
    BY <1>1, <1>3 DEF StepLinux, AwaitBegin
  <2>2. t = BeginMark => Enters(y, t)
    BY <1>3, <2>1 DEF Enters, Execution
  <2> QED BY <1>1, <1>3, <2>1, <2>2 DEF Stays
<1>4. CASE x.phase = "capture"
  <2>1. y = CaptureLinux(x, t)
    BY <1>1, <1>4 DEF StepLinux
  <2>2. CASE t = BeginMark
    BY <1>1, <1>4, <2>1, <2>2, MarkKinds DEF CaptureLinux, Stays
  <2>3. CASE t = PromptMark
    <3>1. y = [[x EXCEPT !.status = IF flagged THEN "cancelled" ELSE "error"] EXCEPT !.done = TRUE]
      BY <2>1, <2>3, MarkKinds DEF CaptureLinux, StatusOf
    <3>2. y.done = TRUE /\ y.phase = x.phase /\ y.status = IF flagged THEN "cancelled" ELSE "error"
      BY <3>1 DEF Execution
    <3> QED BY <1>1, <1>4, <2>3, <3>2 DEF Finishes, Statuses
  <2>4. CASE t[1] \in Statuses
    <3>1. y = [[x EXCEPT !.status = IF flagged THEN "cancelled" ELSE t[1]] EXCEPT !.phase = "prompt"]
      BY <2>1, <2>4, MarkKinds DEF CaptureLinux, StatusOf, Statuses
    <3>2. y.done = x.done /\ y.phase = "prompt" /\ y.status = IF flagged THEN "cancelled" ELSE t[1]
      BY <3>1 DEF Execution
    <3> QED BY <1>1, <1>4, <2>4, <3>2 DEF SaysHow
  <2>5. CASE t # BeginMark /\ t # PromptMark /\ t[1] \notin Statuses
    <3>1. y = [x EXCEPT !.out = Append(@, t)]
      BY <2>1, <2>5 DEF CaptureLinux, Statuses
    <3>2. y.phase = x.phase /\ y.status = x.status /\ y.done = x.done
      BY <3>1 DEF Execution
    <3> QED BY <1>1, <1>4, <2>5, <3>2 DEF Stays
  <2> QED BY <2>2, <2>3, <2>4, <2>5
<1>5. CASE x.phase = "prompt"
  <2>1. y = [x EXCEPT !.done = TRUE]
    BY <1>1, <1>5 DEF StepLinux, AwaitPrompt
  <2>2. y.done = TRUE /\ y.phase = x.phase /\ y.status = x.status
    BY <2>1 DEF Execution
  <2> QED BY <1>1, <1>5, <2>2 DEF Finishes
<1> QED BY <1>3, <1>4, <1>5

\* What the reader has left when it took the first token.
LEMMA Shorter ==
    ASSUME TypeOK, pty # <<>>, pty' = Tail(pty)
    PROVE  /\ Len(pty') \in Nat /\ Len(pty) = Len(pty') + 1 /\ Head(pty) = pty[1] /\ pty[1] \in Tokens
           /\ 1 \in 1..Len(pty)
           /\ \A i \in 1..Len(pty') : i + 1 \in 1..Len(pty) /\ pty'[i] = pty[i + 1]
           /\ \A i \in 1..Len(pty) : i # 1 => i - 1 \in 1..Len(pty') /\ pty[i] = pty'[i - 1]
<1>1. pty \in Seq(Tokens)
  BY TypesAre DEF WiresTyped
<1>2. /\ Len(pty') \in Nat /\ Len(pty) = Len(pty') + 1 /\ Head(pty) = pty[1] /\ pty[1] \in Tokens
      /\ \A i \in 1..Len(pty') : pty'[i] = pty[i + 1]
  BY <1>1
<1>3. \A i \in 1..Len(pty) : i # 1 => i - 1 \in 1..Len(pty') /\ pty'[i - 1] = pty[i - 1 + 1] /\ i - 1 + 1 = i
  BY <1>2
<1>4. \A i \in 1..Len(pty') : i + 1 \in 1..Len(pty)
  BY <1>2
<1> QED BY <1>2, <1>3, <1>4

\* What reading a token leaves alone.
LEMMA TakeRest ==
    ASSUME Remote, pty # <<>>, pty' = Tail(pty), active' \in {active, 0}, active' # 0 => ~x'.done,
           UNCHANGED <<setting, client, executing, flagged, cancel, shell, keys, ctl, frame, session, answers, history>>
    PROVE  /\ ClientSound' /\ ResultsSound' /\ KeysTyped' /\ EnterSound' /\ BashSound' /\ TextSound'
           /\ (OnlyPrompts => OnlyPrompts') /\ (NoOrder' <=> NoOrder) /\ (Fair' <=> Fair) /\ (Excused' <=> Excused)
<1> USE DEF Remote, Common, LinuxInv
<1>1. Typed' = Typed /\ Pressed' = Pressed /\ Typed \in Nat /\ Pressed \in Nat
  BY NumbersAre DEF Typed, Pressed
<1>2. ClientSound'
  BY DEF ClientSound, Kept, Alive
<1>3. ResultsSound' /\ KeysTyped'
  BY ResultsRest, KeysRest
<1>4. Excused' <=> Excused
  BY DEF Excused
<1>5. EnterSound' /\ BashSound' /\ TextSound'
  BY <1>1, <1>4, EnterRest, BashRest, TextRest
<1>6. OnlyPrompts => OnlyPrompts'
  BY Shorter DEF OnlyPrompts
<1> QED BY <1>2, <1>3, <1>4, <1>5, <1>6 DEF NoOrder, Fair

Taken(t) ==
    /\ t = pty[1] /\ t \in Tokens /\ pty # <<>> /\ pty' = Tail(pty)
    /\ UNCHANGED <<setting, client, executing, flagged, cancel, shell, keys, ctl, frame, session, answers, history>>

\* Nobody waits for it.
LEMMA TakeUnheard == ASSUME Remote, NEW t, Taken(t), active = 0, UNCHANGED <<active, x>> PROVE Common' /\ LinuxInv'
<1> USE DEF Remote, Common, LinuxInv, Taken
<1>1. /\ ClientSound' /\ ResultsSound' /\ KeysTyped' /\ EnterSound' /\ BashSound' /\ TextSound'
      /\ (OnlyPrompts => OnlyPrompts') /\ (NoOrder' <=> NoOrder) /\ (Fair' <=> Fair)
  BY TakeRest DEF ClientSound
<1>2. PhaseSound'
  <2>1. Settled' => Quiet'
    BY <1>1 DEF PhaseSound, Settled, Quiet, Alive
  <2> QED BY <1>1, <2>1 DEF PhaseSound, Kept, Alive
<1>3. MarksSound'
  BY DEF MarksSound
<1> QED BY <1>1, <1>2, <1>3

\* It is BEGIN.
LEMMA TakeBegin == ASSUME Remote, NEW t, Taken(t), active # 0, active' = active, Enters(x', t) PROVE Common' /\ LinuxInv'
<1> USE DEF Remote, Common, LinuxInv, Taken, Enters
<1>1. /\ ClientSound' /\ ResultsSound' /\ KeysTyped' /\ EnterSound' /\ BashSound' /\ TextSound'
      /\ (OnlyPrompts => OnlyPrompts') /\ (NoOrder' <=> NoOrder) /\ (Fair' <=> Fair) /\ (Excused' <=> Excused)
  BY TakeRest DEF ClientSound
<1>2. 1 \in 1..Len(pty) /\ pty[1] = BeginMark /\ BeginMark # PromptMark
  BY Shorter, MarkKinds
<1>3. Begun /\ ~OnlyPrompts
  BY <1>2 DEF Begun, OnlyPrompts
<1>4. ~Settled /\ step # "installed" /\ step # "prepared"
  BY <1>3 DEF PhaseSound, Quiet, Settled
<1>5. PhaseSound'
  <2>1. ~Settled'
    BY <1>4 DEF Settled, Alive
  <2>2. Begun'
    BY DEF Begun
  <2> QED BY <1>1, <1>3, <1>4, <2>1, <2>2 DEF PhaseSound, Kept, Alive
<1>6. MarksSound'
  <2>1. at = "running" => \A i \in 1..Len(pty') : pty'[i][1] \in Pieces
    <3>1. ASSUME at = "running" PROVE \A j \in 2..Len(pty) : pty[j][1] \in Pieces
      <4>1. PICK i \in 1..Len(pty) : /\ pty[i] = BeginMark /\ \A j \in 1..i - 1 : pty[j] = PromptMark
                                     /\ \A j \in i + 1..Len(pty) : pty[j][1] \in Pieces
        BY <3>1 DEF MarksSound
      <4>2. i = 1
        BY <1>2, <4>1
      <4> QED BY <4>1, <4>2
    <3>2. \A i \in 1..Len(pty') : i + 1 \in 2..Len(pty) /\ pty'[i] = pty[i + 1]
      BY Shorter
    <3> QED BY <3>1, <3>2
  <2>2. \A i, j \in 1..Len(pty') : i < j /\ pty'[i] = PromptMark => pty'[j] = PromptMark
    <3>1. \A j, k \in 1..Len(pty) : 1 < j /\ j < k /\ pty[j] = PromptMark => pty[k] = PromptMark
      BY <1>2 DEF MarksSound
    <3>2. \A i \in 1..Len(pty') : i + 1 \in 1..Len(pty) /\ 1 < i + 1 /\ pty'[i] = pty[i + 1]
      BY Shorter
    <3> QED BY <3>1, <3>2, Shorter
  <2>3. /\ \A i, j \in 1..Len(pty') : i < j /\ pty'[i][1] \in Statuses => pty'[j] = PromptMark
        /\ \A i \in 1..Len(pty') : pty'[i][1] \in Statuses => Excused' \/ Fair'
    BY <1>1, Shorter DEF MarksSound
  <2> QED BY <2>1, <2>2, <2>3 DEF MarksSound, Excused, Fair
<1> QED BY <1>1, <1>5, <1>6

\* It is output, or a prompt of the editor.
LEMMA TakeStays == ASSUME Remote, NEW t, Taken(t), active # 0, active' = active, Stays(x', t) PROVE Common' /\ LinuxInv'
<1> USE DEF Remote, Common, LinuxInv, Taken, Stays
<1>1. /\ ClientSound' /\ ResultsSound' /\ KeysTyped' /\ EnterSound' /\ BashSound' /\ TextSound'
      /\ (OnlyPrompts => OnlyPrompts') /\ (NoOrder' <=> NoOrder) /\ (Fair' <=> Fair) /\ (Excused' <=> Excused)
  BY TakeRest DEF ClientSound
<1>2. Begun' <=> Begun
  <2>1. x.phase = "begin" => (\A i \in 1..Len(pty) : pty[i] = BeginMark => i # 1)
    OBVIOUS
  <2>2. x.phase = "begin" => ((\E i \in 1..Len(pty) : pty[i] = BeginMark) => (\E i \in 1..Len(pty') : pty'[i] = BeginMark))
    BY <2>1, Shorter
  <2>3. (\E i \in 1..Len(pty') : pty'[i] = BeginMark) => (\E i \in 1..Len(pty) : pty[i] = BeginMark)
    BY Shorter
  <2> QED BY <2>2, <2>3 DEF Begun
<1>3. PhaseSound'
  <2>1. Settled' => Quiet'
    BY <1>1 DEF PhaseSound, Settled, Quiet, Alive
  <2> QED BY <1>1, <1>2, <2>1 DEF PhaseSound, Kept, Alive
<1>4. MarksSound'
  <2>1. at = "running" /\ x.phase = "capture" => \A i \in 1..Len(pty') : pty'[i][1] \in Pieces
    BY Shorter DEF MarksSound
  <2>2. ASSUME at = "running", x.phase = "begin"
        PROVE  \E i \in 1..Len(pty') : /\ pty'[i] = BeginMark /\ \A j \in 1..i - 1 : pty'[j] = PromptMark
                                       /\ \A j \in i + 1..Len(pty') : pty'[j][1] \in Pieces
    <3>1. PICK i \in 1..Len(pty) : /\ pty[i] = BeginMark /\ \A j \in 1..i - 1 : pty[j] = PromptMark
                                   /\ \A j \in i + 1..Len(pty) : pty[j][1] \in Pieces
      BY <2>2 DEF MarksSound
    <3>2. i # 1 /\ i \in Nat /\ Len(pty') \in Nat
      BY <2>2, <3>1, Shorter
    <3>3. PICK h : h = i - 1
      OBVIOUS
    <3>4. h \in 1..Len(pty') /\ pty'[h] = BeginMark /\ h \in Nat /\ h + 1 = i
      BY <3>1, <3>2, <3>3, Shorter
    <3>5. ASSUME NEW j \in 1..h - 1 PROVE pty'[j] = PromptMark
      <4>1. j \in 1..Len(pty') /\ j + 1 \in 1..i - 1
        BY <3>2, <3>4, <3>5
      <4> QED BY <3>1, <4>1, Shorter
    <3>6. ASSUME NEW j \in h + 1..Len(pty') PROVE pty'[j][1] \in Pieces
      <4>1. j \in 1..Len(pty') /\ j + 1 \in i + 1..Len(pty)
        BY <3>2, <3>4, <3>6, Shorter
      <4> QED BY <3>1, <4>1, Shorter
    <3> QED BY <3>4, <3>5, <3>6
  <2>3. x.phase = "prompt" => OnlyPrompts'
    BY <1>1 DEF MarksSound
  <2>4. x.phase = "capture" => \A i, j \in 1..Len(pty') : i < j /\ pty'[i] = PromptMark => pty'[j] = PromptMark
    <3>1. \A i, j \in 1..Len(pty') : i < j => i + 1 < j + 1
      OBVIOUS
    <3> QED BY <3>1, Shorter DEF MarksSound
  <2>5. x.phase = "begin" => \A i, j, k \in 1..Len(pty') :
           i < j /\ j < k /\ pty'[i] = BeginMark /\ pty'[j] = PromptMark => pty'[k] = PromptMark
    <3>1. \A i, j \in 1..Len(pty') : i < j => i + 1 < j + 1
      OBVIOUS
    <3> QED BY <3>1, Shorter DEF MarksSound
  <2>6. /\ \A i, j \in 1..Len(pty') : i < j /\ pty'[i][1] \in Statuses => pty'[j] = PromptMark
        /\ \A i \in 1..Len(pty') : pty'[i][1] \in Statuses => Excused' \/ Fair'
    BY <1>1, Shorter DEF MarksSound
  <2> QED BY <2>1, <2>2, <2>3, <2>4, <2>5, <2>6 DEF MarksSound, Excused, Fair
<1> QED BY <1>1, <1>3, <1>4

\* It is STATUS: the prompt is all that can follow.
LEMMA TakeStatus == ASSUME Remote, NEW t, Taken(t), active # 0, active' = active, SaysHow(x', t) PROVE Common' /\ LinuxInv'
<1> USE DEF Remote, Common, LinuxInv, Taken, SaysHow
<1>1. /\ ClientSound' /\ ResultsSound' /\ KeysTyped' /\ EnterSound' /\ BashSound' /\ TextSound'
      /\ (OnlyPrompts => OnlyPrompts') /\ (NoOrder' <=> NoOrder) /\ (Fair' <=> Fair) /\ (Excused' <=> Excused)
  BY TakeRest DEF ClientSound
<1>2. 1 \in 1..Len(pty) /\ pty[1][1] \in Statuses /\ pty[1] # PromptMark /\ pty[1][1] \notin Pieces
  BY Shorter, MarkKinds
<1>3. Begun /\ Begun' /\ ~OnlyPrompts /\ at # "running" /\ step # "installed"
  BY <1>2 DEF Begun, OnlyPrompts, MarksSound, PhaseSound
<1>4. OnlyPrompts'
  <2>1. \A j \in 1..Len(pty) : 1 < j => pty[j] = PromptMark
    BY <1>2 DEF MarksSound
  <2>2. \A i \in 1..Len(pty') : i + 1 \in 1..Len(pty) /\ 1 < i + 1 /\ pty'[i] = pty[i + 1]
    BY Shorter
  <2> QED BY <2>1, <2>2 DEF OnlyPrompts
<1>5. flagged \/ cmd \in disturbed \/ Fair
  BY <1>2 DEF MarksSound, Excused
<1>6. ~flagged => (x'.status \in Statuses => cmd \in disturbed \/ Fair)
  BY <1>5
<1>7. flagged => x'.status = "cancelled"
  OBVIOUS
<1>8. PhaseSound'
  <2>1. ~Settled'
    BY <1>3 DEF Settled, Alive, PhaseSound, Quiet, ClientSound, Kept
  <2>2. x'.status \in Statuses => cmd \in disturbed \/ Fair
    BY <1>6, <1>7 DEF Statuses
  <2> QED BY <1>1, <1>3, <2>1, <2>2 DEF PhaseSound, Kept, Alive
<1>9. MarksSound'
  BY <1>3, <1>4, MarkKinds DEF MarksSound, OnlyPrompts
<1> QED BY <1>1, <1>8, <1>9

\* It is the prompt that ends the execution.
LEMMA TakeLast == ASSUME Remote, NEW t, Taken(t), active # 0, active' = 0, Finishes(x', t) PROVE Common' /\ LinuxInv'
<1> USE DEF Remote, Common, LinuxInv, Taken, Finishes
<1>1. /\ ClientSound' /\ ResultsSound' /\ KeysTyped' /\ EnterSound' /\ BashSound' /\ TextSound'
      /\ (OnlyPrompts => OnlyPrompts') /\ (NoOrder' <=> NoOrder) /\ (Fair' <=> Fair)
  BY TakeRest
<1>2. 1 \in 1..Len(pty) /\ pty[1] = PromptMark /\ PromptMark[1] \notin Pieces
  BY Shorter, MarkKinds
<1>3. NoOrder /\ (at = "prompt" => press = 0) /\ step # "installed" /\ at # "running"
  BY <1>2 DEF Begun, MarksSound, PhaseSound
<1>4. OnlyPrompts'
  <2>1. \A j \in 1..Len(pty) : 1 < j => pty[j] = PromptMark
    BY <1>2 DEF MarksSound, OnlyPrompts
  <2>2. \A i \in 1..Len(pty') : i + 1 \in 1..Len(pty) /\ 1 < i + 1 /\ pty'[i] = pty[i + 1]
    BY Shorter
  <2> QED BY <2>1, <2>2 DEF OnlyPrompts
<1>5. PhaseSound'
  <2>1. Quiet'
    BY <1>1, <1>3, <1>4 DEF Quiet, BashSound
  <2>2. x'.status \in Statuses => x.status \in Statuses
    OBVIOUS
  <2> QED BY <1>1, <1>3, <2>1, <2>2 DEF PhaseSound, Kept
<1>6. MarksSound'
  BY DEF MarksSound
<1> QED BY <1>1, <1>5, <1>6

\* The reader takes a token.
LEMMA ReceiveLinuxKeeps == ASSUME Remote, ReceiveLinux PROVE Common' /\ LinuxInv'
<1> USE DEF Remote, Common, LinuxInv
<1>1. PICK t : t = Head(pty)
  OBVIOUS
<1>2. Taken(t)
  BY <1>1, Shorter DEF Taken, ReceiveLinux
<1>3. CASE active = 0
  BY <1>2, <1>3, TakeUnheard DEF ReceiveLinux
<1>4. CASE active # 0
  <2>1. x \in Execution /\ x.phase \in {"begin", "capture", "prompt"} /\ ~x.done /\ t \in Tokens
    BY <1>2, <1>4, TokenIs DEF PhaseSound, ClientSound, Taken
  <2>2. x.phase = "prompt" => t = PromptMark
    BY <1>2, <1>4, Shorter DEF MarksSound, OnlyPrompts, Taken
  <2>3. PICK y : y = StepLinux(x, t) /\ (Enters(y, t) \/ Stays(y, t) \/ SaysHow(y, t) \/ Finishes(y, t))
    BY <2>1, <2>2, TokenDoes
  <2>4. IF y.done THEN Complete(y) ELSE x' = y /\ active' = active
    BY <1>1, <1>4, <2>3 DEF ReceiveLinux
  <2>5. CASE Finishes(y, t)
    <3>1. active' = 0 /\ x' = [y EXCEPT !.done = TRUE] /\ y.done = TRUE
      BY <2>4, <2>5 DEF Complete, Finishes
    <3>2. y \in Execution
      <4>1. y = [x EXCEPT !.done = TRUE] \/ y = [StatusOf(x, "error") EXCEPT !.done = TRUE]
        BY <2>1, <2>3, <2>5, MarkKinds DEF Finishes, StepLinux, CaptureLinux, AwaitPrompt
      <4> QED BY <2>1, <4>1, ChangesAre DEF StatusOf, Ends
    <3>3. x' = y
      BY <3>1, <3>2 DEF Execution
    <3> QED BY <1>2, <1>4, <2>5, <3>1, <3>3, TakeLast
  <2>6. CASE ~Finishes(y, t)
    <3>1. ~y.done
      BY <2>1, <2>3, <2>6 DEF Enters, Stays, SaysHow
    <3>2. x' = y /\ active' = active
      BY <2>4, <3>1
    <3> QED BY <1>2, <1>4, <2>3, <2>6, <3>2, TakeBegin, TakeStays, TakeStatus
  <2> QED BY <2>5, <2>6
<1> QED BY <1>3, <1>4

-----------------------------------------------------------------------------
(* The steps of bash.                                                         *)

\* bash has read the first n keys.
Drops(n) ==
    /\ n \in Nat /\ n <= Len(keys) /\ Len(keys') \in Nat /\ Len(keys) = Len(keys') + n
    /\ \A i \in 1..Len(keys') : i + n \in 1..Len(keys) /\ keys'[i] = keys[i + n]
    /\ \A i \in n + 1..Len(keys) : i - n \in 1..Len(keys') /\ keys[i] = keys'[i - n]

\* Ctrl+C drops the keys before it.
LEMMA SuffixDrops ==
    ASSUME TypeOK, NEW n \in 1..Len(keys), keys' = SubSeq(keys, n + 1, Len(keys))
    PROVE  Drops(n)
<1>1. keys \in Seq(Keys) /\ Len(keys) \in Nat
  BY KeyIs
<1>2. Len(keys') \in Nat /\ Len(keys) = Len(keys') + n /\ \A i \in 1..Len(keys') : keys'[i] = keys[i + n]
  <2>1. n \in Nat /\ n + 1 \in 1..Len(keys) + 1 /\ Len(keys) \in n..Len(keys) /\ n <= Len(keys)
    BY <1>1
  <2>2. \A i \in n + 1..Len(keys) : keys[i] \in Keys
    BY <1>1, <2>1
  <2>3. /\ Len(keys') = (IF n + 1 <= Len(keys) THEN Len(keys) - (n + 1) + 1 ELSE 0)
        /\ \A i \in 1..(Len(keys) - (n + 1) + 1) : keys'[i] = keys[(n + 1) + i - 1]
    BY <1>1, <2>1, <2>2, SubSeqProperties
  <2>4. Len(keys') = Len(keys) - n
    BY <1>1, <2>1, <2>3
  <2>5. \A i \in 1..Len(keys') : (n + 1) + i - 1 = i + n /\ i \in 1..(Len(keys) - (n + 1) + 1)
    BY <1>1, <2>1, <2>4
  <2> QED BY <1>1, <2>1, <2>3, <2>4, <2>5
<1>3. \A i \in 1..Len(keys') : i + n \in 1..Len(keys)
  <2>1. n \in Nat /\ Len(keys') \in Nat /\ Len(keys) = Len(keys') + n
    BY <1>1, <1>2
  <2> QED BY <2>1
<1>4. \A i \in n + 1..Len(keys) : i - n \in 1..Len(keys') /\ keys'[i - n] = keys[(i - n) + n] /\ (i - n) + n = i
  BY <1>1, <1>2
<1> QED BY <1>1, <1>2, <1>3, <1>4 DEF Drops

\* Or it reads one.
LEMMA TailDrops ==
    ASSUME TypeOK, keys # <<>>, keys' = Tail(keys)
    PROVE  Drops(1) /\ 1 \in 1..Len(keys) /\ Head(keys) = keys[1]
<1>1. keys \in Seq(Keys) /\ Len(keys) \in Nat
  BY KeyIs
<1>2. Len(keys') \in Nat /\ Len(keys) = Len(keys') + 1 /\ \A i \in 1..Len(keys') : keys'[i] = keys[i + 1]
  BY <1>1
<1>3. \A i \in 1..Len(keys') : i + 1 \in 1..Len(keys)
  BY <1>1, <1>2
<1>4. \A i \in 2..Len(keys) : i - 1 \in 1..Len(keys') /\ keys'[i - 1] = keys[(i - 1) + 1] /\ (i - 1) + 1 = i
  BY <1>1, <1>2
<1> QED BY <1>1, <1>2, <1>3, <1>4 DEF Drops

Works == UNCHANGED <<setting, client, state, cancel, ctl, frame, session, answers, disturbed, timedOut, orphaned>>

\* What bash leaves alone.
LEMMA WorksRest ==
    ASSUME Remote, Works, at # "dead", at' # "dead"
    PROVE  /\ ClientSound' /\ Typed' = Typed /\ Pressed' = Pressed /\ Typed \in Nat /\ Pressed \in Nat
           /\ (Excused' <=> Excused)
           /\ (ran' = ran /\ ended \subseteq ended' => ResultsSound')
           /\ (\A n : Drops(n) /\ line' \in {0, line} => KeysTyped')
<1> USE DEF Remote, Common, LinuxInv, Works
<1>1. ClientSound'
  BY DEF ClientSound, Kept, Alive
<1>2. Typed' = Typed /\ Pressed' = Pressed /\ Typed \in Nat /\ Pressed \in Nat
  BY NumbersAre DEF Typed, Pressed
<1>3. ran' = ran /\ ended \subseteq ended' => ResultsSound'
  BY ResultsRest
<1>4. ASSUME NEW n, Drops(n), line' \in {0, line} PROVE KeysTyped'
  <2>1. \A i \in 1..Len(keys') : \E j \in 1..Len(keys) : keys'[i] = keys[j]
    BY <1>4 DEF Drops
  <2> QED BY <1>2, <1>4, <2>1, KeysTypedKept
<1> QED BY <1>1, <1>2, <1>3, <1>4 DEF Excused

\* Keys told to run something stay together.
LEMMA DropsOrders ==
    ASSUME Remote, Works, NEW n, Drops(n), ran' = ran, at' # "running",
           \A i \in 1..Len(keys) : keys[i][1] = "enter" /\ i = n + 1 => at' = "prompt" /\ press' = keys[i][2]
    PROVE  EnterSound'
<1> USE DEF Remote, Common, LinuxInv, Works
<1>1. ASSUME NEW i \in 1..Len(keys'), keys'[i][1] \in Orders PROVE \E c : c = keys'[i][2] /\ MayEnter(c)'
  <2>1. i + n \in 1..Len(keys) /\ keys'[i] = keys[i + n]
    BY DEF Drops
  <2>2. PICK c : c = keys[i + n][2]
    OBVIOUS
  <2>3. MayEnter(c)
    BY <1>1, <2>1, <2>2 DEF EnterSound
  <2> QED BY <2>1, <2>2, <2>3 DEF MayEnter
<1>2. ASSUME NEW i \in 1..Len(keys'), keys'[i][1] = "arm" PROVE i < Len(keys') /\ Is(keys'[i + 1], "enter", keys'[i][2])
  <2>1. i + n \in 1..Len(keys) /\ keys'[i] = keys[i + n] /\ n \in Nat
    BY DEF Drops
  <2>2. i + n < Len(keys) /\ Is(keys[(i + n) + 1], "enter", keys[i + n][2])
    BY <1>2, <2>1 DEF EnterSound
  <2>3. (i + n) + 1 = (i + 1) + n /\ i < Len(keys') /\ i + 1 \in 1..Len(keys')
    BY <2>1, <2>2 DEF Drops
  <2>4. keys'[i + 1] = keys[(i + n) + 1]
    BY <2>3 DEF Drops
  <2> QED BY <2>1, <2>2, <2>3, <2>4
<1>3. ASSUME NEW i \in 1..Len(keys'), keys'[i][1] = "enter"
      PROVE  (i = 1 /\ at' = "prompt" /\ press' = keys'[i][2]) \/ (i > 1 /\ keys'[i - 1][1] = "arm")
  <2>1. i + n \in 1..Len(keys) /\ keys'[i] = keys[i + n] /\ n \in Nat
    BY DEF Drops
  <2>2. CASE i = 1
    BY <1>3, <2>1, <2>2
  <2>3. CASE i # 1
    <3>1. i > 1 /\ i + n # 1 /\ (i + n) - 1 = (i - 1) + n /\ i - 1 \in 1..Len(keys')
      BY <2>1, <2>3
    <3>2. keys[(i + n) - 1][1] = "arm"
      BY <1>3, <2>1, <3>1 DEF EnterSound
    <3>3. keys'[i - 1] = keys[(i - 1) + n]
      BY <3>1 DEF Drops
    <3> QED BY <3>1, <3>2, <3>3
  <2> QED BY <2>2, <2>3
<1>4. ASSUME NEW i \in 1..Len(keys'), NEW j \in 1..Len(keys'), keys'[i][1] = "enter", keys'[j][1] = "enter" PROVE i = j
  <2>1. i + n \in 1..Len(keys) /\ keys'[i] = keys[i + n] /\ j + n \in 1..Len(keys) /\ keys'[j] = keys[j + n] /\ n \in Nat
    BY DEF Drops
  <2>2. i + n = j + n
    BY <1>4, <2>1 DEF EnterSound
  <2> QED BY <2>1, <2>2
<1> QED BY <1>1, <1>2, <1>3, <1>4 DEF EnterSound, MayEnter, Is

\* Keys that tell nothing still do not when some are read.
LEMMA OrdersDrop == ASSUME NEW n, Drops(n), NoOrder PROVE NoOrder'
  BY DEF Drops, NoOrder

\* Once its Enter is read nothing else is told to run.
LEMMA FirstOrder == ASSUME Remote, NEW n, Drops(n), n # 0, keys[1][1] = "enter", 1 \in 1..Len(keys) PROVE NoOrder'
<1> USE DEF Remote, LinuxInv
<1>1. ASSUME NEW i \in 1..Len(keys'), keys'[i][1] \in Orders PROVE FALSE
  <2>1. i + n \in 1..Len(keys) /\ keys'[i] = keys[i + n] /\ n \in Nat /\ i + n # 1 /\ (i + n) + 1 # 1
    BY DEF Drops
  <2>2. keys[i + n][1] # "enter"
    BY <2>1 DEF EnterSound
  <2>3. keys[i + n][1] = "arm"
    BY <1>1, <2>1, <2>2 DEF Orders
  <2>4. i + n < Len(keys) /\ keys[(i + n) + 1][1] = "enter"
    BY <2>1, <2>3 DEF EnterSound, Is
  <2>5. (i + n) + 1 \in 1..Len(keys)
    BY <2>1, <2>4, KeyIs
  <2> QED BY <2>1, <2>4, <2>5 DEF EnterSound
<1> QED BY <1>1 DEF NoOrder

\* The line that stands before Enter is the same.
LEMMA OwnedTail ==
    ASSUME Drops(1), NEW c, NEW n \in Nat, n + 1 \in 1..Len(keys),
           keys[1][1] = "text" => line' = keys[1][2], keys[1][1] # "text" => line' \in {0, line},
           keys[1][1] \notin {"text", "clear", "^C"} => line' = line
    PROVE  (Owned(c, n + 1) => Owned(c, n)') /\ (Intact(c, n + 1) => Intact(c, n)')
<1>1. \A k \in 1..n : k \in 1..Len(keys') /\ k + 1 \in 1..n + 1 /\ keys'[k] = keys[k + 1]
  BY DEF Drops
<1>2. 1 \in 1..n + 1 /\ \A k \in 1..n + 1 : k # 1 => k - 1 \in 1..n /\ keys'[k - 1] = keys[k]
  <2>1. \A k \in 1..n + 1 : k # 1 => k - 1 \in 1..n /\ (k - 1) + 1 = k
    OBVIOUS
  <2> QED BY <1>1, <2>1
<1>3. ASSUME Owned(c, n + 1) PROVE Owned(c, n)'
  <2>1. CASE \E j \in 1..n + 1 : Is(keys[j], "text", c) /\ \A k \in j + 1..n + 1 : keys[k][1] # "text"
    <3>1. PICK j \in 1..n + 1 : Is(keys[j], "text", c) /\ \A k \in j + 1..n + 1 : keys[k][1] # "text"
      BY <2>1
    <3>2. CASE j = 1
      <4>1. \A k \in 1..n : k + 1 \in 2..n + 1
        OBVIOUS
      <4>2. \A k \in 1..n : keys'[k][1] # "text"
        BY <1>1, <3>1, <3>2, <4>1
      <4>3. line' = c
        BY <3>1, <3>2 DEF Is
      <4> QED BY <4>2, <4>3 DEF Owned
    <3>3. CASE j # 1
      <4>1. j - 1 \in 1..n /\ Is(keys'[j - 1], "text", c)
        BY <1>2, <3>1, <3>3
      <4>2. \A k \in (j - 1) + 1..n : k \in 1..n /\ k + 1 \in j + 1..n + 1
        BY <3>1, <3>3
      <4>3. \A k \in (j - 1) + 1..n : keys'[k][1] # "text"
        BY <1>1, <3>1, <4>2
      <4> QED BY <4>1, <4>3 DEF Owned, Is
    <3> QED BY <3>2, <3>3
  <2>2. CASE line \in {0, c} /\ \A k \in 1..n + 1 : keys[k][1] # "text"
    <3>1. line' \in {0, c} /\ \A k \in 1..n : keys'[k][1] # "text"
      BY <1>1, <1>2, <2>2
    <3> QED BY <3>1 DEF Owned
  <2> QED BY <1>3, <2>1, <2>2 DEF Owned
<1>4. ASSUME Intact(c, n + 1) PROVE Intact(c, n)'
  <2>1. CASE \E j \in 1..n + 1 : Is(keys[j], "text", c) /\ \A k \in j + 1..n + 1 : keys[k][1] \notin {"text", "clear", "^C"}
    <3>1. PICK j \in 1..n + 1 : Is(keys[j], "text", c) /\ \A k \in j + 1..n + 1 : keys[k][1] \notin {"text", "clear", "^C"}
      BY <2>1
    <3>2. CASE j = 1
      <4>1. \A k \in 1..n : k + 1 \in 2..n + 1
        OBVIOUS
      <4>2. \A k \in 1..n : keys'[k][1] \notin {"text", "clear", "^C"}
        BY <1>1, <3>1, <3>2, <4>1
      <4>3. line' = c
        BY <3>1, <3>2 DEF Is
      <4> QED BY <4>2, <4>3 DEF Intact
    <3>3. CASE j # 1
      <4>1. j - 1 \in 1..n /\ Is(keys'[j - 1], "text", c)
        BY <1>2, <3>1, <3>3
      <4>2. \A k \in (j - 1) + 1..n : k \in 1..n /\ k + 1 \in j + 1..n + 1
        BY <3>1, <3>3
      <4>3. \A k \in (j - 1) + 1..n : keys'[k][1] \notin {"text", "clear", "^C"}
        BY <1>1, <3>1, <4>2
      <4> QED BY <4>1, <4>3 DEF Intact, Is
    <3> QED BY <3>2, <3>3
  <2>2. CASE line = c /\ \A k \in 1..n + 1 : keys[k][1] \notin {"text", "clear", "^C"}
    <3>1. line' = c /\ \A k \in 1..n : keys'[k][1] \notin {"text", "clear", "^C"}
      BY <1>1, <1>2, <2>2
    <3> QED BY <3>1 DEF Intact
  <2> QED BY <1>4, <2>1, <2>2 DEF Intact
<1> QED BY <1>3, <1>4

\* Ctrl+C takes it away.
LEMMA OwnedSuffix ==
    ASSUME NEW d \in Nat, d # 0, Drops(d), keys[d][1] = "^C", line' = 0, NEW c, NEW n \in d..Len(keys)
    PROVE  (Owned(c, n) => Owned(c, n - d)') /\ (Intact(c, n) => Intact(c, n - d)')
<1>1. \A k \in 1..n - d : k \in 1..Len(keys') /\ k + d \in 1..n /\ keys'[k] = keys[k + d]
  BY DEF Drops
<1>2. \A k \in 1..n : k > d => k - d \in 1..n - d /\ keys'[k - d] = keys[k]
  <2>1. \A k \in 1..n : k > d => k - d \in 1..n - d /\ (k - d) + d = k
    OBVIOUS
  <2> QED BY <1>1, <2>1
<1>3. ASSUME NEW j \in 1..n, j > d
      PROVE  /\ j - d \in 1..n - d /\ keys'[j - d] = keys[j]
             /\ \A k \in (j - d) + 1..n - d : k + d \in j + 1..n /\ keys'[k] = keys[k + d]
  <2>1. \A k \in (j - d) + 1..n - d : k \in 1..n - d /\ k + d \in j + 1..n
    BY <1>3
  <2> QED BY <1>1, <1>2, <1>3, <2>1
<1>4. ASSUME Owned(c, n) PROVE Owned(c, n - d)'
  <2>1. CASE \E j \in 1..n : Is(keys[j], "text", c) /\ \A k \in j + 1..n : keys[k][1] # "text"
    <3>1. PICK j \in 1..n : Is(keys[j], "text", c) /\ \A k \in j + 1..n : keys[k][1] # "text"
      BY <2>1
    <3>2. CASE j > d
      <4>1. j - d \in 1..n - d /\ Is(keys'[j - d], "text", c) /\ \A k \in (j - d) + 1..n - d : keys'[k][1] # "text"
        BY <1>3, <3>1, <3>2
      <4> QED BY <4>1 DEF Owned, Is
    <3>3. CASE ~(j > d)
      <4>1. \A k \in 1..n - d : k + d \in j + 1..n
        BY <3>3
      <4>2. \A k \in 1..n - d : keys'[k][1] # "text"
        BY <1>1, <3>1, <4>1
      <4> QED BY <4>2 DEF Owned
    <3> QED BY <3>2, <3>3
  <2>2. CASE \A k \in 1..n : keys[k][1] # "text"
    <3>1. \A k \in 1..n - d : keys'[k][1] # "text"
      BY <1>1, <2>2
    <3> QED BY <3>1 DEF Owned
  <2> QED BY <1>4, <2>1, <2>2 DEF Owned
<1>5. ASSUME Intact(c, n) PROVE Intact(c, n - d)'
  <2>0. d \in 1..n
    OBVIOUS
  <2>1. PICK j \in 1..n : Is(keys[j], "text", c) /\ \A k \in j + 1..n : keys[k][1] \notin {"text", "clear", "^C"}
    BY <1>5, <2>0 DEF Intact
  <2>2. j > d
    <3>1. j # d
      BY <2>1 DEF Is
    <3>2. ~(j < d)
      <4>1. j < d => d \in j + 1..n
        BY <2>0
      <4> QED BY <2>1, <4>1
    <3> QED BY <3>1, <3>2
  <2>3. j - d \in 1..n - d /\ Is(keys'[j - d], "text", c) /\ \A k \in (j - d) + 1..n - d : keys'[k][1] \notin {"text", "clear", "^C"}
    BY <1>3, <2>1, <2>2
  <2> QED BY <2>3 DEF Intact, Is
<1> QED BY <1>4, <1>5

\* The command of F12 and Enter was told to run.
LEMMA MayPress == ASSUME Remote, NEW c, MayEnter(c) PROVE c \in Commands /\ c <= Pressed /\ c # 0 /\ (active # 0 => c = cmd /\ step = "waiting")
<1> USE DEF Remote, Common
<1>1. c \in Nat /\ c # 0 /\ cmd \in Nat
  BY NumbersAre, CommandsAre DEF MayEnter
<1>2. c <= Pressed
  BY <1>1 DEF MayEnter, Pressed
<1> QED BY <1>1, <1>2 DEF MayEnter, ClientSound, Kept

\* bash reads a key that tells it nothing.
LEMMA TextDrops ==
    ASSUME Remote, Works, Drops(1), Head(keys) = keys[1], 1 \in 1..Len(keys), at = "prompt", at' = "prompt",
           keys[1][1] \in {"text", "clear", "arm"},
           keys[1][1] = "text" => line' = keys[1][2], keys[1][1] # "text" => line' \in {0, line},
           keys[1][1] = "arm" => line' = line
    PROVE  TextSound'
<1> USE DEF Remote, Common, LinuxInv, Works
<1>1. Excused' <=> Excused
  BY DEF Excused
<1>2. ASSUME step \in {"prepared", "installed"}
      PROVE  \E c, n : c = cmd' /\ n = Len(keys') /\ Owned(c, n)' /\ (Excused' \/ Intact(c, n)')
  <2>1. PICK c, n : c = cmd /\ n = Len(keys')
    OBVIOUS
  <2>2. n \in Nat /\ n + 1 = Len(keys) /\ n + 1 \in 1..Len(keys)
    BY <2>1 DEF Drops
  <2>3. Owned(c, n + 1) /\ (Excused \/ Intact(c, n + 1))
    BY <1>2, <2>1, <2>2 DEF TextSound, Alive
  <2>4. Owned(c, n)' /\ (Intact(c, n + 1) => Intact(c, n)')
    BY <2>2, <2>3, OwnedTail
  <2> QED BY <1>1, <2>1, <2>3, <2>4
<1>3. ASSUME NEW i \in 1..Len(keys'), keys'[i][1] = "enter"
      PROVE  \E c, d, n : /\ c = keys'[i][2] /\ n = i - 1 /\ d = cmd' /\ Owned(c, n)'
                          /\ active' # 0 => Excused' \/ (Intact(d, n)' /\ \A j \in i + 1..Len(keys') : keys'[j][1] # "^C")
  <2>1. i + 1 \in 1..Len(keys) /\ keys'[i] = keys[i + 1] /\ i \in 1..Len(keys)
    BY DEF Drops
  <2>2. PICK c, d, n : c = keys[i + 1][2] /\ n = i - 1 /\ d = cmd
    OBVIOUS
  <2>3. n \in Nat /\ n + 1 = i /\ (i + 1) - 1 = n + 1 /\ n + 1 \in 1..Len(keys)
    BY <2>1, <2>2
  <2>4. /\ Owned(c, n + 1)
        /\ active # 0 => Excused \/ (Intact(d, n + 1) /\ \A j \in (i + 1) + 1..Len(keys) : keys[j][1] # "^C")
    BY <1>3, <2>1, <2>2, <2>3 DEF TextSound
  <2>5. Owned(c, n)' /\ (Intact(d, n + 1) => Intact(d, n)')
    BY <2>3, <2>4, OwnedTail
  <2>6. \A j \in i + 1..Len(keys') : j + 1 \in (i + 1) + 1..Len(keys) /\ keys'[j] = keys[j + 1]
    BY DEF Drops
  <2> QED BY <1>1, <2>1, <2>2, <2>4, <2>5, <2>6
<1> QED BY <1>2, <1>3, TextIs

\* Another prompt is drawn.
MorePty(t) ==
    /\ Len(pty) \in Nat /\ Len(pty') = Len(pty) + 1
    /\ \A i \in 1..Len(pty) : pty'[i] = pty[i]
    /\ pty'[Len(pty) + 1] = t
    /\ \A i \in 1..Len(pty') : (i \in 1..Len(pty) /\ pty'[i] = pty[i]) \/ (i = Len(pty) + 1 /\ pty'[i] = t)

\* Something is written.
LEMMA MoreWritten == ASSUME TypeOK, NEW t, pty' = Append(pty, t) \/ pty' = pty \o <<t>> PROVE MorePty(t)
<1>1. pty \in Seq(Tokens)
  BY TypesAre DEF WiresTyped
<1>2. /\ Len(pty) \in Nat /\ Len(pty') = Len(pty) + 1
      /\ \A i \in 1..Len(pty) : pty'[i] = pty[i]
      /\ pty'[Len(pty) + 1] = t
  BY <1>1
<1>3. \A i \in 1..Len(pty') : i \in 1..Len(pty) \/ i = Len(pty) + 1
  BY <1>2
<1> QED BY <1>2, <1>3 DEF MorePty

\* bash reads text, clears the line or is armed.
LEMMA ReadTextKeeps == ASSUME Remote, ReadText PROVE Common' /\ LinuxInv'
<1> USE DEF Remote, Common, LinuxInv
<1>1. /\ Works /\ Drops(1) /\ 1 \in 1..Len(keys) /\ Head(keys) = keys[1] /\ keys[1][1] \in {"text", "clear", "arm"}
      /\ at = "prompt" /\ at' = "prompt" /\ prog' = prog /\ ran' = ran /\ ended' = ended
  BY TailDrops DEF ReadText, Works
<1>2. /\ keys[1][1] = "text" => line' = keys[1][2]
      /\ keys[1][1] = "clear" => line' = 0
      /\ keys[1][1] = "arm" => line' = line /\ press' = keys[1][2] /\ pty' = Append(pty, PromptMark)
      /\ keys[1][1] # "arm" => press' = press /\ pty' = pty
  BY <1>1 DEF ReadText
<1>3. /\ ClientSound' /\ ResultsSound' /\ Typed' = Typed /\ Pressed' = Pressed /\ Typed \in Nat /\ Pressed \in Nat
      /\ (Excused' <=> Excused)
  BY <1>1, WorksRest
<1>4. KeysTyped'
  <2>1. \A i \in 1..Len(keys') : \E j \in 1..Len(keys) : keys'[i] = keys[j]
    BY <1>1 DEF Drops
  <2>2. keys[1][1] = "text" => keys[1][2] \in 1..Typed
    BY <1>1 DEF KeysTyped
  <2>3. line' \in {0, line} \cup (1..Typed')
    BY <1>1, <1>2, <1>3, <2>2
  <2> QED BY <1>3, <2>1, <2>3, KeysTypedKept
<1>5. press = 0
  BY <1>1 DEF BashSound, Is
<1>6. keys[1][1] = "arm" => 2 \in 1..Len(keys) /\ Is(keys[2], "enter", keys[1][2]) /\ MayEnter(keys[1][2])
  BY <1>1, KeyIs DEF EnterSound, Orders
<1>7. EnterSound'
  <2>1. ASSUME NEW i \in 1..Len(keys), keys[i][1] = "enter", i = 1 + 1 PROVE press' = keys[i][2]
    <3>1. keys[2 - 1][1] = "arm"
      BY <1>1, <2>1 DEF EnterSound
    <3> QED BY <1>2, <1>6, <2>1, <3>1 DEF Is
  <2> QED BY <1>1, <2>1, DropsOrders
<1>8. BashSound'
  <2>1. CASE keys[1][1] = "arm"
    <3>1. PICK c : c = keys[1][2]
      OBVIOUS
    <3>2. c <= Pressed
      BY <1>6, <2>1, <3>1, MayPress
    <3>3. 1 \in 1..Len(keys') /\ keys'[1] = keys[2] /\ keys' # <<>>
      <4>1. 2 \in 1 + 1..Len(keys) /\ 2 - 1 = 1
        BY <1>6, <2>1
      <4>2. 1 \in 1..Len(keys') /\ keys[2] = keys'[1]
        BY <1>1, <4>1 DEF Drops
      <4> QED BY <4>2
    <3> QED BY <1>1, <1>2, <1>3, <1>6, <2>1, <3>1, <3>2, <3>3 DEF BashSound, Is
  <2>2. CASE keys[1][1] # "arm"
    BY <1>1, <1>2, <1>3, <1>5, <2>2 DEF BashSound
  <2> QED BY <2>1, <2>2
<1>9. TextSound'
  BY <1>1, <1>2, TextDrops
<1>10. NoOrder => NoOrder' /\ keys[1][1] # "arm"
  BY <1>1, OrdersDrop DEF NoOrder, Orders
<1>11. OnlyPrompts => OnlyPrompts'
  <2>1. CASE keys[1][1] = "arm"
    <3>1. MorePty(PromptMark)
      BY <1>2, <2>1, MoreWritten
    <3> QED BY <3>1 DEF MorePty, OnlyPrompts
  <2>2. CASE keys[1][1] # "arm"
    BY <1>2, <2>2 DEF OnlyPrompts
  <2> QED BY <2>1, <2>2
<1>12. Begun' <=> Begun
  <2>1. CASE keys[1][1] = "arm"
    <3>1. MorePty(PromptMark)
      BY <1>2, <2>1, MoreWritten
    <3> QED BY <1>1, <3>1, MarkKinds DEF MorePty, Begun, Works
  <2>2. CASE keys[1][1] # "arm"
    BY <1>1, <1>2, <2>2 DEF Begun, Works
  <2> QED BY <2>1, <2>2
<1>13. PhaseSound'
  <2>1. Settled' => Quiet'
    BY <1>1, <1>2, <1>5, <1>10, <1>11 DEF PhaseSound, Settled, Quiet, Alive, Works
  <2>2. Begun /\ active # 0 => NoOrder' /\ press' = 0
    BY <1>2, <1>5, <1>10 DEF PhaseSound
  <2> QED BY <1>1, <1>10, <1>11, <1>12, <2>1, <2>2 DEF PhaseSound, Kept, Alive, Works, Fair
<1>14. MarksSound'
  <2>1. CASE active # 0 /\ keys[1][1] = "arm"
    <3>1. ~NoOrder
      BY <1>10, <2>1
    <3>2. ~Begun /\ x.phase = "begin" /\ OnlyPrompts
      BY <2>1, <3>1 DEF PhaseSound, Begun
    <3>3. \A i \in 1..Len(pty') : pty'[i] = PromptMark
      BY <1>11, <3>2 DEF OnlyPrompts
    <3> QED BY <1>1, <3>2, <3>3, MarkKinds DEF MarksSound, Works
  <2>2. CASE active # 0 /\ keys[1][1] # "arm"
    BY <1>1, <1>2, <1>3, <2>2, MarksFrame DEF Works
  <2>3. CASE active = 0
    BY <1>1, <2>3 DEF MarksSound, Works
  <2> QED BY <2>1, <2>2, <2>3
<1> QED BY <1>3, <1>4, <1>7, <1>8, <1>9, <1>13, <1>14

\* The traps are armed: Enter comes next, and nothing of the command has come.
LEMMA PressedIs ==
    ASSUME Remote, at = "prompt", press # 0
    PROVE  /\ 1 \in 1..Len(keys) /\ Is(keys[1], "enter", press) /\ MayEnter(press) /\ ~NoOrder
           /\ ~Settled /\ step \in {"idle", "waiting"}
           /\ active # 0 => ~Begun /\ OnlyPrompts /\ x.phase = "begin"
<1> USE DEF Remote, LinuxInv
<1>1. 1 \in 1..Len(keys) /\ Is(keys[1], "enter", press)
  BY KeyIs DEF BashSound
<1>2. ~NoOrder
  BY <1>1 DEF NoOrder, Orders, Is
<1>3. MayEnter(keys[1][2]) /\ keys[1][2] = press
  BY <1>1 DEF EnterSound, Is, Orders
<1>4. ~Settled
  BY <1>2 DEF PhaseSound, Quiet
<1>5. active # 0 => ~Begun /\ OnlyPrompts
  BY <1>2 DEF PhaseSound
<1> QED BY <1>1, <1>2, <1>3, <1>4, <1>5 DEF MayEnter, Begun

\* The prompt command of a line that ran nothing.
CycleIs(s) ==
    /\ Len(pty) \in Nat /\ Len(pty') = Len(pty) + 3
    /\ \A i \in 1..Len(pty) : pty'[i] = pty[i]
    /\ pty'[Len(pty) + 1] = BeginMark /\ pty'[Len(pty) + 2] = s /\ pty'[Len(pty) + 3] = PromptMark
    /\ \A i \in 1..Len(pty') : i \in 1..Len(pty) \/ i = Len(pty) + 1 \/ i = Len(pty) + 2 \/ i = Len(pty) + 3

\* It writes all three marks.
LEMMA CycleWrites == ASSUME TypeOK, press # 0, PromptCycle("ok", FALSE) PROVE CycleIs(StatusMark("ok"))
<1>1. pty \in Seq(Tokens) /\ Len(pty) \in Nat
  BY TokenIs
<1>2. PICK b, s, p \in Tokens : b = BeginMark /\ s = StatusMark("ok") /\ p = PromptMark
  BY MarksAre
<1>5. PICK q : q = <<b>> \o <<s>>
  OBVIOUS
<1>6. q \in Seq(Tokens) /\ Len(q) = 2 /\ q[1] = b /\ q[2] = s
  <2>1. <<b>> \in Seq(Tokens) /\ <<s>> \in Seq(Tokens) /\ Len(<<b>>) = 1 /\ Len(<<s>>) = 1
    OBVIOUS
  <2> QED BY <1>5, <2>1, ConcatProperties
<1>7. PICK r : r = q \o <<p>>
  OBVIOUS
<1>8. r \in Seq(Tokens) /\ Len(r) = 3 /\ r[1] = b /\ r[2] = s /\ r[3] = p
  <2>1. <<p>> \in Seq(Tokens) /\ Len(<<p>>) = 1 /\ <<p>>[1] = p
    OBVIOUS
  <2>2. r \in Seq(Tokens) /\ Len(r) = 3 /\ \A i \in 1..3 : r[i] = IF i <= 2 THEN q[i] ELSE <<p>>[i - 2]
    BY <1>6, <1>7, <2>1, ConcatProperties
  <2> QED BY <1>6, <2>1, <2>2
<1>9. pty' = pty \o r
  BY <1>2, <1>5, <1>7 DEF PromptCycle
<1>3. /\ Len(pty') = Len(pty) + 3
      /\ \A i \in 1..Len(pty) : pty'[i] = pty[i]
      /\ pty'[Len(pty) + 1] = BeginMark /\ pty'[Len(pty) + 2] = StatusMark("ok") /\ pty'[Len(pty) + 3] = PromptMark
  <2>1. /\ Len(pty') = Len(pty) + 3
        /\ \A i \in 1..Len(pty) + 3 : pty'[i] = IF i <= Len(pty) THEN pty[i] ELSE r[i - Len(pty)]
    <3>1. PICK u \in Seq(Tokens) : u = pty /\ Len(u) \in Nat
      BY <1>1
    <3>2. PICK w : w = u \o r
      OBVIOUS
    <3>3. /\ Len(w) = Len(u) + Len(r)
          /\ \A i \in 1..Len(u) + Len(r) : w[i] = IF i <= Len(u) THEN u[i] ELSE r[i - Len(u)]
      BY <1>8, <3>2, ConcatProperties
    <3>4. pty' = w
      BY <1>9, <3>1, <3>2
    <3>5. Len(r) = 3
      BY <1>8
    <3> QED BY <3>1, <3>3, <3>4, <3>5
  <2>2. /\ pty'[Len(pty) + 1] = r[1] /\ pty'[Len(pty) + 2] = r[2] /\ pty'[Len(pty) + 3] = r[3]
        /\ \A i \in 1..Len(pty) : pty'[i] = pty[i]
    BY <1>1, <2>1
  <2> QED BY <1>2, <1>8, <2>1, <2>2
<1>4. \A i \in 1..Len(pty') : i \in 1..Len(pty) \/ i = Len(pty) + 1 \/ i = Len(pty) + 2 \/ i = Len(pty) + 3
  BY <1>1, <1>3
<1> QED BY <1>1, <1>3, <1>4 DEF CycleIs

\* An empty line, or Ctrl+C between F12 and Enter.
LEMMA CycleKeeps ==
    ASSUME Remote, Works, at = "prompt", press # 0, PromptCycle("ok", FALSE), line' = 0, ran' = ran, ended' = ended,
           NEW n, n # 0, Drops(n), active # 0 => Excused
    PROVE  Common' /\ LinuxInv'
<1> USE DEF Remote, Common, LinuxInv
<1>1. at' = "prompt" /\ press' = 0 /\ CycleIs(StatusMark("ok"))
  BY CycleWrites DEF PromptCycle
<1>2. /\ 1 \in 1..Len(keys) /\ keys[1][1] = "enter" /\ ~NoOrder /\ ~Settled /\ step \in {"idle", "waiting"}
      /\ active # 0 => ~Begun /\ OnlyPrompts /\ x.phase = "begin"
  BY PressedIs DEF Is
<1>3. NoOrder'
  BY <1>2, FirstOrder
<1>4. /\ ClientSound' /\ ResultsSound' /\ KeysTyped' /\ Typed' = Typed /\ Pressed' = Pressed /\ Typed \in Nat /\ Pressed \in Nat
      /\ (Excused' <=> Excused)
  BY <1>1, WorksRest
<1>5. EnterSound' /\ TextSound'
  BY <1>2, <1>3 DEF EnterSound, TextSound, NoOrder, Orders, Works
<1>6. BashSound'
  BY <1>1, <1>4 DEF BashSound
<1>7. PhaseSound'
  <2>1. ~Settled'
    BY <1>1, <1>2 DEF Settled, Alive, Works
  <2>2. active # 0 => Begun'
    <3>1. Len(pty) + 1 \in 1..Len(pty') /\ pty'[Len(pty) + 1] = BeginMark
      BY <1>1 DEF CycleIs
    <3> QED BY <3>1 DEF Begun
  <2> QED BY <1>1, <1>2, <1>3, <2>1, <2>2 DEF PhaseSound, Kept, Works, Fair
<1>8. MarksSound'
  <2>1. CASE active = 0
    BY <2>1 DEF MarksSound, Works
  <2>2. CASE active # 0
    <3>1. \A i \in 1..Len(pty) : pty'[i] = PromptMark
      BY <1>1, <1>2, <2>2 DEF OnlyPrompts, CycleIs
    <3>2. \A i \in 1..Len(pty') : pty'[i] = BeginMark => i = Len(pty) + 1
      BY <1>1, <3>1, MarkKinds DEF CycleIs, Statuses
    <3>3. \A i \in 1..Len(pty') : pty'[i][1] \in Statuses => i = Len(pty) + 2
      BY <1>1, <3>1, MarkKinds DEF CycleIs, Statuses
    <3>4. \A i \in 1..Len(pty') : pty'[i] = PromptMark /\ i > Len(pty) + 1 => i = Len(pty) + 3
      BY <1>1, <3>1, MarkKinds DEF CycleIs, Statuses
    <3>5. \A i, j, k \in 1..Len(pty') : i < j /\ j < k /\ pty'[i] = BeginMark /\ pty'[j] = PromptMark => pty'[k] = PromptMark
      BY <1>1, <3>2, <3>4 DEF CycleIs
    <3>6. \A i, j \in 1..Len(pty') : i < j /\ pty'[i][1] \in Statuses => pty'[j] = PromptMark
      BY <1>1, <3>3 DEF CycleIs
    <3>7. x'.phase = "begin" /\ at' # "running" /\ Excused'
      BY <1>1, <1>2, <1>4, <2>2 DEF Works
    <3> QED BY <3>5, <3>6, <3>7 DEF MarksSound, Excused
  <2> QED BY <2>1, <2>2
<1> QED BY <1>4, <1>5, <1>6, <1>7, <1>8

\* The line runs, and it is that of the command that Enter is of.
LEMMA ReadEnterKeeps == ASSUME Remote, ReadEnter PROVE Common' /\ LinuxInv'
<1> USE DEF Remote, Common, LinuxInv
<1>1. /\ Works /\ Drops(1) /\ 1 \in 1..Len(keys) /\ Head(keys) = keys[1] /\ keys[1][1] = "enter"
      /\ at = "prompt" /\ at' \in {"prompt", "running"} /\ line' = 0 /\ prog' = line
      /\ UNCHANGED <<printed, ended>>
  BY TailDrops DEF ReadEnter, Works, Run, PromptCycle
<1>2. press = keys[1][2]
  BY <1>1 DEF EnterSound
<1>3. /\ MayEnter(press) /\ press \in Commands /\ press <= Pressed /\ press # 0
      /\ (active # 0 => press = cmd)
  <2>1. PICK c : c = keys[1][2]
    OBVIOUS
  <2>2. MayEnter(c)
    BY <1>1, <2>1 DEF EnterSound, Orders
  <2> QED BY <1>2, <2>1, <2>2, MayPress
<1>4. line \in {0, press} /\ (active # 0 => Excused \/ line = cmd)
  <2>1. \A j : j \notin 1..1 - 1
    OBVIOUS
  <2>2. Owned(press, 1 - 1) /\ (active # 0 => Excused \/ Intact(cmd, 1 - 1))
    BY <1>1, <1>2 DEF TextSound
  <2> QED BY <2>1, <2>2 DEF Owned, Intact
<1>5. CASE line = 0
  <2>1. PromptCycle("ok", FALSE) /\ ran' = ran
    BY <1>5 DEF ReadEnter, Run
  <2>2. active # 0 => Excused
    BY <1>3, <1>4, <1>5
  <2> QED BY <1>1, <1>3, <2>1, <2>2, CycleKeeps
<1>6. CASE line # 0
  <2>1. /\ line = press /\ at' = "running" /\ press' = press /\ pty' = Append(pty, BeginMark)
        /\ ran' = [ran EXCEPT ![press] = @ + 1] /\ prog' = press
    BY <1>1, <1>3, <1>4, <1>6 DEF ReadEnter, Run
  <2>2. ran' = [ran EXCEPT ![press] = 1] /\ ran'[press] = 1 /\ ran[press] = 0 /\ \A c \in Commands : c # press => ran'[c] = ran[c]
    BY <1>3, <2>1, NumbersToo DEF MayEnter
  <2>3. MorePty(BeginMark)
    BY <2>1, MoreWritten
  <2>4. /\ 1 \in 1..Len(keys) /\ keys[1][1] = "enter" /\ ~NoOrder /\ ~Settled /\ step \in {"idle", "waiting"}
        /\ active # 0 => ~Begun /\ OnlyPrompts /\ x.phase = "begin"
    BY <1>1, <1>3, PressedIs DEF Is
  <2>5. NoOrder'
    BY <1>1, FirstOrder
  <2>6. /\ ClientSound' /\ KeysTyped' /\ Typed' = Typed /\ Pressed' = Pressed /\ Typed \in Nat /\ Pressed \in Nat
        /\ (Excused' <=> Excused)
    BY <1>1, WorksRest
  <2>7. ResultsSound'
    <3>1. result[press] # "unprepared" /\ (Told(press) => press \in disturbed)
      BY <1>3, <2>2 DEF MayEnter, ResultsSound
    <3>2. ASSUME NEW c \in Commands
          PROVE  /\ ran'[c] <= 1
                 /\ ran'[c] > 0 => c <= Pressed' /\ result'[c] # "unprepared"
                 /\ c >= cmd' => result'[c] = "none"
                 /\ Told(c) /\ c \notin disturbed => ran'[c] = 1 /\ c \in ended
      <4>1. UNCHANGED <<result, cmd, ended>> /\ Pressed' = Pressed
        BY <1>1, <2>6 DEF Works
      <4>2. CASE c = press
        BY <1>3, <2>2, <3>1, <4>1, <4>2 DEF ResultsSound
      <4>3. CASE c # press
        BY <2>2, <4>1, <4>3 DEF ResultsSound
      <4> QED BY <4>2, <4>3
    <3> QED BY <1>1, <3>2 DEF ResultsSound, Told, Works
  <2>8. EnterSound' /\ TextSound'
    BY <1>1, <2>4, <2>5 DEF EnterSound, TextSound, NoOrder, Orders, Works
  <2>9. BashSound'
    BY <1>3, <2>1, <2>2, <2>6 DEF BashSound
  <2>10. Fair => Fair'
    BY <1>1, <2>2, <1>3, NumbersToo DEF Fair, Works
  <2>11. PhaseSound'
    <3>1. ~Settled'
      BY <1>1, <2>1, <2>4 DEF Settled, Alive, Works
    <3>2. active # 0 => Begun'
      BY <2>3 DEF Begun, MorePty
    <3> QED BY <1>1, <1>3, <2>1, <2>4, <2>5, <2>10, <3>1, <3>2 DEF PhaseSound, Kept, Works
  <2>12. MarksSound'
    <3>1. CASE active = 0
      BY <1>1, <3>1 DEF MarksSound, Works
    <3>2. CASE active # 0
      <4>1. Len(pty) + 1 \in 1..Len(pty') /\ pty'[Len(pty) + 1] = BeginMark /\ Len(pty') = Len(pty) + 1 /\ Len(pty) \in Nat
        BY <2>3 DEF MorePty
      <4>2. \A i \in 1..Len(pty) : pty'[i] = PromptMark
        BY <2>3, <2>4, <3>2 DEF OnlyPrompts, MorePty
      <4>3. \A i \in 1..Len(pty') : i = Len(pty) + 1 \/ pty'[i] = PromptMark
        BY <2>3, <4>2 DEF MorePty
      <4>4. \A i \in 1..Len(pty') : pty'[i][1] \notin Statuses
        BY <4>1, <4>3, MarkKinds
      <4>5. \A j \in 1..(Len(pty) + 1) - 1 : pty'[j] = PromptMark
        BY <4>1, <4>2
      <4>6. \A j : j \notin (Len(pty) + 1) + 1..Len(pty')
        BY <4>1
      <4>7. \A i \in 1..Len(pty') : pty'[i] = BeginMark => i = Len(pty')
        BY <4>1, <4>3, MarkKinds
      <4>8. \A i, j, k \in 1..Len(pty') : i < j /\ j < k /\ pty'[i] = BeginMark /\ pty'[j] = PromptMark => pty'[k] = PromptMark
        BY <4>1, <4>7
      <4>9. x'.phase = "begin"
        BY <1>1, <2>4, <3>2 DEF Works
      <4> QED BY <4>1, <4>4, <4>5, <4>6, <4>8, <4>9 DEF MarksSound
    <3> QED BY <3>1, <3>2
  <2> QED BY <2>6, <2>7, <2>8, <2>9, <2>11, <2>12
<1> QED BY <1>5, <1>6

\* While a program runs nothing is told to run, and no status is written.
LEMMA RunningIs ==
    ASSUME Remote, at = "running"
    PROVE  /\ NoOrder /\ ~Settled /\ step \notin {"prepared", "installed"}
           /\ prog \in Commands /\ prog <= Pressed /\ press = prog /\ ran[prog] = 1
           /\ active # 0 => /\ Begun /\ prog = cmd /\ x.phase \in {"begin", "capture"}
                            /\ \A i \in 1..Len(pty) : pty[i][1] \notin Statuses
<1> USE DEF Remote, LinuxInv
<1>1. ASSUME NEW i \in 1..Len(keys), keys[i][1] \in Orders PROVE FALSE
  <2>1. PICK c : c = keys[i][2]
    OBVIOUS
  <2>2. MayEnter(c)
    BY <1>1, <2>1 DEF EnterSound
  <2> QED BY <2>2 DEF MayEnter
<1>2. ~Settled /\ step \notin {"prepared", "installed"}
  BY DEF PhaseSound, Settled, Quiet
<1>3. ASSUME active # 0 PROVE \A i \in 1..Len(pty) : pty[i][1] \notin Statuses
  <2>1. CASE x.phase = "capture"
    BY <1>3, <2>1, MarkKinds DEF MarksSound
  <2>2. CASE x.phase = "begin"
    <3>1. PICK i \in 1..Len(pty) : /\ pty[i] = BeginMark /\ \A j \in 1..i - 1 : pty[j] = PromptMark
                                   /\ \A j \in i + 1..Len(pty) : pty[j][1] \in Pieces
      BY <1>3, <2>2 DEF MarksSound
    <3>2. \A j \in 1..Len(pty) : j = i \/ j \in 1..i - 1 \/ j \in i + 1..Len(pty)
      OBVIOUS
    <3> QED BY <3>1, <3>2, MarkKinds
  <2> QED BY <1>3, <2>1, <2>2 DEF PhaseSound
<1> QED BY <1>1, <1>2, <1>3 DEF NoOrder, BashSound, PhaseSound

\* The prompt, and before it perhaps the status.
EndIs ==
    /\ Len(pty) \in Nat /\ Len(pty') \in Nat /\ Len(pty') > Len(pty) /\ pty'[Len(pty')] = PromptMark
    /\ \A i \in 1..Len(pty) : pty'[i] = pty[i]
    /\ \A i \in 1..Len(pty') :
          \/ i \in 1..Len(pty)
          \/ i = Len(pty')
          \/ i = Len(pty') - 1 /\ pty'[i][1] \in Statuses

\* The end of a program writes that.
LEMMA EndWritten ==
    ASSUME TypeOK, press # 0, NEW how \in Statuses, PromptCycle(how, TRUE) \/ pty' = Append(pty, PromptMark)
    PROVE  EndIs
<1>1. pty \in Seq(Tokens) /\ Len(pty) \in Nat
  BY TokenIs
<1>2. CASE pty' = Append(pty, PromptMark)
  <2>1. MorePty(PromptMark)
    BY <1>2, MoreWritten
  <2> QED BY <2>1 DEF MorePty, EndIs
<1>3. CASE PromptCycle(how, TRUE)
  <2>1. PICK s, p \in Tokens : s = StatusMark(how) /\ p = PromptMark
    BY MarksAre DEF Statuses
  <2>2. pty' = pty \o ((<<>> \o <<s>>) \o <<p>>)
    BY <1>3, <2>1 DEF PromptCycle
  <2>3. <<>> \o <<s>> = <<s>>
    <3>1. <<s>> \in Seq(Tokens)
      OBVIOUS
    <3> QED BY <3>1, ConcatEmptySeq
  <2>4. PICK r : r = <<s>> \o <<p>>
    OBVIOUS
  <2>5. r \in Seq(Tokens) /\ Len(r) = 2 /\ r[1] = s /\ r[2] = p
    <3>1. <<s>> \in Seq(Tokens) /\ <<p>> \in Seq(Tokens) /\ Len(<<s>>) = 1 /\ Len(<<p>>) = 1
      OBVIOUS
    <3> QED BY <2>4, <3>1, ConcatProperties
  <2>6. PICK u \in Seq(Tokens) : u = pty /\ Len(u) \in Nat
    BY <1>1
  <2>7. PICK w : w = u \o r
    OBVIOUS
  <2>8. /\ Len(w) = Len(u) + Len(r)
        /\ \A i \in 1..Len(u) + Len(r) : w[i] = IF i <= Len(u) THEN u[i] ELSE r[i - Len(u)]
    BY <2>5, <2>7, ConcatProperties
  <2>9. pty' = w
    BY <2>2, <2>3, <2>4, <2>6, <2>7
  <2>10. /\ Len(pty') = Len(pty) + 2 /\ \A i \in 1..Len(pty) : pty'[i] = pty[i]
         /\ pty'[Len(pty) + 1] = s /\ pty'[Len(pty) + 2] = p
    BY <2>5, <2>6, <2>8, <2>9
  <2>11. s[1] \in Statuses
    BY <2>1, MarkKinds
  <2>12. \A i \in 1..Len(pty') : i \in 1..Len(pty) \/ i = Len(pty) + 1 \/ i = Len(pty) + 2
    BY <1>1, <2>10
  <2> QED BY <1>1, <2>1, <2>10, <2>11, <2>12 DEF EndIs
<1> QED BY <1>2, <1>3

\* A program ends, by itself or by Ctrl+C.
LEMMA StopsKeep ==
    ASSUME Remote, Works, at = "running", at' = "prompt", press' = 0, ran' = ran, ended' = ended \cup {prog},
           line' \in {0, line}, NEW n, Drops(n), EndIs
    PROVE  Common' /\ LinuxInv'
<1> USE DEF Remote, Common, LinuxInv
<1>1. /\ NoOrder /\ ~Settled /\ step \notin {"prepared", "installed"} /\ prog \in Commands /\ ran[prog] = 1
      /\ active # 0 => /\ Begun /\ prog = cmd /\ x.phase \in {"begin", "capture"}
                       /\ \A i \in 1..Len(pty) : pty[i][1] \notin Statuses
  BY RunningIs
<1>2. NoOrder'
  BY <1>1, OrdersDrop
<1>3. /\ ClientSound' /\ ResultsSound' /\ KeysTyped' /\ Typed' = Typed /\ Pressed' = Pressed /\ Typed \in Nat /\ Pressed \in Nat
      /\ (Excused' <=> Excused)
  BY <1>1, WorksRest
<1>4. EnterSound' /\ TextSound'
  BY <1>1, <1>2 DEF EnterSound, TextSound, NoOrder, Orders, Works
<1>5. BashSound'
  BY <1>3 DEF BashSound
<1>6. (Fair => Fair') /\ (active # 0 => Fair')
  BY <1>1 DEF Fair, Works
<1>7. PhaseSound'
  <2>1. ~Settled'
    BY <1>1 DEF Settled, Alive, Works
  <2>2. active # 0 => Begun'
    BY <1>1 DEF EndIs, Begun, Works
  <2> QED BY <1>1, <1>2, <1>6, <2>1, <2>2 DEF PhaseSound, Kept, Works
<1>8. MarksSound'
  <2>1. CASE active = 0
    BY <2>1 DEF MarksSound, Works
  <2>2. CASE active # 0
    <3> DEFINE m == Len(pty')
    <3>1. \A i \in 1..m : pty'[i][1] \in Statuses => i = m - 1
      BY <1>1, <2>2, MarkKinds DEF EndIs
    <3>2. \A i, j \in 1..m : i < j /\ pty'[i][1] \in Statuses => pty'[j] = PromptMark
      BY <3>1 DEF EndIs
    <3>3. ASSUME x.phase = "capture", NEW i \in 1..m, pty'[i] = PromptMark PROVE i = m
      <4>1. \A j \in 1..Len(pty) : pty[j] # PromptMark
        BY <2>2, <3>3, MarkKinds DEF MarksSound
      <4> QED BY <3>3, <4>1, MarkKinds DEF EndIs
    <3>4. ASSUME x.phase = "begin", NEW i \in 1..m, NEW j \in 1..m, i < j, pty'[i] = BeginMark, pty'[j] = PromptMark PROVE j = m
      <4>1. PICK b \in 1..Len(pty) : /\ pty[b] = BeginMark /\ \A h \in 1..b - 1 : pty[h] = PromptMark
                                     /\ \A h \in b + 1..Len(pty) : pty[h][1] \in Pieces
        BY <2>2, <3>4 DEF MarksSound
      <4>2. b <= i
        <5>1. ~(i \in 1..b - 1)
          <6>1. i \in 1..b - 1 => i \in 1..Len(pty) /\ pty'[i] = PromptMark
            BY <4>1 DEF EndIs
          <6> QED BY <3>4, <6>1, MarkKinds
        <5> QED BY <5>1
      <4>3. j \in 1..Len(pty) => j \in b + 1..Len(pty)
        BY <3>4, <4>2
      <4>4. j \notin 1..Len(pty)
        BY <3>4, <4>1, <4>3, MarkKinds DEF EndIs
      <4> QED BY <3>4, <4>4, MarkKinds DEF EndIs
    <3>5. x' = x /\ x.phase \in {"begin", "capture"} /\ active' = active
      BY <1>1, <2>2 DEF Works
    <3>6. /\ x.phase = "capture" => \A i, j \in 1..m : i < j /\ pty'[i] = PromptMark => pty'[j] = PromptMark
          /\ x.phase = "begin" => \A i, j, k \in 1..m :
                i < j /\ j < k /\ pty'[i] = BeginMark /\ pty'[j] = PromptMark => pty'[k] = PromptMark
      BY <3>3, <3>4
    <3>7. Excused' \/ Fair'
      BY <1>6, <2>2
    <3> QED BY <3>2, <3>5, <3>6, <3>7 DEF MarksSound, Excused, Fair
  <2> QED BY <2>1, <2>2
<1> QED BY <1>3, <1>4, <1>5, <1>7, <1>8

\* By itself.
LEMMA ProgramEndsKeeps == ASSUME Remote, NEW how \in {"ok", "failed"}, ProgramEnds(how) PROVE Common' /\ LinuxInv'
<1>1. /\ Works /\ at = "running" /\ at' = "prompt" /\ press' = 0 /\ ran' = ran /\ ended' = ended \cup {prog} /\ line' = line
      /\ PromptCycle(how, TRUE) /\ keys' = keys
  BY DEF ProgramEnds, PromptCycle, Works
<1>2. Drops(0)
  BY <1>1, KeyIs DEF Drops, Remote
<1>3. press # 0
  BY <1>1, RunningIs, CommandsAre
<1>4. EndIs
  BY <1>1, <1>3, EndWritten DEF Remote, Statuses
<1> QED BY <1>1, <1>2, <1>4, StopsKeep

\* The program writes.
LEMMA WritePieceKeeps == ASSUME Remote, WritePieceLinux PROVE Common' /\ LinuxInv'
<1> USE DEF Remote, Common, LinuxInv
<1>1. /\ Works /\ at = "running" /\ UNCHANGED <<shell, keys, ran, ended>> /\ pty' = Append(pty, Piece(prog)) /\ Writes(prog)
  BY DEF WritePieceLinux, Works
<1>2. /\ NoOrder /\ ~Settled /\ step \notin {"prepared", "installed"} /\ prog \in Commands
      /\ active # 0 => /\ Begun /\ prog = cmd /\ x.phase \in {"begin", "capture"}
                       /\ \A i \in 1..Len(pty) : pty[i][1] \notin Statuses
  BY <1>1, RunningIs
<1>3. PICK t : t = Piece(prog)
  OBVIOUS
<1>4. t[1] \in Pieces
  <2>1. setting.output \in Seq(Pieces) /\ Len(printed[prog]) \in Nat
    BY <1>2, TypesAre, SettingIs DEF ClientTyped, ResultTyped
  <2>2. Len(printed[prog]) + 1 \in 1..Len(setting.output)
    BY <1>1, <2>1 DEF Writes
  <2> QED BY <1>3, <2>1, <2>2 DEF Piece
<1>5. MorePty(t) /\ t # PromptMark /\ t # BeginMark /\ t[1] \notin Statuses
  BY <1>1, <1>3, <1>4, MoreWritten, MarkKinds
<1>6. Drops(0)
  BY <1>1, KeyIs DEF Drops
<1>7. /\ ClientSound' /\ ResultsSound' /\ KeysTyped' /\ Typed' = Typed /\ Pressed' = Pressed /\ Typed \in Nat /\ Pressed \in Nat
      /\ (Excused' <=> Excused)
  BY <1>1, <1>6, WorksRest
<1>8. EnterSound' /\ BashSound' /\ TextSound'
  BY <1>1, <1>7, EnterRest, BashRest, TextRest DEF Works
<1>9. PhaseSound'
  <2>1. ~Settled'
    BY <1>1, <1>2 DEF Settled, Alive, Works
  <2>2. active # 0 => Begun'
    BY <1>1, <1>2, <1>5 DEF MorePty, Begun, Works
  <2> QED BY <1>1, <1>2, <2>1, <2>2 DEF PhaseSound, Kept, Works, Fair, NoOrder
<1>10. MarksSound'
  <2>1. CASE active = 0
    BY <1>1, <2>1 DEF MarksSound, Works
  <2>2. CASE active # 0
    <3>1. \A i \in 1..Len(pty') : pty'[i][1] \notin Statuses
      BY <1>2, <1>5, <2>2 DEF MorePty
    <3>2. x.phase = "capture" => \A i \in 1..Len(pty') : pty'[i][1] \in Pieces
      BY <1>1, <1>4, <1>5, <2>2 DEF MarksSound, MorePty
    <3>3. x.phase = "capture" => \A i \in 1..Len(pty') : pty'[i] # PromptMark
      BY <3>2, MarkKinds
    <3>4. ASSUME x.phase = "begin"
          PROVE  \E i \in 1..Len(pty') : /\ pty'[i] = BeginMark /\ \A j \in 1..i - 1 : pty'[j] = PromptMark
                                         /\ \A j \in i + 1..Len(pty') : pty'[j][1] \in Pieces
      <4>1. PICK i \in 1..Len(pty) : /\ pty[i] = BeginMark /\ \A j \in 1..i - 1 : pty[j] = PromptMark
                                     /\ \A j \in i + 1..Len(pty) : pty[j][1] \in Pieces
        BY <1>1, <2>2, <3>4 DEF MarksSound
      <4>2. i \in 1..Len(pty') /\ \A j \in 1..i - 1 : j \in 1..Len(pty)
        BY <1>5 DEF MorePty
      <4>3. \A j \in i + 1..Len(pty') : j \in i + 1..Len(pty) \/ j = Len(pty) + 1
        BY <1>5 DEF MorePty
      <4> QED BY <1>4, <1>5, <4>1, <4>2, <4>3 DEF MorePty
    <3>5. ASSUME x.phase = "begin", NEW i \in 1..Len(pty'), NEW j \in 1..Len(pty'), i < j, pty'[i] = BeginMark
          PROVE  pty'[j] # PromptMark
      <4>1. PICK b \in 1..Len(pty') : /\ pty'[b] = BeginMark /\ \A h \in 1..b - 1 : pty'[h] = PromptMark
                                      /\ \A h \in b + 1..Len(pty') : pty'[h][1] \in Pieces
        BY <3>4, <3>5
      <4>2. ~(i \in 1..b - 1)
        BY <3>5, <4>1, MarkKinds
      <4>3. j \in b + 1..Len(pty')
        BY <3>5, <4>2
      <4> QED BY <4>1, <4>3, MarkKinds
    <3>6. x' = x /\ x.phase \in {"begin", "capture"} /\ active' = active /\ at' = "running"
      BY <1>1, <1>2, <2>2 DEF Works
    <3> QED BY <3>1, <3>2, <3>3, <3>4, <3>5, <3>6 DEF MarksSound
  <2> QED BY <2>1, <2>2
<1> QED BY <1>7, <1>8, <1>9, <1>10

\* The key before one that is left, among all of them.
LEMMA BeforeIt ==
    ASSUME NEW d \in Nat, NEW m \in Nat, NEW i \in Nat, i >= 1, i + d \in 1..m
    PROVE  (i + d) - 1 \in d..m /\ ((i + d) - 1) - d = i - 1
  OBVIOUS

\* Ctrl+C at a prompt that was not told to run anything.
LEMMA InterruptPromptKeeps ==
    ASSUME Remote, Works, at = "prompt", at' = "prompt", press = 0, press' = 0, line' = 0,
           ran' = ran, ended' = ended, pty' = Append(pty, PromptMark),
           NEW d \in Nat, d # 0, Drops(d), keys[d][1] = "^C"
    PROVE  Common' /\ LinuxInv'
<1> USE DEF Remote, Common, LinuxInv
<1>1. MorePty(PromptMark)
  BY MoreWritten
<1>2. /\ ClientSound' /\ ResultsSound' /\ KeysTyped' /\ Typed' = Typed /\ Pressed' = Pressed /\ Typed \in Nat /\ Pressed \in Nat
      /\ (Excused' <=> Excused)
  BY WorksRest
<1>3. d \in 1..Len(keys)
  BY KeyIs DEF Drops
<1>4. EnterSound'
  <2>1. ASSUME NEW i \in 1..Len(keys), keys[i][1] = "enter", i = d + 1 PROVE FALSE
    <3>1. i > 1 /\ i - 1 = d
      BY <1>3, <2>1
    <3> QED BY <2>1, <3>1 DEF EnterSound
  <2> QED BY <2>1, DropsOrders
<1>5. BashSound'
  BY <1>2 DEF BashSound
<1>6. TextSound'
  <2>1. ASSUME step \in {"prepared", "installed"}
        PROVE  \E c, n : c = cmd' /\ n = Len(keys') /\ Owned(c, n)' /\ (Excused' \/ Intact(c, n)')
    <3>1. PICK c, n, k : c = cmd /\ n = Len(keys') /\ k = Len(keys)
      OBVIOUS
    <3>2. k \in d..Len(keys) /\ k - d = n
      BY <3>1 DEF Drops
    <3>3. Owned(c, k) /\ (Excused \/ Intact(c, k))
      BY <2>1, <3>1 DEF TextSound, Alive
    <3>4. Owned(c, n)' /\ (Intact(c, k) => Intact(c, n)')
      <4>1. (Owned(c, k) => Owned(c, k - d)') /\ (Intact(c, k) => Intact(c, k - d)')
        BY <3>2, OwnedSuffix
      <4> QED BY <3>2, <3>3, <4>1
    <3> QED BY <1>2, <3>1, <3>3, <3>4 DEF Works
  <2>2. ASSUME NEW i \in 1..Len(keys'), keys'[i][1] = "enter"
        PROVE  \E c, e, n : /\ c = keys'[i][2] /\ n = i - 1 /\ e = cmd' /\ Owned(c, n)'
                            /\ active' # 0 => Excused' \/ (Intact(e, n)' /\ \A j \in i + 1..Len(keys') : keys'[j][1] # "^C")
    <3>1. i + d \in 1..Len(keys) /\ keys'[i] = keys[i + d] /\ Len(keys) \in Nat
      BY KeyIs DEF Drops
    <3>2. PICK c, e, n, k : c = keys[i + d][2] /\ n = i - 1 /\ e = cmd /\ k = (i + d) - 1
      OBVIOUS
    <3>3. k \in d..Len(keys) /\ k - d = n
      <4>1. i \in Nat /\ i >= 1
        BY DEF Drops
      <4> QED BY <3>1, <3>2, <4>1, BeforeIt
    <3>4. Owned(c, k) /\ (active # 0 => Excused \/ (Intact(e, k) /\ \A j \in (i + d) + 1..Len(keys) : keys[j][1] # "^C"))
      BY <2>2, <3>1, <3>2 DEF TextSound
    <3>5. (Owned(c, k) => Owned(c, k - d)') /\ (Intact(e, k) => Intact(e, k - d)')
      BY <3>3, OwnedSuffix
    <3>6. \A j \in i + 1..Len(keys') : j + d \in (i + d) + 1..Len(keys) /\ keys'[j] = keys[j + d]
      <4>1. \A j \in i + 1..Len(keys') : j \in 1..Len(keys')
        OBVIOUS
      <4>2. \A j \in i + 1..Len(keys') : j + d \in 1..Len(keys) /\ keys'[j] = keys[j + d]
        BY <4>1 DEF Drops
      <4> QED BY <4>2
    <3>7. Owned(c, n)' /\ (Intact(e, k) => Intact(e, n)')
      BY <3>3, <3>4, <3>5
    <3>8. active' # 0 => Excused' \/ (Intact(e, n)' /\ \A j \in i + 1..Len(keys') : keys'[j][1] # "^C")
      <4>1. active' = active
        BY DEF Works
      <4>2. ASSUME active # 0, ~Excused PROVE Intact(e, n)' /\ \A j \in i + 1..Len(keys') : keys'[j][1] # "^C"
        <5>1. Intact(e, k) /\ \A j \in (i + d) + 1..Len(keys) : keys[j][1] # "^C"
          BY <3>4, <4>2
        <5> QED BY <3>6, <3>7, <5>1
      <4> QED BY <1>2, <4>1, <4>2
    <3>9. c = keys'[i][2] /\ e = cmd'
      BY <3>1, <3>2 DEF Works
    <3>10. n = i - 1 /\ Owned(c, n)'
      BY <3>2, <3>7
    <3> QED BY <3>8, <3>9, <3>10
  <2> QED BY <2>1, <2>2, TextIs DEF Works
<1>7. NoOrder => NoOrder'
  BY OrdersDrop
<1>8. OnlyPrompts => OnlyPrompts'
  BY <1>1 DEF MorePty, OnlyPrompts
<1>9. Begun' <=> Begun
  BY <1>1, MarkKinds DEF MorePty, Begun, Works
<1>10. PhaseSound'
  <2>1. Settled' => Quiet'
    BY <1>7, <1>8 DEF PhaseSound, Settled, Quiet, Alive, Works
  <2> QED BY <1>7, <1>8, <1>9, <2>1 DEF PhaseSound, Kept, Alive, Works, Fair
<1>11. MarksSound'
  <2>1. CASE active = 0
    BY <2>1 DEF MarksSound, Works
  <2>2. CASE active # 0
    <3>1. x' = x /\ active' = active
      BY DEF Works
    <3>2. \A i \in 1..Len(pty') : i = Len(pty) + 1 => pty'[i] = PromptMark
      BY <1>1 DEF MorePty
    <3>3. \A i, j \in 1..Len(pty') : i < j => i \in 1..Len(pty) /\ pty'[i] = pty[i]
      BY <1>1 DEF MorePty
    <3>4. x.phase = "capture" => \A i, j \in 1..Len(pty') : i < j /\ pty'[i] = PromptMark => pty'[j] = PromptMark
      BY <1>1, <2>2, <3>2, <3>3 DEF MarksSound, MorePty
    <3>5. x.phase = "begin" => \A i, j, k \in 1..Len(pty') :
             i < j /\ j < k /\ pty'[i] = BeginMark /\ pty'[j] = PromptMark => pty'[k] = PromptMark
      BY <1>1, <2>2, <3>2, <3>3 DEF MarksSound, MorePty
    <3>6. \A i, j \in 1..Len(pty') : i < j /\ pty'[i][1] \in Statuses => pty'[j] = PromptMark
      BY <1>1, <2>2, <3>2, <3>3 DEF MarksSound, MorePty
    <3>7. \A i \in 1..Len(pty') : pty'[i][1] \in Statuses => i \in 1..Len(pty) /\ pty'[i] = pty[i]
      BY <1>1, MarkKinds DEF MorePty
    <3>8. \A i \in 1..Len(pty') : pty'[i][1] \in Statuses => Excused' \/ Fair'
      BY <1>2, <2>2, <3>7 DEF MarksSound, Fair, Works
    <3>9. x.phase = "prompt" => OnlyPrompts'
      BY <1>8, <2>2 DEF MarksSound
    <3> QED BY <3>1, <3>4, <3>5, <3>6, <3>8, <3>9 DEF MarksSound, Excused, Fair
  <2> QED BY <2>1, <2>2
<1> QED BY <1>2, <1>4, <1>5, <1>6, <1>10, <1>11

\* A program that does not care.
LEMMA IgnoredKeeps ==
    ASSUME Remote, Works, at = "running", UNCHANGED <<at, press, pty, ended, prog, ran>>, line' = 0, NEW d, Drops(d)
    PROVE  Common' /\ LinuxInv'
<1> USE DEF Remote, Common, LinuxInv
<1>1. NoOrder /\ ~Settled /\ step \notin {"prepared", "installed"}
  BY RunningIs
<1>2. NoOrder'
  BY <1>1, OrdersDrop
<1>3. /\ ClientSound' /\ ResultsSound' /\ KeysTyped' /\ Typed' = Typed /\ Pressed' = Pressed /\ Typed \in Nat /\ Pressed \in Nat
      /\ (Excused' <=> Excused)
  BY WorksRest
<1>4. EnterSound' /\ TextSound' /\ BashSound'
  BY <1>1, <1>2, <1>3 DEF EnterSound, TextSound, BashSound, NoOrder, Orders, Works
<1>5. PhaseSound'
  <2>1. ~Settled'
    BY <1>1 DEF Settled, Alive, Works
  <2>2. (Begun' <=> Begun) /\ (OnlyPrompts' <=> OnlyPrompts)
    BY DEF Begun, OnlyPrompts, Works
  <2> QED BY <1>1, <1>2, <2>1, <2>2 DEF PhaseSound, Kept, Works, Fair
<1>6. MarksSound'
  BY <1>3, MarksFrame DEF Works
<1> QED BY <1>3, <1>4, <1>5, <1>6

\* Ctrl+C.
LEMMA ReadInterruptKeeps == ASSUME Remote, ReadInterrupt PROVE Common' /\ LinuxInv'
<1> USE DEF Remote, Common, LinuxInv
<1>1. PICK d \in 1..Len(keys) : keys[d][1] = "^C" /\ keys' = SubSeq(keys, d + 1, Len(keys))
  <2>1. DOMAIN keys = 1..Len(keys)
    BY KeyIs
  <2> QED BY <2>1 DEF ReadInterrupt
<1>2. Drops(d) /\ d \in Nat /\ d # 0
  BY <1>1, SuffixDrops
<1>3. Works /\ line' = 0 /\ ran' = ran /\ prog' = prog
  BY DEF ReadInterrupt, Works
<1>4. CASE at = "prompt"
  <2>1. PromptCycle("ok", FALSE) /\ at' = "prompt" /\ press' = 0 /\ ended' = ended
    BY <1>4 DEF ReadInterrupt, PromptCycle
  <2>2. CASE press = 0
    <3>1. pty' = pty \o (<<>> \o <<PromptMark>>)
      BY <2>1, <2>2 DEF PromptCycle
    <3>2. PICK p \in Tokens : p = PromptMark
      BY MarksAre
    <3>3. <<>> \o <<p>> = <<p>>
      <4>1. <<p>> \in Seq(Tokens)
        OBVIOUS
      <4> QED BY <4>1, ConcatEmptySeq
    <3>4. pty' = Append(pty, PromptMark)
      <4>1. pty \in Seq(Tokens)
        BY TokenIs
      <4>2. pty' = pty \o <<p>>
        BY <3>1, <3>2, <3>3
      <4> QED BY <3>2, <4>1, <4>2
    <3> QED BY <1>1, <1>2, <1>3, <1>4, <2>1, <2>2, <3>4, InterruptPromptKeeps
  <2>3. CASE press # 0
    <3>1. 1 \in 1..Len(keys) /\ keys[1][1] = "enter"
      BY <1>4, <2>3, PressedIs DEF Is
    <3>2. d \in 1 + 1..Len(keys)
      BY <1>1, <3>1
    <3>3. active # 0 => Excused
      BY <1>1, <3>1, <3>2 DEF TextSound
    <3> QED BY <1>2, <1>3, <1>4, <2>1, <2>3, <3>3, CycleKeeps
  <2> QED BY <2>2, <2>3
<1>5. CASE at = "running"
  <2>1. CASE UNCHANGED <<at, press, pty, ended>>
    BY <1>2, <1>3, <1>5, <2>1, IgnoredKeeps
  <2>2. CASE ~UNCHANGED <<at, press, pty, ended>>
    <3>1. /\ at' = "prompt" /\ press' = 0 /\ ended' = ended \cup {prog}
          /\ PromptCycle("failed", TRUE) \/ pty' = Append(pty, PromptMark)
      BY <1>5, <2>2 DEF ReadInterrupt, PromptCycle
    <3>2. press # 0
      BY <1>5, RunningIs, CommandsAre
    <3>3. EndIs
      BY <3>1, <3>2, EndWritten DEF Statuses
    <3> QED BY <1>2, <1>3, <1>5, <3>1, <3>3, StopsKeep
  <2> QED BY <2>1, <2>2
<1> QED BY <1>4, <1>5 DEF ReadInterrupt

\* Every step of the Linux session keeps what holds of it.
LEMMA LinuxKeeps == ASSUME Remote, LinuxNext PROVE Common' /\ LinuxInv'
<1> USE PrepareLinuxKeeps, InstallLinuxKeeps, SendEnterKeeps, ReturnLinuxKeeps, AbandonLinuxKeeps, ReceiveLinuxKeeps,
        FailsKeep, SendCtrlCKeeps, FlagLinuxKeeps, LossLinuxKeeps, StartAnewKeeps,
        ReadTextKeeps, ReadEnterKeeps, ReadInterruptKeeps, WritePieceKeeps, ProgramEndsKeeps
<1>1. CASE LinuxHost
  BY <1>1 DEF LinuxHost
<1>2. CASE Bash
  BY <1>2 DEF Bash
<1>3. CASE Abandon \/ WritePieceLinux \/ Flag \/ CloseBegins \/ ChannelLost
  BY <1>3
<1>4. CASE \E how \in {"ok", "failed"} : ProgramEnds(how)
  BY <1>4
<1> QED BY <1>1, <1>2, <1>3, <1>4 DEF LinuxNext

\* And the types.
LEMMA LinuxTyped == ASSUME Remote, LinuxNext, FlagsTyped' PROVE TypeOK'
<1> USE DEF Remote, Common, LinuxInv
<1>1. step # "idle" => cmd \in Commands
  BY DEF ClientSound
<1>2. at = "running" => prog \in Commands
  BY DEF BashSound
<1>3. cmd \in Commands \/ ~(PrepareLinux \/ SendEnter \/ Install("begin") \/ Refuse \/ Leave \/ Abandon)
  BY <1>1, NumbersAre, CommandsAre DEF PrepareLinux, SendEnter, Install, Refuse, Leave, Abandon
<1>4. executing => cmd \in Commands
  BY <1>1 DEF ClientSound, Kept
<1>5. interrupting => cmd \in Commands \/ step = "idle"
  BY <1>1
<1>6. CASE PrepareLinux \/ SendEnter \/ Refuse \/ Leave \/ Abandon
  BY <1>3, <1>6, TypeSteps, RefuseTyped, LeaveTyped, AbandonTyped
<1>7. CASE Install("begin")
  BY <1>3, <1>7, InstallTyped DEF Phases
<1>8. CASE ReaderEnds \/ CloseBegins
  BY <1>8, EndsTyped
<1>9. CASE ReceiveLinux
  BY <1>9, TakeTyped DEF PhaseSound
<1>10. CASE SendCtrlC \/ SendCtrlCRaises \/ Flag
  BY <1>4, <1>5, <1>10, CancelTyped
<1>11. CASE CloseEnds \/ ChannelLost \/ StartAnew
  BY <1>1, <1>11, LossTyped
<1>12. CASE Bash \/ WritePieceLinux \/ \E how \in {"ok", "failed"} : ProgramEnds(how)
  BY <1>2, <1>12, BashTyped DEF Bash
<1> QED BY <1>6, <1>7, <1>8, <1>9, <1>10, <1>11, <1>12 DEF LinuxNext, LinuxHost, Bash

-----------------------------------------------------------------------------
(* Both sessions.                                                             *)

\* What holds of both.
SessionsInv ==
    /\ TypeOK /\ Common
    /\ setting.kind = "powershell" => PowerShellInv
    /\ setting.kind = "linux" => LinuxInv

\* It holds when a session begins.
LEMMA StartsSound == Init => SessionsInv
<1> SUFFICES ASSUME Init PROVE SessionsInv
  OBVIOUS
<1> USE DEF Init
<1>1. TypeOK
  BY InitTyped
<1>2. Len(keys) = 0 /\ Len(ctl) = 0 /\ Len(pty) = 0
  OBVIOUS
<1>3. Typed = 0 /\ Pressed = 0 /\ NoText = LastCommand + 1 /\ LastCommand \in Nat
  BY CommandsAre DEF Typed, Pressed
<1>4. ClientSound
  BY CommandsAre DEF ClientSound, Kept, Alive
<1>5. ResultsSound
  BY DEF ResultsSound, Told
<1>6. KeysTyped
  BY <1>2, <1>3 DEF KeysTyped
<1>7. PowerShellInv
  <2>1. PromptSound
    BY <1>2 DEF PromptSound
  <2>2. RunSound /\ PressSound
    BY <1>2 DEF RunSound, PressSound, Under, Ran
  <2>3. LineSound /\ EndSound
    BY DEF LineSound, EndSound, Kept
  <2> QED BY <2>1, <2>2, <2>3 DEF PowerShellInv
<1>8. LinuxInv
  <2>1. EnterSound /\ BashSound /\ TextSound
    BY <1>2, <1>3 DEF EnterSound, BashSound, TextSound
  <2>2. NoOrder /\ Quiet
    BY <1>2 DEF NoOrder, Quiet, OnlyPrompts
  <2>3. PhaseSound /\ MarksSound
    BY <2>2 DEF PhaseSound, MarksSound, Kept
  <2> QED BY <2>1, <2>3 DEF LinuxInv
<1> QED BY <1>1, <1>4, <1>5, <1>6, <1>7, <1>8 DEF SessionsInv, Common

\* A behaviour is about one session.
LEMMA SettingKept == ASSUME [Next]_vars PROVE setting' = setting
<1>1. CASE PowerShellNext
  BY <1>1 DEF PowerShellNext, Host, Shell, Prepare, TypeCommand, Retype, Prepared, Install, PressRun, Refuse, Leave,
     WaitFindsDead, ReaderFails, HandlePromptReady, HandleBegin, HandleBeginFence, HandleEnd, HandleEndFence,
     CompleteCancelled, Interrupt, InterruptRaises, Restart, ReadKey, DrawPrompt, AcceptLine, Receive, WaitTimesOut,
     Abandon, WritePiece, Signal, LineEnds, Flag, SessionLost
<1>2. CASE LinuxNext
  BY <1>2 DEF LinuxNext, LinuxHost, Bash, PrepareLinux, Install, SendEnter, Refuse, Leave, ReceiveLinux, ReaderEnds,
     SendCtrlC, SendCtrlCRaises, CloseEnds, StartAnew, ReadText, ReadEnter, ReadInterrupt, Abandon, WritePieceLinux,
     ProgramEnds, Flag, CloseBegins, ChannelLost
<1> QED BY <1>1, <1>2 DEF Next

\* Every step keeps it.
LEMMA StaysSound == ASSUME SessionsInv, [Next]_vars PROVE SessionsInv'
<1>0. FlagsTyped' /\ setting' = setting
  BY FlagsKept, SettingKept DEF SessionsInv
<1>1. CASE PowerShellNext
  <2>1. Prompted
    BY <1>1 DEF SessionsInv, Prompted, PowerShellNext
  <2>2. TypeOK' /\ Common' /\ PowerShellInv'
    BY <1>0, <1>1, <2>1, PowerShellKeeps, PowerShellTyped
  <2> QED BY <1>0, <2>1, <2>2 DEF SessionsInv, Prompted
<1>2. CASE LinuxNext
  <2>1. Remote
    BY <1>2 DEF SessionsInv, Remote, LinuxNext
  <2>2. TypeOK' /\ Common' /\ LinuxInv'
    BY <1>0, <1>2, <2>1, LinuxKeeps, LinuxTyped
  <2> QED BY <1>0, <2>1, <2>2 DEF SessionsInv, Remote
<1>3. CASE UNCHANGED vars
  <2>1. TypeOK'
    BY <1>3 DEF SessionsInv, TypeOK
  <2>2. Common'
    BY <1>3 DEF SessionsInv, Common, ClientSound, ResultsSound, KeysTyped, Kept, Alive, Told, Typed, Pressed
  <2>3. PowerShellInv <=> PowerShellInv'
    BY <1>3 DEF PowerShellInv, PromptSound, RunSound, PressSound, LineSound, EndSound, Typed, Pressed, Seen, Mine, Reports,
       Is, MayRun, BeforeRun, Runs, Clean, Kept, Alive
  <2>4. LinuxInv <=> LinuxInv'
    <3>1. (EnterSound <=> EnterSound') /\ (BashSound <=> BashSound')
      BY <1>3 DEF EnterSound, BashSound, MayEnter, Is, Pressed
    <3>2. TextSound <=> TextSound'
      BY <1>3 DEF TextSound, Owned, Intact, Excused, Alive, Is
    <3>3. (PhaseSound <=> PhaseSound') /\ (MarksSound <=> MarksSound')
      BY <1>3 DEF PhaseSound, MarksSound, Settled, Quiet, OnlyPrompts, NoOrder, Kept, Fair, Begun, Alive, Excused
    <3> QED BY <3>1, <3>2, <3>3 DEF LinuxInv
  <2> QED BY <1>3, <2>1, <2>2, <2>3, <2>4 DEF SessionsInv
<1> QED BY <1>1, <1>2, <1>3 DEF Next

\* The verdicts that execute() returns are true of the runs that took place.
LEMMA SoundIsTrue == ASSUME SessionsInv PROVE VerdictIsTrue
<1>1. SessionInvariant
  BY DEF SessionsInv, Common, ClientSound, Kept, SessionInvariant
<1>2. ResultIsOwn
  <2>1. \A c \in Commands : ran[c] \in Nat
    BY NumbersToo DEF SessionsInv
  <2>2. \A c \in Commands : result[c] = "unprepared" => ran[c] = 0
    BY <2>1 DEF SessionsInv, Common, ResultsSound
  <2> QED BY <2>2 DEF SessionsInv, Common, ResultsSound, ResultIsOwn
<1> QED BY <1>1, <1>2 DEF VerdictIsTrue

\* What runs is the command that is executed, or one that nobody waits for.
LEMMA RunsOnce ==
    ASSUME SessionsInv, [Next]_vars, NEW c \in Commands, ran'[c] # ran[c]
    PROVE  active \in {0, c}
<1>1. ran' # ran
  OBVIOUS
<1>2. CASE PowerShellNext
  <2>1. Prompted
    BY <1>2 DEF SessionsInv, Prompted, PowerShellNext
  <2>2. PICK drawn : AcceptLine(drawn)
    BY <1>1, <1>2 DEF PowerShellNext, Host, Shell, Prepare, TypeCommand, Retype, Prepared, Install, PressRun, Refuse, Leave,
     WaitFindsDead, ReaderFails, HandlePromptReady, HandleBegin, HandleBeginFence, HandleEnd, HandleEndFence,
     CompleteCancelled, Interrupt, InterruptRaises, Restart, ReadKey, DrawPrompt, Receive, WaitTimesOut,
     Abandon, WritePiece, Signal, LineEnds, Flag, SessionLost
  <2>3. at = "accepting" /\ line = c
    BY <2>1, <2>2, NumbersToo DEF AcceptLine, Run, Prompted
  <2>4. line \in {0, press} /\ c # 0
    BY <2>1, <2>3, CommandsAre DEF Prompted, PowerShellInv, PressSound, Under
  <2>5. active # 0 => active = cmd /\ press = cmd
    BY <2>1, <2>3 DEF Prompted, Common, ClientSound, Kept, PowerShellInv, PromptSound, Seen
  <2> QED BY <2>3, <2>4, <2>5
<1>3. CASE LinuxNext
  <2>1. Remote
    BY <1>3 DEF SessionsInv, Remote, LinuxNext
  <2>2. ReadEnter
    BY <1>1, <1>3 DEF LinuxNext, LinuxHost, Bash, PrepareLinux, Install, SendEnter, Refuse, Leave, ReceiveLinux, ReaderEnds,
     SendCtrlC, SendCtrlCRaises, CloseEnds, StartAnew, ReadText, ReadInterrupt, Abandon, WritePieceLinux,
     ProgramEnds, Flag, CloseBegins, ChannelLost
  <2>3. line = c /\ 1 \in 1..Len(keys) /\ keys[1][1] = "enter"
    BY <2>1, <2>2, NumbersToo, TailDrops DEF ReadEnter, Run, Remote
  <2>4. PICK d : d = keys[1][2]
    OBVIOUS
  <2>5. MayEnter(d) /\ Owned(d, 1 - 1)
    BY <2>1, <2>3, <2>4 DEF Remote, LinuxInv, EnterSound, TextSound, Orders
  <2>6. line \in {0, d} /\ c # 0
    <3>1. \A j : j \notin 1..1 - 1
      OBVIOUS
    <3> QED BY <2>5, <3>1, CommandsAre DEF Owned
  <2>7. active # 0 => d = cmd /\ active = cmd
    BY <2>1, <2>5, MayPress DEF Remote, Common, ClientSound
  <2> QED BY <2>3, <2>6, <2>7
<1>4. CASE UNCHANGED vars
  BY <1>1, <1>4
<1> QED BY <1>2, <1>3, <1>4 DEF Next

\* The invariant of both sessions holds for any commands, output, cancels and closes.
THEOREM SessionsAreSound == Spec => []SessionsInv
<1>1. Init => SessionsInv
  BY StartsSound
<1>2. SessionsInv /\ [Next]_vars => SessionsInv'
  BY StaysSound
<1> QED BY <1>1, <1>2, PTL DEF Spec

\* What execute() and cancel_current return is about a run that took place: a
\* command runs at most once, one reported as not executed never runs, and one
\* reported as ended ran to its end unless its prepared text was taken away; no
\* record outlives its execution.
THEOREM VerdictStaysTrue == FairSpec => []VerdictIsTrue
<1>1. SessionsInv => VerdictIsTrue
  BY SoundIsTrue
<1> QED BY <1>1, SessionsAreSound, PTL DEF FairSpec

\* The shell runs a command only in its own execution, or once that was given up,
\* never in that of another: a prepared text that is late is not run by the next
\* command's Enter.
THEOREM RunsStayOwn == FairSpec => RunsInOwnExecution
<1>1. SessionsInv /\ [Next]_vars => [\A c \in Commands : ran'[c] # ran[c] => active \in {0, c}]_vars
  BY RunsOnce
<1>2. Spec => RunsInOwnExecution
  BY <1>1, SessionsAreSound, PTL DEF Spec, RunsInOwnExecution
<1> QED BY <1>2, PTL DEF FairSpec
=============================================================================
