---------------------------- MODULE MCShellSessions ----------------------------
(***************************************************************************)
(* Both sessions under one specification: a behaviour is about one of      *)
(* them, and what is promised to TerminalManager is the same.  Each is what *)
(* a behaviour has to cope with on a small instance.                        *)
(***************************************************************************)
EXTENDS PowerShellSession, LinuxSession

PowerShell(p, n, m) == [kind |-> "powershell", output |-> p, cancels |-> n, closes |-> m]
Linux(p, n, m)      == [kind |-> "linux", output |-> p, cancels |-> n, closes |-> m]

\* Output of different shapes; a cancel; a session that is lost.
Each == {PowerShell(<<"part", "line">>, 0, 0), PowerShell(<<"line", "stem">>, 0, 0),
         PowerShell(<<"line">>, 1, 0), PowerShell(<<"line">>, 0, 1),
         Linux(<<"line", "line">>, 0, 0), Linux(<<"line">>, 1, 1)}

Next == PowerShellNext \/ LinuxNext

Spec == Init /\ [][Next]_vars

\* The threads, the console and the editor go on.  A program need not end.
\* An application that cancelled a remote command that does not end closes the
\* session (TerminalManager._recover_after_cancel).
Fairness ==
    /\ WF_vars(setting.kind = "powershell" /\ (Host \/ Shell))
    /\ WF_vars(setting.kind = "powershell" /\ \E n \in 1..Len(pty \o frame) : Receive(n))
    /\ WF_vars(setting.kind = "powershell" /\ WaitTimesOut)
    /\ WF_vars(setting.kind = "linux" /\ (LinuxHost \/ Bash))
    /\ WF_vars(setting.kind = "linux" /\ flagged /\ CloseBegins)

FairSpec == Spec /\ Fairness

-----------------------------------------------------------------------------
\* Types, and the current record is that of the executing command and open: the
\* next execution never finds a record of the last one.
SessionInvariant ==
    /\ TypeOK
    /\ active # 0 => active = cmd /\ ~x.done /\ step \in {"installed", "waiting"}

\* The pieces of a command in what was reported.
Lines(out) ==
    LET upTo[i \in 0..Len(out)] ==
          IF i = 0 THEN <<>>
          ELSE IF out[i][1] \in Pieces THEN Append(upTo[i - 1], out[i])
          ELSE upTo[i - 1]
    IN upTo[Len(out)]

Told(c) == result[c] \in {"ok", "failed"}

\* What execute() reports as output are pieces of its own command, in order and
\* without a gap; nothing of another command, no mark and, unless it stopped
\* waiting for the last mark, no prompt.
OutputIsOwn ==
    \A c \in Commands :
        /\ \A i \in DOMAIN reported[c] :
              \/ reported[c][i] \in Texts \X {c}
              \/ reported[c][i] = Prompt /\ c \in timedOut
        /\ \E i \in 1..Len(printed[c]) + 1, j \in 0..Len(printed[c]) :
              Lines(reported[c]) = SubSeq(printed[c], i, j)

\* A command that ended by itself loses at most the beginning of its output,
\* up to text that ends as its echo begins or, if there is none, within its
\* first line.  Remotely it loses nothing.
OutputIsKept ==
    \A c \in Commands : Told(c) /\ c \notin timedOut =>
        \E i \in 0..Len(printed[c]) :
            /\ Lines(reported[c]) = SubSeq(printed[c], i + 1, Len(printed[c]))
            /\ \/ i > 0 /\ printed[c][i] = <<"stem", c>>
               \/ \A j \in 1..i : printed[c][j] # <<"line", c>>
            /\ setting.kind = "linux" => i = 0

\* "Preserve os bytes": no output of a command that ended is lost.
OutputIsComplete ==
    \A c \in Commands : Told(c) /\ c \notin timedOut =>
        Lines(reported[c]) = printed[c]

\* A command is run at most once, one that is reported as not executed never,
\* and one that is reported as ended was run to its end, unless its prepared
\* text was taken away.
ResultIsOwn ==
    \A c \in Commands :
        /\ ran[c] <= 1
        /\ result[c] = "unprepared" => ran[c] = 0
        /\ Told(c) /\ c \notin disturbed => ran[c] = 1 /\ c \in ended

\* The shell runs a command only in its own execution, or once that was given
\* up, never in the execution of another.
RunsInOwnExecution ==
    [][\A c \in Commands : ran'[c] # ran[c] => active \in {0, c}]_vars

\* An execution that was cancelled, whose session is gone or whose command has
\* ended returns, unless it began after the reader of the session had ended.
ExecuteReturns ==
    step = "waiting" /\ (flagged \/ ~Alive \/ cmd \in ended)
        ~> step # "waiting" \/ cmd \in orphaned

\* What is reported as a command's output is its own, in order, and complete but
\* for the beginning that the echo may swallow.
OutputIsTrue == OutputIsOwn /\ OutputIsKept

\* A verdict is about a run that took place, and no record outlives its
\* execution.
VerdictIsTrue == SessionInvariant /\ ResultIsOwn
=============================================================================
