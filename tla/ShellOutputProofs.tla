---------------------------- MODULE ShellOutputProofs ----------------------------
(***************************************************************************)
(* What is reported as the output of a command is its own, for any number  *)
(* of commands, any output, any cancels and any losses.  What is on its    *)
(* way, on the wires and in the record, is followed with the count of the  *)
(* pieces that went before: each place it passes has a part of what the    *)
(* command wrote, and the parts go on from each other.                     *)
(***************************************************************************)
EXTENDS ShellSessionsProofs

-----------------------------------------------------------------------------
(* Output.  A sequence of tokens carries pieces of what a command has         *)
(* written: how many went before is known at each of its tokens, so parts of  *)
(* it can be joined, cut off and held back without losing count.              *)

\* Reading t of c, which has written p, goes from the first k pieces to the
\* first m.  A prompt counts as a piece more than there are.
Moves(p, c, t, k, m) ==
    \/ t = <<"echo", c>> /\ k = 0 /\ m = 0
    \/ t = <<"end", c>> /\ m = k
    \/ t \in {<<"ok", 0>>, <<"failed", 0>>, <<"prompt", 0>>} /\ Len(p) <= k /\ m = k + 1
    \/ t[1] \in Pieces /\ m = k + 1 /\ m <= Len(p) /\ t = p[m]

\* s carries the pieces of c from a + 1 to b.
Copies(p, c, s, a, b) ==
    \E g \in [0..Len(s) -> Nat] :
        /\ g[0] = a /\ g[Len(s)] = b
        /\ \A i, j \in 0..Len(s) : i <= j => g[i] <= g[j]
        /\ \A i \in 1..Len(s) : Moves(p, c, s[i], g[i - 1], g[i])

\* Without the marks that tell of an end.
Plain(s) == \A i \in 1..Len(s) : s[i][1] \notin {"end", "ok", "failed"}
Endless(s) == \A i \in 1..Len(s) : s[i][1] # "end"
\* All of r stands in s.
Within(r, s) == \A i \in 1..Len(r) : \E j \in 1..Len(s) : r[i] = s[j]
\* Nothing of the command c stands there.
Fresh(s, c) == \A i \in 1..Len(s) : s[i][2] # c

\* c writes nothing any more.
Silent(c) ==
    IF setting.kind = "powershell" THEN c \in ended
    ELSE /\ c <= Pressed /\ (at = "running" => prog # c) /\ (at = "prompt" => press # c)
         /\ \A i \in 1..Len(keys) : keys[i][1] \in Orders => keys[i][2] # c

\* The first a pieces may be lost to the filter of the echo.
MayLose(p, c, a) ==
    /\ a <= Len(p) /\ (setting.kind = "linux" => a = 0)
    /\ \/ a > 0 /\ p[a] = <<"stem", c>>
       \/ \A j \in 1..a : p[j] # <<"line", c>>

\* A program writes its own pieces, and only while it runs.
PrintedSound ==
    /\ \A c \in Commands : \A i \in 1..Len(printed[c]) : printed[c][i][1] \in Pieces /\ printed[c][i][2] = c
    /\ \A c \in Commands : ran[c] = 0 => printed[c] = <<>>
    /\ at = "running" /\ prog # 0 => prog = press /\ ran[prog] > 0

\* What was reported, or will be.
OutcomeSound(s, c, a, b, told) ==
    /\ Copies(printed[c], c, s, a, b) /\ Plain(s)
    /\ b <= Len(printed[c]) \/ (c \in timedOut /\ Silent(c))
    /\ told => Silent(c)
    /\ told /\ c \notin timedOut => b = Len(printed[c]) /\ MayLose(printed[c], c, a)
ReportedSound ==
    \A c \in Commands : \E a, b \in Nat : OutcomeSound(reported[c], c, a, b, Told(c))
RecordSound ==
    Kept => \E a, b \in Nat : OutcomeSound(x.out, cmd, a, b, x.done /\ x.status \in Statuses)

\* A command ends once: its line is not run again.
EndsOnce ==
    /\ ended \subseteq 1..Pressed /\ timedOut \subseteq ended
    /\ \A i \in 1..Len(keys) : Runs(i) => keys[i][2] \notin ended
    /\ at \in Under \cup {"running"} => press \notin ended
\* Everything that is on its way is of a command that was told to run.
Wired(s) == \A i \in 1..Len(s) : s[i][2] <= Pressed /\ s[i][1] \notin Statuses
WiresSound == Wired(pty) /\ Wired(frame) /\ (at \in Under => frame = <<>>)

\* The record follows the dialogue of BEGIN and END.
FencesSound ==
    /\ x.id \in {0, cmd} /\ x.phase \in {"wait", "capture", "drain"} /\ cmd \notin timedOut
    /\ x.phase # "wait" \/ x.startMark => x.id = cmd
    /\ x.phase = "drain" => x.endMark
    /\ at \in {"fencing", "accepting"} \cup Ran => x.id = cmd
    /\ at \in {"accepting"} \cup Ran => x.startMark
    /\ at = "prompting" => x.endMark

\* What the console holds back is the last there is, and with it all is there.
FrameSound(b, h) ==
    /\ Copies(printed[cmd], cmd, frame, b, h) /\ Endless(frame)
    /\ h <= Len(printed[cmd]) + 1
    /\ at \in Ran => h = Len(printed[cmd])
    /\ ~x.endMark => h <= Len(printed[cmd]) /\ \A i \in 1..Len(pty) : pty[i] # <<"end", cmd>>
    /\ at \in Ran => \A i \in 1..Len(pty) : pty[i] # <<"end", cmd>>
    /\ \A i, j \in 1..Len(pty) : pty[i] = <<"end", cmd>> /\ pty[j] = <<"end", cmd>> => i = j

\* The start mark was written: the line is not accepted again.
Started == step = "waiting" /\ at \notin Under /\ \A i \in 1..Len(keys) : ~Runs(i)

\* Before its start mark nothing of the command comes; behind it all of it.
WaitSound ==
    /\ x.out = <<>> /\ x.prefix = <<>> /\ x.echo /\ Fresh(x.buf, cmd)
    /\ \/ Fresh(pty, cmd) /\ Fresh(frame, cmd) /\ at \notin Ran /\ ~x.endSeen /\ printed[cmd] = <<>>
       \/ /\ Started /\ x.startMark
          /\ \E m \in 1..Len(pty) :
                /\ pty[m] = <<"start", cmd>> /\ \A i \in 1..m - 1 : pty[i][2] # cmd
                /\ \E b, h \in Nat :
                      Copies(printed[cmd], cmd, SubSeq(pty, m + 1, Len(pty)), 0, b) /\ FrameSound(b, h)
\* What is held back may be the beginning of the echo.
HeldBack(y, c) ==
    /\ y.out = <<>> /\ ~Has(y.prefix, <<"echo", c>>)
    /\ EndsLine(y.prefix) => MayBeginEcho(y.prefix)
\* What the record y has of what c wrote, up to e.
Captured(y, c, p, e) ==
    /\ Plain(y.prefix) /\ Plain(y.out)
    /\ IF y.echo THEN HeldBack(y, c) ELSE y.prefix = <<>>
    /\ \E b, d \in Nat :
          d <= Len(p) /\ Copies(p, c, y.out, 0, b) /\ Copies(p, c, y.prefix, b, d) /\ Copies(p, c, y.buf, d, e)
Drained(y, c, p, e) ==
    /\ Plain(y.out) /\ Plain(y.buf)
    /\ \E a, b, d \in Nat :
          /\ MayLose(p, c, a) /\ b <= Len(p) /\ (d = b \/ (b = Len(p) /\ d = b + 1))
          /\ Copies(p, c, y.out, a, b) /\ Copies(p, c, y.buf, d, e)
CaptureSound ==
    Started /\ Plain(x.buf) /\ \E e, f, h \in Nat :
        Captured(x, cmd, printed[cmd], e) /\ Copies(printed[cmd], cmd, pty, e, f) /\ FrameSound(f, h)
DrainSound ==
    Started /\ at \notin Ran /\ Endless(pty) /\ ~Has(x.buf, Prompt) /\ \E e, f, h \in Nat :
        Drained(x, cmd, printed[cmd], e) /\ Copies(printed[cmd], cmd, pty, e, f) /\ FrameSound(f, h)
StreamSound ==
    active # 0 =>
        /\ FencesSound
        /\ x.phase = "wait" => WaitSound
        /\ x.phase = "capture" => CaptureSound
        /\ x.phase = "drain" => DrainSound

\* Of bash nothing is held back, and all marks are in one stream.
Reaches(h) == Len(printed[cmd]) <= h /\ (at = "running" => h = Len(printed[cmd]))
BeginSound ==
    /\ x.out = <<>>
    /\ \/ (\A i \in 1..Len(pty) : pty[i] # BeginMark) /\ printed[cmd] = <<>>
       \/ \E m \in 1..Len(pty) :
             /\ pty[m] = BeginMark /\ \A i \in 1..m - 1 : pty[i] = PromptMark
             /\ \E h \in Nat : Copies(printed[cmd], cmd, SubSeq(pty, m + 1, Len(pty)), 0, h) /\ Reaches(h)
PassSound ==
    \E b, h \in Nat :
        /\ b <= Len(printed[cmd]) /\ Copies(printed[cmd], cmd, x.out, 0, b)
        /\ Copies(printed[cmd], cmd, pty, b, h) /\ Reaches(h)
LinuxStreamSound ==
    active # 0 =>
        /\ Plain(x.out) /\ Endless(pty)
        /\ x.phase = "begin" => BeginSound
        /\ x.phase = "capture" => PassSound
        /\ x.phase = "prompt" => Copies(printed[cmd], cmd, x.out, 0, Len(printed[cmd])) /\ Silent(cmd)

\* What is reported of a command is its own, from its first pieces on.
OutputInv ==
    /\ PrintedSound /\ ReportedSound /\ RecordSound
    /\ setting.kind = "powershell" => EndsOnce /\ WiresSound /\ StreamSound
    /\ setting.kind = "linux" => LinuxStreamSound /\ timedOut = {}

\* Two sequences, one after the other.
LEMMA JoinIs ==
    ASSUME NEW S, NEW s \in Seq(S), NEW r \in Seq(S)
    PROVE  /\ s \o r \in Seq(S) /\ Len(s \o r) = Len(s) + Len(r) /\ Len(s) \in Nat /\ Len(r) \in Nat
           /\ \A i \in 1..Len(s) : (s \o r)[i] = s[i]
           /\ \A i \in 1..Len(r) : (s \o r)[Len(s) + i] = r[i]
           /\ \A i \in 1..Len(s) + Len(r) : i > Len(s) => i - Len(s) \in 1..Len(r) /\ (s \o r)[i] = r[i - Len(s)]
  OBVIOUS

\* The two parts of a sequence.
LEMMA CutIs ==
    ASSUME NEW S, NEW s \in Seq(S), NEW n \in 0..Len(s)
    PROVE  /\ SubSeq(s, 1, n) \in Seq(S) /\ Len(SubSeq(s, 1, n)) = n /\ \A i \in 1..n : SubSeq(s, 1, n)[i] = s[i]
           /\ SubSeq(s, n + 1, Len(s)) \in Seq(S) /\ Len(SubSeq(s, n + 1, Len(s))) = Len(s) - n
           /\ \A i \in 1..Len(s) - n : SubSeq(s, n + 1, Len(s))[i] = s[n + i]
           /\ Len(s) \in Nat
<1>1. Len(s) \in Nat /\ n \in Nat /\ n <= Len(s)
  OBVIOUS
<1>2. \A i \in 1..n : s[i] \in S
  BY <1>1
<1>3. \A i \in n + 1..Len(s) : s[i] \in S
  BY <1>1
<1>4. SubSeq(s, 1, n) \in Seq(S) /\ Len(SubSeq(s, 1, n)) = n /\ \A i \in 1..n : SubSeq(s, 1, n)[i] = s[i]
  BY <1>1, <1>2, SubSeqProperties
<1>5. /\ SubSeq(s, n + 1, Len(s)) \in Seq(S) /\ Len(SubSeq(s, n + 1, Len(s))) = Len(s) - n
      /\ \A i \in 1..Len(s) - n : SubSeq(s, n + 1, Len(s))[i] = s[n + i]
  BY <1>1, <1>3, SubSeqProperties
<1> QED BY <1>1, <1>4, <1>5

\* Nothing carries nothing.
LEMMA CopiesNothing ==
    ASSUME NEW p, NEW c, NEW a \in Nat
    PROVE  Copies(p, c, <<>>, a, a) /\ \A b : Copies(p, c, <<>>, a, b) => b = a
<1> DEFINE g == [i \in 0..0 |-> a]
<1>1. Len(<<>>) = 0 /\ 0 \in 0..0 /\ \A i \in 1..0 : FALSE
  OBVIOUS
<1>2. g[0] = a /\ \A i \in 0..0 : i = 0
  OBVIOUS
<1>3. g \in [0..0 -> Nat]
  OBVIOUS
<1>4. \A i, j \in 0..0 : g[i] <= g[j]
  BY <1>2
<1>5. Copies(p, c, <<>>, a, a)
  BY <1>1, <1>2, <1>3, <1>4 DEF Copies
<1>6. ASSUME NEW b, Copies(p, c, <<>>, a, b) PROVE b = a
  BY <1>1, <1>6 DEF Copies
<1> QED BY <1>5, <1>6

\* The count only grows.
LEMMA CopiesOrder ==
    ASSUME NEW p, NEW c, NEW s \in Seq(Tokens), NEW a, NEW b, Copies(p, c, s, a, b)
    PROVE  a \in Nat /\ b \in Nat /\ a <= b
<1>1. Len(s) \in Nat /\ 0 \in 0..Len(s) /\ Len(s) \in 0..Len(s) /\ 0 <= Len(s)
  OBVIOUS
<1> QED BY <1>1 DEF Copies

\* One sequence after the other.
LEMMA CopiesJoin ==
    ASSUME NEW p, NEW c, NEW s \in Seq(Tokens), NEW r \in Seq(Tokens), NEW a, NEW b, NEW d,
           Copies(p, c, s, a, b), Copies(p, c, r, b, d)
    PROVE  Copies(p, c, s \o r, a, d)
<1>1. PICK g \in [0..Len(s) -> Nat] :
        /\ g[0] = a /\ g[Len(s)] = b
        /\ \A i, j \in 0..Len(s) : i <= j => g[i] <= g[j]
        /\ \A i \in 1..Len(s) : Moves(p, c, s[i], g[i - 1], g[i])
  BY DEF Copies
<1>2. PICK k \in [0..Len(r) -> Nat] :
        /\ k[0] = b /\ k[Len(r)] = d
        /\ \A i, j \in 0..Len(r) : i <= j => k[i] <= k[j]
        /\ \A i \in 1..Len(r) : Moves(p, c, r[i], k[i - 1], k[i])
  BY DEF Copies
<1>3. PICK q : q = s \o r
  OBVIOUS
<1>4. PICK n : n = Len(s)
  OBVIOUS
<1>5. PICK m : m = Len(r)
  OBVIOUS
<1>6. /\ Len(q) = n + m /\ n \in Nat /\ m \in Nat
      /\ \A i \in 1..n : q[i] = s[i]
      /\ \A i \in 1..n + m : i > n => i - n \in 1..m /\ q[i] = r[i - n]
  BY <1>3, <1>4, <1>5, JoinIs
<1> DEFINE h == [i \in 0..n + m |-> IF i <= n THEN g[i] ELSE k[i - n]]
<1>7. \A i \in 0..n + m : (i <= n => i \in 0..n /\ h[i] = g[i]) /\ (i > n => i - n \in 0..m /\ h[i] = k[i - n])
  BY <1>6
<1>8. h[n] = b /\ k[0] = b /\ 0 \in 0..m /\ n \in 0..n
  BY <1>1, <1>2, <1>4, <1>6, <1>7
<1>9. h \in [0..n + m -> Nat]
  BY <1>1, <1>2, <1>4, <1>5, <1>6
<1>10. h[0] = a /\ h[n + m] = d
  <2>1. h[0] = a
    BY <1>1, <1>6, <1>7
  <2>2. CASE m = 0
    <3>1. h[n + m] = b
      BY <1>6, <1>8, <2>2
    <3> QED BY <1>2, <1>5, <1>8, <2>1, <2>2, <3>1
  <2>3. CASE m # 0
    <3>1. n + m > n /\ n + m \in 0..n + m /\ (n + m) - n = m
      BY <1>6, <2>3
    <3> QED BY <1>2, <1>5, <1>7, <2>1, <3>1
  <2> QED BY <2>2, <2>3
<1> HIDE DEF h
<1>11. ASSUME NEW i \in 0..n + m, NEW j \in 0..n + m, i <= j PROVE h[i] <= h[j]
  <2>1. CASE j <= n
    BY <1>1, <1>4, <1>6, <1>7, <1>11, <2>1
  <2>2. CASE i > n
    <3>1. i - n \in 0..m /\ j - n \in 0..m /\ i - n <= j - n /\ h[i] = k[i - n] /\ h[j] = k[j - n]
      BY <1>6, <1>7, <1>11, <2>2
    <3> QED BY <1>2, <1>5, <3>1
  <2>3. CASE i <= n /\ j > n
    <3>1. i \in 0..n /\ h[i] = g[i] /\ j - n \in 0..m /\ h[j] = k[j - n] /\ n \in 0..n /\ 0 \in 0..m /\ 0 <= j - n
      BY <1>6, <1>7, <2>3
    <3>2. g[i] <= b /\ b <= k[j - n]
      BY <1>1, <1>2, <1>4, <1>5, <3>1
    <3>3. g[i] \in Nat /\ b \in Nat /\ k[j - n] \in Nat
      BY <1>1, <1>2, <1>4, <1>5, <1>8, <3>1
    <3> QED BY <3>1, <3>2, <3>3
  <2> QED BY <1>6, <2>1, <2>2, <2>3
<1>12. ASSUME NEW i \in 1..n + m PROVE Moves(p, c, q[i], h[i - 1], h[i])
  <2>1. CASE i <= n
    <3>1. i \in 1..n /\ q[i] = s[i] /\ h[i] = g[i] /\ h[i - 1] = g[i - 1]
      BY <1>6, <1>7, <2>1
    <3> QED BY <1>1, <1>4, <3>1
  <2>2. CASE i > n
    <3>1. i - n \in 1..m /\ q[i] = r[i - n] /\ h[i] = k[i - n] /\ (i - n) - 1 = (i - 1) - n
      BY <1>6, <1>7, <2>2
    <3>2. h[i - 1] = k[(i - n) - 1]
      <4>1. CASE i - 1 = n
        BY <1>6, <1>8, <3>1, <4>1
      <4>2. CASE i - 1 > n
        BY <1>6, <1>7, <3>1, <4>2
      <4> QED BY <1>6, <2>2, <4>1, <4>2
    <3> QED BY <1>2, <1>5, <3>1, <3>2
  <2> QED BY <1>6, <2>1, <2>2
<1>13. Copies(p, c, q, a, d)
  BY <1>6, <1>9, <1>10, <1>11, <1>12 DEF Copies
<1> QED BY <1>3, <1>13

\* One token.
LEMMA CopiesOne ==
    ASSUME NEW p, NEW c, NEW t, NEW a \in Nat, NEW b \in Nat, a <= b, Moves(p, c, t, a, b)
    PROVE  Copies(p, c, <<t>>, a, b)
<1> DEFINE g == [i \in 0..1 |-> IF i = 0 THEN a ELSE b]
<1>1. Len(<<t>>) = 1 /\ <<t>>[1] = t /\ \A i \in 1..1 : i = 1 /\ i - 1 = 0
  OBVIOUS
<1>2. g \in [0..1 -> Nat] /\ g[0] = a /\ g[1] = b
  OBVIOUS
<1>3. \A i, j \in 0..1 : i <= j => g[i] <= g[j]
  OBVIOUS
<1>4. Moves(p, c, <<t>>[1], g[0], g[1])
  BY <1>1, <1>2
<1>5. \A i \in 1..1 : Moves(p, c, <<t>>[i], g[i - 1], g[i])
  BY <1>1, <1>4
<1> HIDE DEF g
<1> QED BY <1>1, <1>2, <1>3, <1>5 DEF Copies

\* One token more.
LEMMA CopiesMore ==
    ASSUME NEW p, NEW c, NEW s \in Seq(Tokens), NEW t \in Tokens, NEW a, NEW b, NEW d \in Nat, b <= d,
           Copies(p, c, s, a, b), Moves(p, c, t, b, d)
    PROVE  Copies(p, c, Append(s, t), a, d) /\ Copies(p, c, s \o <<t>>, a, d)
<1>1. b \in Nat
  BY CopiesOrder
<1>2. PICK r : r = <<t>>
  OBVIOUS
<1>3. r \in Seq(Tokens) /\ Copies(p, c, r, b, d)
  BY <1>1, <1>2, CopiesOne
<1>4. Copies(p, c, s \o r, a, d)
  BY <1>3, CopiesJoin
<1>5. Append(s, t) = s \o <<t>>
  OBVIOUS
<1> QED BY <1>2, <1>4, <1>5

\* A sequence that is cut in two.
LEMMA CopiesCut ==
    ASSUME NEW p, NEW c, NEW s \in Seq(Tokens), NEW a, NEW b, Copies(p, c, s, a, b), NEW n \in 0..Len(s)
    PROVE  \E m \in Nat : /\ a <= m /\ m <= b
                          /\ Copies(p, c, SubSeq(s, 1, n), a, m) /\ Copies(p, c, SubSeq(s, n + 1, Len(s)), m, b)
<1>1. PICK g \in [0..Len(s) -> Nat] :
        /\ g[0] = a /\ g[Len(s)] = b
        /\ \A i, j \in 0..Len(s) : i <= j => g[i] <= g[j]
        /\ \A i \in 1..Len(s) : Moves(p, c, s[i], g[i - 1], g[i])
  BY DEF Copies
<1>2. PICK q : q = SubSeq(s, 1, n)
  OBVIOUS
<1>3. PICK r : r = SubSeq(s, n + 1, Len(s))
  OBVIOUS
<1>4. PICK l : l = Len(s)
  OBVIOUS
<1>5. /\ Len(q) = n /\ \A i \in 1..n : q[i] = s[i]
      /\ Len(r) = l - n /\ \A i \in 1..l - n : r[i] = s[n + i]
      /\ l \in Nat /\ n \in 0..l /\ n <= l
  BY <1>2, <1>3, <1>4, CutIs
<1> DEFINE h == [i \in 0..n |-> g[i]]
           k == [i \in 0..l - n |-> g[n + i]]
<1>6. /\ \A i \in 0..n : i \in 0..l /\ h[i] = g[i]
      /\ \A i \in 0..l - n : n + i \in 0..l /\ k[i] = g[n + i]
      /\ 0 \in 0..n /\ n \in 0..n /\ 0 \in 0..l - n /\ l - n \in 0..l - n /\ n + 0 = n /\ n + (l - n) = l
  BY <1>5
<1>7. h \in [0..n -> Nat] /\ k \in [0..l - n -> Nat]
  <2>1. \A i \in 0..l : g[i] \in Nat
    BY <1>1, <1>4
  <2> QED BY <1>6, <2>1
<1> HIDE DEF h, k
<1>8. h[0] = a /\ h[n] = g[n] /\ k[0] = g[n] /\ k[l - n] = b
  BY <1>1, <1>4, <1>6
<1>9. g[n] \in Nat /\ a <= g[n] /\ g[n] <= b
  <2>1. 0 \in 0..l /\ n \in 0..l /\ l \in 0..l /\ 0 <= n /\ n <= l
    BY <1>5
  <2> QED BY <1>1, <1>4, <2>1
<1>10. Copies(p, c, q, a, g[n])
  <2>1. \A i, j \in 0..n : i <= j => h[i] <= h[j]
    BY <1>1, <1>4, <1>6
  <2>2. ASSUME NEW i \in 1..n PROVE Moves(p, c, q[i], h[i - 1], h[i])
    <3>1. i \in 1..l /\ i \in 0..n /\ i - 1 \in 0..n
      BY <1>5
    <3> QED BY <1>1, <1>4, <1>5, <1>6, <3>1
  <2> QED BY <1>5, <1>7, <1>8, <2>1, <2>2 DEF Copies
<1>11. Copies(p, c, r, g[n], b)
  <2>1. ASSUME NEW i \in 0..l - n, NEW j \in 0..l - n, i <= j PROVE k[i] <= k[j]
    <3>1. n + i <= n + j
      BY <1>5, <2>1
    <3> QED BY <1>1, <1>4, <1>6, <3>1
  <2>2. ASSUME NEW i \in 1..l - n PROVE Moves(p, c, r[i], k[i - 1], k[i])
    <3>1. n + i \in 1..l /\ i \in 0..l - n /\ i - 1 \in 0..l - n /\ n + (i - 1) = (n + i) - 1
      BY <1>5
    <3>2. r[i] = s[n + i] /\ k[i] = g[n + i] /\ k[i - 1] = g[(n + i) - 1]
      BY <1>5, <1>6, <3>1
    <3> QED BY <1>1, <1>4, <3>1, <3>2
  <2> QED BY <1>5, <1>7, <1>8, <2>1, <2>2 DEF Copies
<1> QED BY <1>2, <1>3, <1>9, <1>10, <1>11

\* The token in between.
LEMMA CopiesAt ==
    ASSUME NEW p, NEW c, NEW s \in Seq(Tokens), NEW a, NEW b, Copies(p, c, s, a, b), NEW n \in 1..Len(s)
    PROVE  \E k, m \in Nat : /\ a <= k /\ k <= m /\ m <= b /\ Moves(p, c, s[n], k, m)
                             /\ Copies(p, c, SubSeq(s, 1, n - 1), a, k) /\ Copies(p, c, SubSeq(s, n + 1, Len(s)), m, b)
<1>1. PICK l : l = Len(s)
  OBVIOUS
<1>2. l \in Nat /\ n \in 0..l /\ n \in Nat /\ n - 1 \in 0..l /\ n # 0 /\ (n - 1) + 1 = n /\ n \in 1..n /\ n - 1 \in 0..n
      /\ n <= l
  BY <1>1
<1>3. PICK m \in Nat : /\ a <= m /\ m <= b
                       /\ Copies(p, c, SubSeq(s, 1, n), a, m) /\ Copies(p, c, SubSeq(s, n + 1, Len(s)), m, b)
  BY <1>1, <1>2, CopiesCut
<1>4. PICK q : q = SubSeq(s, 1, n)
  OBVIOUS
<1>5. q \in Seq(Tokens) /\ Len(q) = n /\ \A i \in 1..n : q[i] = s[i]
  BY <1>1, <1>2, <1>4, CutIs
<1>6. PICK g \in [0..n -> Nat] :
        /\ g[0] = a /\ g[n] = m
        /\ \A i, j \in 0..n : i <= j => g[i] <= g[j]
        /\ \A i \in 1..n : Moves(p, c, q[i], g[i - 1], g[i])
  <2>1. Copies(p, c, q, a, m)
    BY <1>3, <1>4
  <2> QED BY <1>5, <2>1 DEF Copies
<1>7. PICK r : r = SubSeq(q, 1, n - 1)
  OBVIOUS
<1>8. Len(r) = n - 1 /\ \A i \in 1..n - 1 : r[i] = q[i]
  <2>1. n - 1 \in 0..Len(q)
    BY <1>2, <1>5
  <2> QED BY <1>5, <1>7, <2>1, CutIs
<1>9. r = SubSeq(s, 1, n - 1)
  <2>1. PICK u : u = SubSeq(s, 1, n - 1)
    OBVIOUS
  <2>2. u \in Seq(Tokens) /\ Len(u) = n - 1 /\ \A i \in 1..n - 1 : u[i] = s[i]
    BY <1>1, <1>2, <2>1, CutIs
  <2>3. r \in Seq(Tokens) /\ \A i \in 1..n - 1 : r[i] = s[i]
    <3>1. r \in Seq(Tokens)
      BY <1>2, <1>5, <1>7, CutIs
    <3>2. \A i \in 1..n - 1 : i \in 1..n
      BY <1>2
    <3> QED BY <1>5, <1>8, <3>1, <3>2
  <2>4. r = u
    BY <1>8, <2>2, <2>3
  <2> QED BY <2>1, <2>4
<1> DEFINE h == [i \in 0..n - 1 |-> g[i]]
<1>10. \A i \in 0..n - 1 : i \in 0..n /\ h[i] = g[i]
  BY <1>2
<1>11. h \in [0..n - 1 -> Nat]
  BY <1>6, <1>10
<1>12. 0 \in 0..n - 1 /\ n - 1 \in 0..n - 1 /\ n \in 0..n /\ 0 \in 0..n /\ n - 1 <= n /\ 0 <= n - 1
  BY <1>2
<1> HIDE DEF h
<1>13. h[0] = a /\ h[n - 1] = g[n - 1]
  BY <1>6, <1>10, <1>12
<1>14. \A i, j \in 0..n - 1 : i <= j => h[i] <= h[j]
  BY <1>6, <1>10
<1>15. ASSUME NEW i \in 1..n - 1 PROVE Moves(p, c, r[i], h[i - 1], h[i])
  <2>1. i \in 1..n /\ i \in 0..n - 1 /\ i - 1 \in 0..n - 1
    BY <1>2
  <2> QED BY <1>6, <1>8, <1>10, <2>1
<1>16. Copies(p, c, r, a, g[n - 1])
  BY <1>8, <1>11, <1>13, <1>14, <1>15 DEF Copies
<1>17. g[n - 1] \in Nat /\ a <= g[n - 1] /\ g[n - 1] <= m
  BY <1>6, <1>12
<1>18. Moves(p, c, s[n], g[n - 1], m)
  BY <1>2, <1>5, <1>6
<1> QED BY <1>3, <1>9, <1>16, <1>17, <1>18

\* What has already been written is not written otherwise: what carries no
\* more than that still does when c goes on writing.
LEMMA CopiesStay ==
    ASSUME NEW p, NEW c, NEW s \in Seq(Tokens), NEW a, NEW b, Copies(p, c, s, a, b),
           NEW q, Len(p) \in Nat, Len(q) \in Nat, Len(p) <= Len(q), \A i \in 1..Len(p) : q[i] = p[i], b <= Len(p)
    PROVE  Copies(q, c, s, a, b)
<1>1. PICK g \in [0..Len(s) -> Nat] :
        /\ g[0] = a /\ g[Len(s)] = b
        /\ \A i, j \in 0..Len(s) : i <= j => g[i] <= g[j]
        /\ \A i \in 1..Len(s) : Moves(p, c, s[i], g[i - 1], g[i])
  BY DEF Copies
<1>2. ASSUME NEW i \in 1..Len(s) PROVE Moves(q, c, s[i], g[i - 1], g[i])
  <2>1. i \in 0..Len(s) /\ i - 1 \in 0..Len(s) /\ Len(s) \in 0..Len(s) /\ i <= Len(s)
    OBVIOUS
  <2>2. g[i] \in Nat /\ g[i - 1] \in Nat /\ g[i] <= b /\ b \in Nat
    BY <1>1, <2>1
  <2>3. PICK k, m : k = g[i - 1] /\ m = g[i]
    OBVIOUS
  <2>4. k \in Nat /\ m \in Nat /\ m <= Len(p) /\ Moves(p, c, s[i], k, m)
    <3>1. Moves(p, c, s[i], g[i - 1], g[i])
      BY <1>1
    <3> QED BY <2>2, <2>3, <3>1
  <2>5. ~(Len(p) <= k /\ m = k + 1) /\ (m = k + 1 => m \in 1..Len(p) /\ m <= Len(q))
    BY <2>4
  <2>6. Moves(q, c, s[i], k, m)
    BY <2>4, <2>5 DEF Moves
  <2> QED BY <2>3, <2>6
<1> QED BY <1>1, <1>2 DEF Copies

\* Which tokens there are.
LEMMA CopiesKinds ==
    ASSUME NEW p, NEW c, NEW s \in Seq(Tokens), NEW a, NEW b, Copies(p, c, s, a, b), NEW i \in 1..Len(s)
    PROVE  \/ s[i] \in {<<"echo", c>>, <<"end", c>>, <<"ok", 0>>, <<"failed", 0>>, <<"prompt", 0>>}
           \/ s[i][1] \in Pieces /\ \E j \in 1..Len(p) : s[i] = p[j]
<1>1. PICK k, m \in Nat : Moves(p, c, s[i], k, m)
  BY CopiesAt
<1>2. ASSUME m = k + 1, m <= Len(p) PROVE m \in 1..Len(p)
  BY <1>2
<1> QED BY <1>1, <1>2 DEF Moves

\* A prompt comes behind all there is.
LEMMA CopiesPrompted ==
    ASSUME NEW p, Len(p) \in Nat, NEW c, NEW s \in Seq(Tokens), NEW a, NEW b, Copies(p, c, s, a, b), NEW i \in 1..Len(s),
           s[i][1] \in {"ok", "failed", "prompt"}
    PROVE  /\ Len(p) < b
           /\ \E k \in Nat : /\ a <= k /\ Len(p) <= k /\ k + 1 <= b
                             /\ Copies(p, c, SubSeq(s, 1, i - 1), a, k) /\ Copies(p, c, SubSeq(s, i + 1, Len(s)), k + 1, b)
<1>1. PICK k, m \in Nat : /\ a <= k /\ k <= m /\ m <= b /\ Moves(p, c, s[i], k, m)
                          /\ Copies(p, c, SubSeq(s, 1, i - 1), a, k) /\ Copies(p, c, SubSeq(s, i + 1, Len(s)), m, b)
  BY CopiesAt
<1>2. Len(p) <= k /\ m = k + 1
  BY <1>1 DEF Moves, Pieces
<1>3. b \in Nat
  BY CopiesOrder
<1> QED BY <1>1, <1>2, <1>3

\* Without prompts it does not go farther.
LEMMA CopiesUnprompted ==
    ASSUME NEW p, Len(p) \in Nat, NEW c, NEW s \in Seq(Tokens), NEW a, NEW b, Copies(p, c, s, a, b), a <= Len(p),
           \A i \in 1..Len(s) : s[i][1] \notin {"ok", "failed", "prompt"}
    PROVE  b <= Len(p)
<1>1. PICK g \in [0..Len(s) -> Nat] :
        /\ g[0] = a /\ g[Len(s)] = b
        /\ \A i, j \in 0..Len(s) : i <= j => g[i] <= g[j]
        /\ \A i \in 1..Len(s) : Moves(p, c, s[i], g[i - 1], g[i])
  BY DEF Copies
<1> SUFFICES ASSUME ~(b <= Len(p)) PROVE FALSE
  OBVIOUS
<1> DEFINE T == {i \in 0..Len(s) : ~(g[i] <= Len(p))}
<1>2. Len(s) \in Nat /\ T \subseteq Nat /\ Len(s) \in T
  BY <1>1
<1>3. PICK i \in T : \A j \in T : i <= j
  BY <1>2, LeastOf
<1>4. i # 0
  BY <1>1, <1>3
<1>5. i \in 1..Len(s) /\ i - 1 \in 0..Len(s) /\ ~(i <= i - 1)
  BY <1>2, <1>3, <1>4
<1>6. g[i - 1] <= Len(p) /\ ~(g[i] <= Len(p)) /\ Moves(p, c, s[i], g[i - 1], g[i])
  BY <1>1, <1>3, <1>5
<1>7. PICK k, m : k = g[i - 1] /\ m = g[i]
  OBVIOUS
<1>8. k \in Nat /\ m \in Nat /\ k <= Len(p) /\ ~(m <= Len(p)) /\ Moves(p, c, s[i], k, m)
  BY <1>1, <1>5, <1>6, <1>7
<1> QED BY <1>5, <1>8 DEF Moves, Pieces

\* Every piece it goes over is there.
LEMMA CopiesOnto ==
    ASSUME NEW p, Len(p) \in Nat, NEW c, NEW s \in Seq(Tokens), NEW a, NEW b, Copies(p, c, s, a, b),
           NEW j \in 1..Len(p), a < j, j <= b
    PROVE  \E i \in 1..Len(s) : s[i] = p[j]
<1>1. PICK g \in [0..Len(s) -> Nat] :
        /\ g[0] = a /\ g[Len(s)] = b
        /\ \A i, k \in 0..Len(s) : i <= k => g[i] <= g[k]
        /\ \A i \in 1..Len(s) : Moves(p, c, s[i], g[i - 1], g[i])
  BY DEF Copies
<1> DEFINE T == {i \in 0..Len(s) : j <= g[i]}
<1>2. Len(s) \in Nat /\ T \subseteq Nat /\ Len(s) \in T
  BY <1>1
<1>3. PICK i \in T : \A n \in T : i <= n
  BY <1>2, LeastOf
<1>4. i # 0
  <2>1. a \in Nat
    BY <1>1
  <2> QED BY <1>1, <1>3, <2>1
<1>5. i \in 1..Len(s) /\ i - 1 \in 0..Len(s) /\ ~(i <= i - 1)
  BY <1>2, <1>3, <1>4
<1>6. ~(j <= g[i - 1]) /\ j <= g[i] /\ Moves(p, c, s[i], g[i - 1], g[i])
  BY <1>1, <1>3, <1>5
<1>7. PICK k, m : k = g[i - 1] /\ m = g[i]
  OBVIOUS
<1>8. k \in Nat /\ m \in Nat /\ k < j /\ j <= m /\ Moves(p, c, s[i], k, m) /\ j <= Len(p)
  <2>1. i \in 0..Len(s)
    BY <1>5
  <2>2. g[i] \in Nat /\ g[i - 1] \in Nat
    BY <1>1, <1>5, <2>1
  <2>3. g[i - 1] < j
    BY <1>6, <2>2
  <2> QED BY <1>6, <1>7, <2>2, <2>3
<1>9. s[i] = p[j]
  BY <1>8 DEF Moves
<1> QED BY <1>5, <1>9

\* A piece that stands last is the last one.
LEMMA CopiesLast ==
    ASSUME NEW p, Len(p) \in Nat, NEW c, NEW s \in Seq(Tokens), NEW a, NEW b, Copies(p, c, s, a, b), s # <<>>, s[Len(s)][1] \in Pieces
    PROVE  b \in 1..Len(p) /\ a < b /\ s[Len(s)] = p[b]
<1>1. PICK n : n = Len(s)
  OBVIOUS
<1>2. n \in 1..n /\ n \in Nat /\ n \in 0..n
  BY <1>1
<1>3. PICK k, m \in Nat : a <= k /\ m <= b /\ Moves(p, c, s[n], k, m) /\ Copies(p, c, SubSeq(s, n + 1, Len(s)), m, b)
  BY <1>1, <1>2, CopiesAt
<1>4. SubSeq(s, n + 1, Len(s)) = <<>>
  BY <1>1, <1>2
<1>5. m = b
  <2>1. Copies(p, c, <<>>, m, b)
    BY <1>3, <1>4
  <2> QED BY <2>1, CopiesNothing
<1>6. m = k + 1 /\ m <= Len(p) /\ s[n] = p[m]
  BY <1>1, <1>3 DEF Moves, Pieces
<1>7. a \in Nat
  BY CopiesOrder
<1> QED BY <1>1, <1>3, <1>5, <1>6, <1>7

\* Lines, step by step.
LEMMA LinesStep ==
    ASSUME NEW s \in Seq(Tokens), NEW h,
           h = [i \in 0..Len(s) |-> IF i = 0 THEN <<>> ELSE IF s[i][1] \in Pieces THEN Append(h[i - 1], s[i]) ELSE h[i - 1]]
    PROVE  Lines(s) = h[Len(s)]
<1> DEFINE F(f) == [i \in 0..Len(s) |-> IF i = 0 THEN <<>> ELSE IF s[i][1] \in Pieces THEN Append(f[i - 1], s[i]) ELSE f[i - 1]]
<1>1. PICK u : u = CHOOSE f : f = F(f)
  OBVIOUS
<1>2. u = F(u)
  BY <1>1
<1>3. Lines(s) = u[Len(s)]
  BY <1>1 DEF Lines
<1>4. ASSUME NEW i \in 0..Len(s), u[i] # h[i] PROVE FALSE
  <2> DEFINE T == {j \in 0..Len(s) : u[j] # h[j]}
  <2> HIDE <1>2
  <2>1. Len(s) \in Nat /\ T \subseteq Nat
    OBVIOUS
  <2>0. i \in T
    BY <1>4
  <2>2. PICK j \in T : \A m \in T : j <= m
    BY <2>0, <2>1, LeastOf
  <2>3. CASE j = 0
    BY <1>2, <2>2, <2>3
  <2>4. CASE j # 0
    <3>1. j - 1 \in 0..Len(s) /\ ~(j <= j - 1) /\ j \in 0..Len(s)
      BY <2>1, <2>2, <2>4
    <3>2. u[j - 1] = h[j - 1]
      BY <2>2, <3>1
    <3>3. u[j] = (IF s[j][1] \in Pieces THEN Append(u[j - 1], s[j]) ELSE u[j - 1])
      BY <1>2, <2>4, <3>1
    <3>4. h[j] = (IF s[j][1] \in Pieces THEN Append(h[j - 1], s[j]) ELSE h[j - 1])
      BY <2>4, <3>1
    <3> QED BY <2>2, <3>2, <3>3, <3>4
  <2> QED BY <2>3, <2>4
<1>5. Len(s) \in 0..Len(s)
  OBVIOUS
<1> QED BY <1>3, <1>4, <1>5

\* The pieces of what is carried are those of the command, without a gap.
LEMMA LinesIs ==
    ASSUME NEW p \in Seq(Tokens), NEW c, NEW s \in Seq(Tokens), NEW a, NEW b, Copies(p, c, s, a, b)
    PROVE  \E i, j \in 0..Len(p) :
              /\ Lines(s) = SubSeq(p, i + 1, j)
              /\ a <= Len(p) => i = a
              /\ b <= Len(p) => j = b
<1>1. PICK g \in [0..Len(s) -> Nat] :
        /\ g[0] = a /\ g[Len(s)] = b
        /\ \A i, k \in 0..Len(s) : i <= k => g[i] <= g[k]
        /\ \A i \in 1..Len(s) : Moves(p, c, s[i], g[i - 1], g[i])
  BY DEF Copies
<1> DEFINE cut(v) == IF v <= Len(p) THEN v ELSE Len(p)
           f(v) == SubSeq(p, cut(a) + 1, v)
           h == [i \in 0..Len(s) |-> f(cut(g[i]))]
<1>2. Len(p) \in Nat /\ Len(s) \in Nat /\ a \in Nat /\ b \in Nat /\ a <= b
  BY CopiesOrder
<1>3. \A v \in Nat : cut(v) \in 0..Len(p) /\ (v <= Len(p) => cut(v) = v) /\ (Len(p) <= v => cut(v) = Len(p))
  BY <1>2
<1>4. \A i \in 0..Len(s) : g[i] \in Nat /\ a <= g[i]
  <2>1. \A i \in 0..Len(s) : 0 \in 0..Len(s) /\ 0 <= i
    BY <1>2
  <2> QED BY <1>1, <2>1
<1> HIDE DEF cut
<1>5. \A v \in Nat : a <= v => cut(a) <= cut(v)
  BY <1>2 DEF cut
<1>6. f(cut(a)) = <<>>
  <2>1. cut(a) \in Nat /\ cut(a) + 1 > cut(a)
    BY <1>2, <1>3
  <2>2. SubSeq(p, cut(a) + 1, cut(a)) = <<>>
    BY <2>1
  <2> QED BY <2>2
<1>7. ASSUME NEW k \in Nat, k + 1 <= Len(p), a <= k PROVE f(k + 1) = Append(f(k), p[k + 1])
  <2>1. PICK n : n = cut(a)
    OBVIOUS
  <2>2. n = a /\ n \in Nat /\ n <= k /\ k + 1 \in 1..Len(p)
    BY <1>2, <1>3, <1>7, <2>1
  <2>3. \A i \in n + 1..k + 1 : p[i] \in Tokens
    BY <1>7, <2>2
  <2>4. SubSeq(p, n + 1, k + 1) = Append(SubSeq(p, n + 1, k), p[k + 1])
    BY <1>7, <2>2
  <2> QED BY <2>1, <2>4
<1>8. ASSUME NEW i \in 1..Len(s)
      PROVE  f(cut(g[i])) = IF s[i][1] \in Pieces THEN Append(f(cut(g[i - 1])), s[i]) ELSE f(cut(g[i - 1]))
  <2>1. i \in 0..Len(s) /\ i - 1 \in 0..Len(s) /\ Moves(p, c, s[i], g[i - 1], g[i])
    BY <1>1, <1>2
  <2>2. PICK k, m : k = g[i - 1] /\ m = g[i]
    OBVIOUS
  <2>3. k \in Nat /\ m \in Nat /\ a <= k /\ Moves(p, c, s[i], k, m)
    BY <1>4, <2>1, <2>2
  <2>4. CASE s[i][1] \in Pieces
    <3>1. m = k + 1 /\ m <= Len(p) /\ s[i] = p[m]
      BY <2>3, <2>4 DEF Moves, Pieces
    <3>2. cut(m) = k + 1 /\ cut(k) = k
      BY <1>2, <1>3, <2>3, <3>1
    <3>3. f(cut(m)) = Append(f(cut(k)), s[i])
      BY <1>7, <2>3, <3>1, <3>2
    <3> QED BY <2>2, <2>4, <3>3
  <2>5. CASE s[i][1] \notin Pieces
    <3>1. m = k \/ (Len(p) <= k /\ m = k + 1)
      BY <2>3, <2>5 DEF Moves
    <3>2. cut(m) = cut(k)
      BY <1>2, <1>3, <2>3, <3>1
    <3> QED BY <2>2, <2>5, <3>2
  <2> QED BY <2>4, <2>5
<1> HIDE DEF f
<1>9. h = [i \in 0..Len(s) |-> IF i = 0 THEN <<>> ELSE IF s[i][1] \in Pieces THEN Append(h[i - 1], s[i]) ELSE h[i - 1]]
  <2>1. ASSUME NEW i \in 0..Len(s)
        PROVE  f(cut(g[i])) = IF i = 0 THEN <<>> ELSE IF s[i][1] \in Pieces THEN Append(h[i - 1], s[i]) ELSE h[i - 1]
    <3>1. CASE i = 0
      BY <1>1, <1>6, <3>1
    <3>2. CASE i # 0
      <4>1. i \in 1..Len(s) /\ i - 1 \in 0..Len(s)
        BY <1>2, <3>2
      <4>2. h[i - 1] = f(cut(g[i - 1]))
        BY <4>1
      <4> QED BY <1>8, <3>2, <4>1, <4>2
    <3> QED BY <3>1, <3>2
  <2> QED BY <2>1
<1>10. Lines(s) = h[Len(s)]
  BY <1>9, LinesStep
<1>11. h[Len(s)] = f(cut(b))
  BY <1>1, <1>2
<1>12. Lines(s) = SubSeq(p, cut(a) + 1, cut(b))
  BY <1>10, <1>11 DEF f
<1> QED BY <1>2, <1>3, <1>12

\* What stands in a part stands in the whole.
LEMMA WithinParts ==
    ASSUME NEW s \in Seq(Tokens)
    PROVE  /\ \A n \in 0..Len(s) : Within(SubSeq(s, 1, n), s) /\ Within(SubSeq(s, n + 1, Len(s)), s)
           /\ Within(s, s) /\ Within(<<>>, s)
<1>1. ASSUME NEW n \in 0..Len(s) PROVE Within(SubSeq(s, 1, n), s) /\ Within(SubSeq(s, n + 1, Len(s)), s)
  <2>1. \A i \in 1..n : i \in 1..Len(s)
    OBVIOUS
  <2>2. \A i \in 1..Len(s) - n : n + i \in 1..Len(s)
    OBVIOUS
  <2>3. Within(SubSeq(s, 1, n), s)
    BY <2>1, CutIs DEF Within
  <2>4. Within(SubSeq(s, n + 1, Len(s)), s)
    BY <2>2, CutIs DEF Within
  <2> QED BY <2>3, <2>4
<1>2. Within(s, s)
  BY DEF Within
<1>3. Within(<<>>, s)
  <2>1. \A i \in 1..Len(<<>>) : FALSE
    OBVIOUS
  <2> QED BY <2>1 DEF Within
<1> QED BY <1>1, <1>2, <1>3

\* What is said of all of a sequence is so of its parts, and of two joined.
LEMMA WithinIs ==
    ASSUME NEW r, NEW s, Within(r, s)
    PROVE  /\ Plain(s) => Plain(r)
           /\ Endless(s) => Endless(r)
           /\ \A c : Fresh(s, c) => Fresh(r, c)
           /\ Wired(s) => Wired(r)
           /\ \A mark : (\A i \in 1..Len(s) : s[i] # mark) => \A i \in 1..Len(r) : r[i] # mark
  BY DEF Within, Plain, Endless, Fresh, Wired

\* What stands in two joined stands in one of them.
LEMMA JoinedIs ==
    ASSUME NEW r \in Seq(Tokens), NEW s \in Seq(Tokens)
    PROVE  /\ r \o s \in Seq(Tokens)
           /\ \A i \in 1..Len(r \o s) : (\E j \in 1..Len(r) : (r \o s)[i] = r[j]) \/ (\E j \in 1..Len(s) : (r \o s)[i] = s[j])
<1>1. PICK q : q = r \o s
  OBVIOUS
<1>2. /\ q \in Seq(Tokens) /\ Len(q) = Len(r) + Len(s) /\ Len(r) \in Nat /\ Len(s) \in Nat
      /\ \A i \in 1..Len(r) : q[i] = r[i]
      /\ \A i \in 1..Len(r) + Len(s) : i > Len(r) => i - Len(r) \in 1..Len(s) /\ q[i] = s[i - Len(r)]
  BY <1>1, JoinIs
<1>3. ASSUME NEW i \in 1..Len(q) PROVE (\E j \in 1..Len(r) : q[i] = r[j]) \/ (\E j \in 1..Len(s) : q[i] = s[j])
  <2>1. CASE i <= Len(r)
    <3>1. i \in 1..Len(r)
      BY <1>2, <2>1
    <3> QED BY <1>2, <3>1
  <2>2. CASE i > Len(r)
    BY <1>2, <2>2
  <2> QED BY <1>2, <2>1, <2>2
<1> QED BY <1>1, <1>2, <1>3

\* The same, for what is said of all.
LEMMA JoinedAre ==
    ASSUME NEW r \in Seq(Tokens), NEW s \in Seq(Tokens)
    PROVE  /\ Plain(r) /\ Plain(s) => Plain(r \o s)
           /\ Endless(r) /\ Endless(s) => Endless(r \o s)
           /\ \A c : Fresh(r, c) /\ Fresh(s, c) => Fresh(r \o s, c)
           /\ Wired(r) /\ Wired(s) => Wired(r \o s)
           /\ \A mark : (\A i \in 1..Len(r) : r[i] # mark) /\ (\A i \in 1..Len(s) : s[i] # mark)
                => \A i \in 1..Len(r \o s) : (r \o s)[i] # mark
<1>1. PICK q : q = r \o s
  OBVIOUS
<1>2. \A i \in 1..Len(q) : (\E j \in 1..Len(r) : q[i] = r[j]) \/ (\E j \in 1..Len(s) : q[i] = s[j])
  BY <1>1, JoinedIs
<1>3. /\ Plain(r) /\ Plain(s) => Plain(q)
      /\ Endless(r) /\ Endless(s) => Endless(q)
      /\ \A c : Fresh(r, c) /\ Fresh(s, c) => Fresh(q, c)
      /\ Wired(r) /\ Wired(s) => Wired(q)
  BY <1>2 DEF Plain, Endless, Fresh, Wired
<1>4. \A mark : (\A i \in 1..Len(r) : r[i] # mark) /\ (\A i \in 1..Len(s) : s[i] # mark)
                => \A i \in 1..Len(q) : q[i] # mark
  BY <1>2
<1> QED BY <1>1, <1>3, <1>4

\* Nothing, and one token.
LEMMA FewTokens ==
    /\ Plain(<<>>) /\ Endless(<<>>) /\ Wired(<<>>) /\ \A c : Fresh(<<>>, c)
    /\ \A mark : ~Has(<<>>, mark)
    /\ \A t : t[1] # "end" => Endless(<<t>>)
    /\ \A t, c : t[2] # c => Fresh(<<t>>, c)
    /\ \A t : t[2] <= Pressed /\ t[1] \notin Statuses => Wired(<<t>>)
    /\ \A t, mark : t # mark => \A i \in 1..Len(<<t>>) : <<t>>[i] # mark
<1>1. \A i \in 1..Len(<<>>) : FALSE
  OBVIOUS
<1>2. \A t : \A i \in 1..Len(<<t>>) : i = 1 /\ <<t>>[i] = t
  OBVIOUS
<1>3. DOMAIN <<>> = {}
  OBVIOUS
<1>4. Plain(<<>>) /\ Endless(<<>>) /\ Wired(<<>>) /\ \A c : Fresh(<<>>, c)
  BY <1>1 DEF Plain, Endless, Wired, Fresh
<1>5. \A mark : ~Has(<<>>, mark)
  BY <1>3 DEF Has
<1>6. \A t : t[1] # "end" => Endless(<<t>>)
  BY <1>2 DEF Endless
<1>7. \A t, c : t[2] # c => Fresh(<<t>>, c)
  BY <1>2 DEF Fresh
<1>8. \A t : t[2] <= Pressed /\ t[1] \notin Statuses => Wired(<<t>>)
  BY <1>2 DEF Wired
<1>9. \A t, mark : t # mark => \A i \in 1..Len(<<t>>) : <<t>>[i] # mark
  BY <1>2
<1> QED BY <1>4, <1>5, <1>6, <1>7, <1>8, <1>9

\* After and Before are parts.
LEMMA AroundIs ==
    ASSUME NEW s \in Seq(Tokens), NEW n \in 1..Len(s)
    PROVE  /\ After(s, n) = SubSeq(s, n + 1, Len(s)) /\ Before(s, n) = SubSeq(s, 1, n - 1)
           /\ After(s, n) \in Seq(Tokens) /\ Before(s, n) \in Seq(Tokens)
           /\ Within(After(s, n), s) /\ Within(Before(s, n), s)
           /\ Len(Before(s, n)) = n - 1 /\ \A i \in 1..n - 1 : i \in 1..Len(s) /\ Before(s, n)[i] = s[i]
           /\ Len(After(s, n)) = Len(s) - n /\ \A i \in 1..Len(s) - n : n + i \in 1..Len(s) /\ After(s, n)[i] = s[n + i]
<1>1. n \in 0..Len(s) /\ n - 1 \in 0..Len(s) /\ n \in Nat
  OBVIOUS
<1>2. \A i \in 1..n - 1 : i \in 1..Len(s)
  OBVIOUS
<1>3. \A i \in 1..Len(s) - n : n + i \in 1..Len(s)
  OBVIOUS
<1> QED BY <1>1, <1>2, <1>3, CutIs, WithinParts DEF After, Before

\* What stands behind the echo is all there is.
LEMMA EchoDropped ==
    ASSUME NEW p, NEW c, NEW s \in Seq(Tokens), NEW a, NEW b, Copies(p, c, s, a, b), NEW mark, mark = <<"echo", c>>, Has(s, mark)
    PROVE  /\ After(s, First(s, mark)) \in Seq(Tokens) /\ Within(After(s, First(s, mark)), s)
           /\ Copies(p, c, After(s, First(s, mark)), 0, b) /\ a = 0
<1>1. PICK n \in 1..Len(s) : n = First(s, mark) /\ s[n] = mark
  BY FirstIs
<1>2. PICK k, m \in Nat : a <= k /\ Moves(p, c, s[n], k, m) /\ Copies(p, c, SubSeq(s, n + 1, Len(s)), m, b)
  BY CopiesAt
<1>3. k = 0 /\ m = 0
  BY <1>1, <1>2 DEF Moves, Pieces
<1>4. a \in Nat
  BY CopiesOrder
<1>5. a = 0
  BY <1>2, <1>3, <1>4
<1> QED BY <1>1, <1>2, <1>3, <1>5, AroundIs

\* What stands before the last prompt is all that was written, and without a
\* prompt no less is there than was read.
LEMMA BeforePromptCopies ==
    ASSUME NEW p, Len(p) \in Nat, NEW c, NEW s \in Seq(Tokens), NEW a, NEW b, Copies(p, c, s, a, b),
           a <= Len(p), b <= Len(p) + 1, Plain(s)
    PROVE  \E r \in Seq(Tokens), k \in Nat :
              /\ r = BeforePrompt(s) /\ Within(r, s) /\ k <= Len(p) /\ Copies(p, c, r, a, k)
              /\ b = k \/ (k = Len(p) /\ b = k + 1)
              /\ Has(s, Prompt) => k = Len(p) /\ b = k + 1
<1> DEFINE prompts == {i \in DOMAIN s : s[i] = Prompt}
<1>1. Len(s) \in Nat /\ DOMAIN s = 1..Len(s) /\ prompts \in SUBSET (1..Len(s))
  OBVIOUS
<1>2. a \in Nat /\ b \in Nat
  BY CopiesOrder
<1>3. CASE prompts = {}
  <2>1. BeforePrompt(s) = s /\ ~Has(s, Prompt)
    BY <1>3 DEF BeforePrompt, Has
  <2>2. ASSUME NEW i \in 1..Len(s) PROVE s[i][1] \notin {"ok", "failed", "prompt"}
    <3>1. s[i] # Prompt /\ s[i][1] \notin {"ok", "failed", "end"}
      BY <1>1, <1>3, <2>2 DEF Plain
    <3>2. CASE s[i] \in {<<"echo", c>>, <<"end", c>>, <<"ok", 0>>, <<"failed", 0>>, <<"prompt", 0>>}
      BY <3>1, <3>2 DEF Prompt
    <3>3. CASE s[i][1] \in Pieces
      BY <3>3 DEF Pieces
    <3> QED BY <3>2, <3>3, CopiesKinds
  <2>3. b <= Len(p)
    BY <2>2, CopiesUnprompted
  <2> QED BY <1>2, <2>1, <2>3, WithinParts
<1>4. CASE prompts # {}
  <2>1. \E n \in prompts : \A m \in prompts : m <= n
    BY <1>1, <1>4, GreatestOf
  <2> DEFINE n == CHOOSE i \in prompts : \A j \in prompts : j <= i
  <2>2. n \in 1..Len(s) /\ s[n] = Prompt
    BY <1>1, <2>1
  <2>3. BeforePrompt(s) = Before(s, n)
    BY <1>4 DEF BeforePrompt
  <2> HIDE DEF n
  <2>4. s[n][1] \in {"ok", "failed", "prompt"}
    BY <2>2 DEF Prompt
  <2>5. PICK k \in Nat : /\ a <= k /\ Len(p) <= k /\ k + 1 <= b
                         /\ Copies(p, c, SubSeq(s, 1, n - 1), a, k) /\ Copies(p, c, SubSeq(s, n + 1, Len(s)), k + 1, b)
    BY <2>2, <2>4, CopiesPrompted
  <2>6. k = Len(p) /\ b = k + 1
    BY <1>2, <2>5
  <2> QED BY <2>2, <2>3, <2>5, <2>6, AroundIs
<1> QED BY <1>3, <1>4

-----------------------------------------------------------------------------
(* The reader of a PowerShell session: waiting, capturing and draining.      *)

\* What no phase changes.
SameMarks(y, z) == z.id = y.id /\ z.startMark = y.startMark

\* The phases of the reader leave the marks of the record alone.
LEMMA MarksKept ==
    ASSUME NEW y \in Execution
    PROVE  /\ SameMarks(y, AwaitStart(y)) /\ SameMarks(y, Capture(y)) /\ SameMarks(y, Drain(y))
           /\ \A s \in Seq(Tokens) : [y EXCEPT !.buf = s] \in Execution /\ SameMarks(y, [y EXCEPT !.buf = s])
<1>1. SameMarks(y, AwaitStart(y))
  BY DEF AwaitStart, SameMarks, Execution
<1>2. SameMarks(y, Drain(y))
  <2>1. PICK late : late = BeforePrompt(y.buf)
    OBVIOUS
  <2>2. PICK text : text = (IF Has(late, <<"echo", cmd>>) THEN After(late, First(late, <<"echo", cmd>>)) ELSE late)
    OBVIOUS
  <2>3. PICK o : o = y.out \o text
    OBVIOUS
  <2>4. Drain(y) = y \/ Drain(y) = [y EXCEPT !.out = o, !.buf = <<>>, !.done = TRUE]
    BY <2>1, <2>2, <2>3 DEF Drain
  <2> QED BY <2>4 DEF SameMarks, Execution
<1>3. SameMarks(y, Capture(y))
  <2>1. CASE y.phase # "capture"
    BY <2>1 DEF Capture, SameMarks
  <2>2. CASE y.phase = "capture" /\ ~y.endMark
    <3>1. PICK z : z = AppendCapture(y, y.buf)
      OBVIOUS
    <3>2. PICK held : held = y.prefix \o y.buf
      OBVIOUS
    <3>3. PICK o : o = y.out \o held
      OBVIOUS
    <3>4. PICK u : u = y.out \o After(held, First(held, <<"echo", cmd>>))
      OBVIOUS
    <3>5. z \in Execution /\ SameMarks(y, z)
      <4>1. z \in Execution
        BY <3>1, AppendCaptureTyped, ExecutionsAre
      <4>2. \/ z = [y EXCEPT !.out = o] \/ z = [y EXCEPT !.echo = FALSE, !.prefix = <<>>, !.out = u]
            \/ z = [y EXCEPT !.echo = FALSE, !.prefix = <<>>, !.out = o] \/ z = [y EXCEPT !.prefix = held]
        BY <3>1, <3>2, <3>3, <3>4 DEF AppendCapture
      <4> QED BY <4>1, <4>2 DEF SameMarks, Execution
    <3>6. Capture(y) = [z EXCEPT !.buf = <<>>]
      BY <2>2, <3>1 DEF Capture
    <3> QED BY <3>5, <3>6 DEF SameMarks, Execution
  <2>3. CASE y.phase = "capture" /\ y.endMark
    <3>1. PICK i : i = First(y.buf, <<"end", y.id>>)
      OBVIOUS
    <3>2. PICK late : late = After(y.buf, i)
      OBVIOUS
    <3>3. PICK o : o = y.out \o BeforePrompt(Before(y.buf, i))
      OBVIOUS
    <3>4. PICK s : s = (IF flagged THEN "cancelled" ELSE y.ended)
      OBVIOUS
    <3>5. Capture(y) = y \/ Capture(y) = [y EXCEPT !.phase = "drain", !.out = o, !.buf = late, !.status = s]
      BY <2>3, <3>1, <3>2, <3>3, <3>4 DEF Capture
    <3> QED BY <3>5 DEF SameMarks, Execution
  <2> QED BY <2>1, <2>2, <2>3
<1>4. \A s \in Seq(Tokens) : [y EXCEPT !.buf = s] \in Execution /\ SameMarks(y, [y EXCEPT !.buf = s])
  BY DEF SameMarks, Execution
<1> QED BY <1>1, <1>2, <1>3, <1>4

\* Text that is captured goes on where the last ended, behind the echo or the
\* first line; until then it is held back.
LEMMA AppendCaptured ==
    ASSUME NEW y \in Execution, NEW p, Len(p) \in Nat, NEW e, e <= Len(p), Captured(y, cmd, p, e), Plain(y.buf)
    PROVE  \E z \in Execution : z = [AppendCapture(y, y.buf) EXCEPT !.buf = <<>>] /\ Captured(z, cmd, p, e) /\ z.buf = <<>>
<1>1. PICK held : held = y.prefix \o y.buf
  OBVIOUS
<1>2. y.out \in Seq(Tokens) /\ y.prefix \in Seq(Tokens) /\ y.buf \in Seq(Tokens) /\ y.echo \in BOOLEAN
  BY ExecutionsAre
<1>3. held \in Seq(Tokens)
  BY <1>1, <1>2
<1>4. PICK b, d \in Nat : d <= Len(p) /\ Copies(p, cmd, y.out, 0, b) /\ Copies(p, cmd, y.prefix, b, d) /\ Copies(p, cmd, y.buf, d, e)
  BY DEF Captured
<1>5. Copies(p, cmd, held, b, e) /\ Plain(held) /\ Plain(y.out)
  BY <1>1, <1>2, <1>4, CopiesJoin, JoinedAre DEF Captured
<1>6. e \in Nat /\ Plain(<<>>) /\ Copies(p, cmd, <<>>, e, e) /\ <<>> \in Seq(Tokens)
  <2>1. e \in Nat
    BY <1>2, <1>4, CopiesOrder
  <2>2. <<>> \in Seq(Tokens)
    OBVIOUS
  <2> QED BY <2>1, <2>2, CopiesNothing, FewTokens
<1>7. ASSUME NEW z \in Execution, z.buf = <<>>, z.out \in Seq(Tokens), Plain(z.out), Copies(p, cmd, z.out, 0, e), z.prefix = <<>>,
             z.echo = FALSE
      PROVE  Captured(z, cmd, p, e)
  BY <1>6, <1>7 DEF Captured
<1>8. ASSUME NEW o \in Seq(Tokens), o = y.out \o held PROVE Copies(p, cmd, o, 0, e) /\ Plain(o)
  BY <1>2, <1>3, <1>4, <1>5, <1>8, CopiesJoin, JoinedAre
<1>9. CASE ~y.echo
  <2>1. PICK o : o = y.out \o held
    OBVIOUS
  <2>2. o \in Seq(Tokens)
    BY <1>2, <1>3, <2>1
  <2>3. PICK z : z = [[y EXCEPT !.out = o] EXCEPT !.buf = <<>>]
    OBVIOUS
  <2>4. z \in Execution /\ z.buf = <<>> /\ z.out = o /\ z.prefix = y.prefix /\ z.echo = y.echo
    BY <1>6, <2>2, <2>3 DEF Execution
  <2>5. AppendCapture(y, y.buf) = [y EXCEPT !.out = o]
    BY <1>1, <1>9, <2>1 DEF AppendCapture
  <2>6. y.prefix = <<>> /\ y.echo = FALSE
    BY <1>2, <1>9 DEF Captured
  <2>7. Copies(p, cmd, o, 0, e) /\ Plain(o)
    BY <1>8, <2>1, <2>2
  <2> QED BY <1>7, <2>2, <2>3, <2>4, <2>5, <2>6, <2>7
<1>10. CASE y.echo /\ Has(held, <<"echo", cmd>>)
  <2>1. PICK late : late = After(held, First(held, <<"echo", cmd>>))
    OBVIOUS
  <2>2. late \in Seq(Tokens) /\ Within(late, held) /\ Copies(p, cmd, late, 0, e)
    BY <1>3, <1>5, <1>10, <2>1, EchoDropped
  <2>3. PICK o : o = y.out \o late
    OBVIOUS
  <2>4. o \in Seq(Tokens)
    BY <1>2, <2>2, <2>3
  <2>5. PICK z : z = [[y EXCEPT !.echo = FALSE, !.prefix = <<>>, !.out = o] EXCEPT !.buf = <<>>]
    OBVIOUS
  <2>6. z \in Execution /\ z.buf = <<>> /\ z.out = o /\ z.prefix = <<>> /\ z.echo = FALSE
    BY <1>6, <2>4, <2>5 DEF Execution
  <2>7. AppendCapture(y, y.buf) = [y EXCEPT !.echo = FALSE, !.prefix = <<>>, !.out = o]
    BY <1>1, <1>10, <2>1, <2>3 DEF AppendCapture
  <2>8. Plain(late) /\ b = 0
    <3>1. y.out = <<>>
      BY <1>10 DEF Captured, HeldBack
    <3>2. Copies(p, cmd, <<>>, 0, b)
      BY <1>4, <3>1
    <3> QED BY <1>5, <2>2, <3>2, CopiesNothing, WithinIs
  <2>9. Copies(p, cmd, o, 0, e) /\ Plain(o)
    BY <1>2, <1>4, <1>5, <2>2, <2>3, <2>8, CopiesJoin, JoinedAre
  <2> QED BY <1>7, <2>4, <2>5, <2>6, <2>7, <2>9
<1>11. CASE y.echo /\ ~Has(held, <<"echo", cmd>>) /\ EndsLine(held) /\ ~MayBeginEcho(held)
  <2>1. PICK o : o = y.out \o held
    OBVIOUS
  <2>2. o \in Seq(Tokens)
    BY <1>2, <1>3, <2>1
  <2>3. PICK z : z = [[y EXCEPT !.echo = FALSE, !.prefix = <<>>, !.out = o] EXCEPT !.buf = <<>>]
    OBVIOUS
  <2>4. z \in Execution /\ z.buf = <<>> /\ z.out = o /\ z.prefix = <<>> /\ z.echo = FALSE
    BY <1>6, <2>2, <2>3 DEF Execution
  <2>5. AppendCapture(y, y.buf) = [y EXCEPT !.echo = FALSE, !.prefix = <<>>, !.out = o]
    BY <1>1, <1>11, <2>1 DEF AppendCapture
  <2>7. Copies(p, cmd, o, 0, e) /\ Plain(o)
    BY <1>8, <2>1, <2>2
  <2> QED BY <1>7, <2>2, <2>3, <2>4, <2>5, <2>7
<1>12. CASE y.echo /\ ~Has(held, <<"echo", cmd>>) /\ ~(EndsLine(held) /\ ~MayBeginEcho(held))
  <2>1. PICK z : z = [[y EXCEPT !.prefix = held] EXCEPT !.buf = <<>>]
    OBVIOUS
  <2>2. z \in Execution /\ z.buf = <<>> /\ z.out = y.out /\ z.prefix = held /\ z.echo = y.echo
    BY <1>3, <1>6, <2>1 DEF Execution
  <2>3. AppendCapture(y, y.buf) = [y EXCEPT !.prefix = held]
    BY <1>1, <1>12 DEF AppendCapture
  <2>4. HeldBack(z, cmd)
    BY <1>12, <2>2 DEF Captured, HeldBack
  <2>5. Captured(z, cmd, p, e)
    BY <1>4, <1>5, <1>6, <1>12, <2>2, <2>4 DEF Captured
  <2> QED BY <2>1, <2>2, <2>3, <2>5
<1> QED BY <1>9, <1>10, <1>11, <1>12

\* A token is its kind and its command.
LEMMA TokenPair == ASSUME NEW t \in Tokens PROVE t = <<t[1], t[2]>> /\ t[1] \in Texts \cup Marks /\ t[2] \in 0..LastCommand
  BY DEF Tokens

\* What c has written is its own.
PiecesOf(p, c) == p \in Seq(Tokens) /\ \A i \in 1..Len(p) : p[i][1] \in Pieces /\ p[i][2] = c
\* What the filter of the echo holds back when the end mark comes is lost: it
\* ends as the echo begins, or no line of it has ended.
LEMMA LostIs ==
    ASSUME NEW y \in Execution, NEW p, PiecesOf(p, cmd), NEW d, d <= Len(p), setting.kind = "powershell",
           HeldBack(y, cmd), Plain(y.prefix), Copies(p, cmd, y.prefix, 0, d)
    PROVE  MayLose(p, cmd, d)
<1>1. PICK s : s = y.prefix
  OBVIOUS
<1>2. s \in Seq(Tokens) /\ Copies(p, cmd, s, 0, d) /\ Plain(s) /\ ~Has(s, <<"echo", cmd>>) /\ (EndsLine(s) => MayBeginEcho(s))
  BY <1>1, ExecutionsAre DEF HeldBack
<1>3. d \in Nat /\ Len(s) \in Nat /\ DOMAIN s = 1..Len(s)
  BY <1>2, CopiesOrder
<1>0. Len(p) \in Nat /\ \A i \in 1..Len(p) : p[i] \in Tokens
  BY DEF PiecesOf
<1>4. CASE MayBeginEcho(s)
  <2>1. s # <<>> /\ s[Len(s)][1] = "stem"
    BY <1>4 DEF MayBeginEcho
  <2>2. d \in 1..Len(p) /\ s[Len(s)] = p[d]
    BY <1>0, <1>2, <2>1, CopiesLast DEF Pieces
  <2>3. p[d] = <<"stem", cmd>>
    BY <1>0, <2>1, <2>2, TokenPair DEF PiecesOf
  <2>4. d > 0
    BY <2>2
  <2> QED BY <2>3, <2>4 DEF MayLose
<1>5. CASE ~EndsLine(s)
  <2>1. ASSUME NEW j \in 1..d, p[j] = <<"line", cmd>> PROVE FALSE
    <3>1. j \in 1..Len(p) /\ 0 < j /\ j <= d
      BY <1>3
    <3>2. PICK i \in 1..Len(s) : s[i] = p[j]
      BY <1>0, <1>2, <3>1, CopiesOnto
    <3> QED BY <1>3, <1>5, <2>1, <3>2 DEF EndsLine
  <2> QED BY <2>1 DEF MayLose
<1> QED BY <1>2, <1>4, <1>5

\* What stands before and behind the mark at n.
CutAt(p, c, s, n, d, e) ==
    \E k \in Nat, t, late \in Seq(Tokens) :
        /\ t = Before(s, n) /\ late = After(s, n) /\ k <= e
        /\ Copies(p, c, t, d, k) /\ Copies(p, c, late, k, e) /\ Plain(t) /\ Plain(late)
\* The only end mark.
LEMMA MarkCut ==
    ASSUME NEW p, NEW c, NEW s \in Seq(Tokens), NEW d, NEW e, Copies(p, c, s, d, e), NEW n \in 1..Len(s), s[n] = <<"end", c>>,
           \A i \in 1..Len(s) : s[i][1] \notin Statuses,
           \A i, j \in 1..Len(s) : s[i] = <<"end", c>> /\ s[j] = <<"end", c>> => i = j
    PROVE  CutAt(p, c, s, n, d, e)
<1>1. PICK k, m \in Nat : /\ d <= k /\ k <= m /\ m <= e /\ Moves(p, c, s[n], k, m)
                          /\ Copies(p, c, SubSeq(s, 1, n - 1), d, k) /\ Copies(p, c, SubSeq(s, n + 1, Len(s)), m, e)
  BY CopiesAt
<1>2. m = k
  BY <1>1 DEF Moves, Pieces
<1>3. PICK t : t = Before(s, n)
  OBVIOUS
<1>4. PICK late : late = After(s, n)
  OBVIOUS
<1>5. t \in Seq(Tokens) /\ Copies(p, c, t, d, k) /\ late \in Seq(Tokens) /\ Copies(p, c, late, k, e)
  BY <1>1, <1>2, <1>3, <1>4, AroundIs
<1>6. ASSUME NEW i \in 1..Len(s), s[i][1] = "end" PROVE i = n
  <2>1. s[i] \in {<<"echo", c>>, <<"end", c>>, <<"ok", 0>>, <<"failed", 0>>, <<"prompt", 0>>} \/ s[i][1] \in Pieces
    BY CopiesKinds
  <2>2. s[i] = <<"end", c>>
    BY <1>6, <2>1 DEF Pieces
  <2> QED BY <2>2
<1>7. Len(s) \in Nat /\ n \in Nat
  OBVIOUS
<1>8. Plain(t)
  <2>0. \A i \in 1..n - 1 : i \in 1..Len(s) /\ i # n
    BY <1>7
  <2>1. ASSUME NEW i \in 1..n - 1 PROVE i \in 1..Len(s) /\ i # n /\ t[i] = s[i]
    <3>1. Before(s, n)[i] = s[i]
      BY AroundIs
    <3> QED BY <1>3, <2>0, <3>1
  <2>2. \A i \in 1..n - 1 : t[i][1] \notin {"end", "ok", "failed"}
    BY <1>6, <2>1 DEF Statuses
  <2>3. Len(t) = n - 1
    BY <1>3, AroundIs
  <2> QED BY <2>2, <2>3 DEF Plain
<1>9. Plain(late)
  <2>0. \A i \in 1..Len(s) - n : n + i \in 1..Len(s) /\ n + i # n
    BY <1>7
  <2>1. ASSUME NEW i \in 1..Len(s) - n PROVE n + i \in 1..Len(s) /\ n + i # n /\ late[i] = s[n + i]
    <3>1. After(s, n)[i] = s[n + i]
      BY AroundIs
    <3> QED BY <1>4, <2>0, <3>1
  <2>2. \A i \in 1..Len(s) - n : late[i][1] \notin {"end", "ok", "failed"}
    BY <1>6, <2>1 DEF Statuses
  <2>3. Len(late) = Len(s) - n
    BY <1>4, AroundIs
  <2> QED BY <2>2, <2>3 DEF Plain
<1> QED BY <1>1, <1>2, <1>3, <1>4, <1>5, <1>8, <1>9 DEF CutAt

\* The end mark of the command stands behind all it has written that did not
\* come late.
LEMMA MarkCaptured ==
    ASSUME NEW y \in Execution, NEW p, PiecesOf(p, cmd), NEW e, e <= Len(p) + 1, Captured(y, cmd, p, e),
           setting.kind = "powershell", y.phase = "capture", y.endMark, y.id = cmd,
           \A i \in 1..Len(y.buf) : y.buf[i][1] \notin Statuses,
           \A i, j \in 1..Len(y.buf) : y.buf[i] = <<"end", cmd>> /\ y.buf[j] = <<"end", cmd>> => i = j,
           Has(y.buf, <<"end", cmd>>)
    PROVE  \E z \in Execution : z = Capture(y) /\ Drained(z, cmd, p, e) /\ z.phase = "drain"
<1>1. PICK s : s = y.buf
  OBVIOUS
<1>2. PICK mark : mark = <<"end", cmd>>
  OBVIOUS
<1>3. /\ s \in Seq(Tokens) /\ y.out \in Seq(Tokens) /\ y.prefix \in Seq(Tokens) /\ Len(s) \in Nat /\ Len(p) \in Nat
      /\ y.ended \in Ends /\ y.echo \in BOOLEAN
  BY <1>1, ExecutionsAre DEF PiecesOf
<1>4. PICK b, d \in Nat : d <= Len(p) /\ Copies(p, cmd, y.out, 0, b) /\ Copies(p, cmd, y.prefix, b, d) /\ Copies(p, cmd, s, d, e)
  BY <1>1 DEF Captured
<1>5. PICK n \in 1..Len(s) : n = First(s, mark) /\ s[n] = mark /\ \A j \in 1..n - 1 : s[j] # mark
  <2>1. Has(s, mark)
    BY <1>1, <1>2
  <2> QED BY <1>3, <2>1, FirstIs
<1>6. PICK k \in Nat, t \in Seq(Tokens), late \in Seq(Tokens) :
        /\ t = Before(s, n) /\ late = After(s, n) /\ k <= e
        /\ Copies(p, cmd, t, d, k) /\ Copies(p, cmd, late, k, e) /\ Plain(t) /\ Plain(late)
  <2>1. \A i \in 1..Len(s) : s[i][1] \notin Statuses
    BY <1>1
  <2>2. \A i, j \in 1..Len(s) : s[i] = <<"end", cmd>> /\ s[j] = <<"end", cmd>> => i = j
    BY <1>1
  <2>3. s[n] = <<"end", cmd>>
    BY <1>2, <1>5
  <2>4. n \in 1..Len(s) /\ s \in Seq(Tokens) /\ Copies(p, cmd, s, d, e)
    BY <1>3, <1>4, <1>5
  <2>5. CutAt(p, cmd, s, n, d, e)
    BY <2>1, <2>2, <2>3, <2>4, MarkCut
  <2> QED BY <2>5 DEF CutAt
<1>13. e \in Nat /\ k <= Len(p) + 1
  <2>1. e \in Nat
    BY <1>3, <1>4, CopiesOrder
  <2> QED BY <1>3, <1>6, <2>1
<1>14. PICK r \in Seq(Tokens), q \in Nat :
          /\ r = BeforePrompt(t) /\ Within(r, t) /\ q <= Len(p) /\ Copies(p, cmd, r, d, q)
          /\ k = q \/ (q = Len(p) /\ k = q + 1)
  <2>1. /\ t \in Seq(Tokens) /\ Copies(p, cmd, t, d, k) /\ Plain(t) /\ Len(p) \in Nat
        /\ d <= Len(p) /\ k <= Len(p) + 1
    BY <1>3, <1>4, <1>6, <1>13
  <2> QED BY <2>1, BeforePromptCopies
<1>15. PICK o : o = y.out \o r
  OBVIOUS
<1>16. o \in Seq(Tokens) /\ Plain(o)
  <2>1. Plain(y.out) /\ Plain(r)
    BY <1>6, <1>14, WithinIs DEF Captured
  <2> QED BY <1>3, <1>14, <1>15, <2>1, JoinedAre
<1>17. \E a \in Nat : MayLose(p, cmd, a) /\ Copies(p, cmd, o, a, q)
  <2>1. CASE y.echo
    <3>1. HeldBack(y, cmd) /\ Plain(y.prefix) /\ y.out = <<>>
      BY <2>1 DEF Captured, HeldBack
    <3>2. b = 0
      <4>1. Copies(p, cmd, <<>>, 0, b)
        BY <1>4, <3>1
      <4> QED BY <4>1, CopiesNothing
    <3>3. MayLose(p, cmd, d)
      BY <1>3, <1>4, <3>1, <3>2, LostIs
    <3>4. o = r
      BY <1>14, <1>15, <3>1
    <3> QED BY <1>14, <3>3, <3>4
  <2>2. CASE ~y.echo
    <3>1. y.prefix = <<>>
      BY <2>2 DEF Captured
    <3>2. d = b
      <4>1. Copies(p, cmd, <<>>, b, d)
        BY <1>4, <3>1
      <4> QED BY <4>1, CopiesNothing
    <3>3. Copies(p, cmd, o, 0, q)
      BY <1>3, <1>4, <1>14, <1>15, <3>2, CopiesJoin
    <3>4. MayLose(p, cmd, 0)
      BY <1>3 DEF MayLose
    <3> QED BY <3>3, <3>4
  <2> QED BY <1>3, <2>1, <2>2
<1>18. PICK w : w = (IF flagged THEN "cancelled" ELSE y.ended)
  OBVIOUS
<1>19. PICK z : z = [y EXCEPT !.phase = "drain", !.out = o, !.buf = late, !.status = w]
  OBVIOUS
<1>20. z \in Execution /\ z.phase = "drain" /\ z.out = o /\ z.buf = late
  <2>1. w \in Ends /\ "drain" \in Phases
    BY <1>3, <1>18 DEF Ends, Phases
  <2> QED BY <1>6, <1>16, <1>19, <2>1 DEF Execution
<1>21. z = Capture(y)
  <2>1. Has(y.buf, <<"end", y.id>>) /\ n = First(y.buf, <<"end", y.id>>)
    BY <1>1, <1>2, <1>5
  <2>2. Capture(y) = [y EXCEPT !.phase = "drain", !.out = y.out \o BeforePrompt(Before(y.buf, n)),
                               !.buf = After(y.buf, n), !.status = w]
    BY <1>18, <2>1 DEF Capture
  <2> QED BY <1>1, <1>6, <1>14, <1>15, <1>19, <2>2
<1>22. Drained(z, cmd, p, e)
  BY <1>6, <1>14, <1>16, <1>17, <1>20 DEF Drained
<1> QED BY <1>20, <1>21, <1>22

\* At the last prompt all is there but what the echo may have swallowed.
LEMMA AllDrained ==
    ASSUME NEW y \in Execution, NEW p, PiecesOf(p, cmd), NEW e, e <= Len(p) + 1, Drained(y, cmd, p, e),
           y.phase = "drain", Has(y.buf, Prompt)
    PROVE  \E z \in Execution : /\ z = Drain(y) /\ z.done /\ z.phase = "drain" /\ Plain(z.out)
                                /\ \E a \in Nat : MayLose(p, cmd, a) /\ Copies(p, cmd, z.out, a, Len(p))
<1>1. PICK s : s = y.buf
  OBVIOUS
<1>2. s \in Seq(Tokens) /\ y.out \in Seq(Tokens) /\ Len(s) \in Nat /\ Len(p) \in Nat
  BY <1>1, ExecutionsAre DEF PiecesOf
<1>3. PICK a, b, d \in Nat :
          /\ MayLose(p, cmd, a) /\ b <= Len(p) /\ (d = b \/ (b = Len(p) /\ d = b + 1))
          /\ Copies(p, cmd, y.out, a, b) /\ Copies(p, cmd, s, d, e)
  BY <1>1 DEF Drained
<1>4. Plain(s) /\ Plain(y.out) /\ Has(s, Prompt)
  BY <1>1 DEF Drained
<1>5. d <= Len(p)
  <2>1. PICK i \in 1..Len(s) : s[i] = Prompt
    BY <1>2, <1>4 DEF Has
  <2>2. PICK k \in Nat : d <= k /\ k + 1 <= e
    <3>1. s[i][1] \in {"ok", "failed", "prompt"}
      BY <2>1 DEF Prompt
    <3> QED BY <1>2, <1>3, <3>1, CopiesPrompted
  <2>3. e \in Nat
    BY <1>2, <1>3, CopiesOrder
  <2> QED BY <1>2, <2>2, <2>3
<1>6. d = b
  BY <1>2, <1>3, <1>5
<1>7. PICK r \in Seq(Tokens), q \in Nat :
          r = BeforePrompt(s) /\ Within(r, s) /\ Copies(p, cmd, r, d, q) /\ q = Len(p)
  BY <1>2, <1>3, <1>4, <1>5, BeforePromptCopies
<1>8. PICK text : text = IF Has(r, <<"echo", cmd>>) THEN After(r, First(r, <<"echo", cmd>>)) ELSE r
  OBVIOUS
<1>9. text \in Seq(Tokens) /\ Within(text, r) /\ Copies(p, cmd, text, b, Len(p))
  <2>1. CASE Has(r, <<"echo", cmd>>)
    BY <1>6, <1>7, <1>8, <2>1, EchoDropped
  <2>2. CASE ~Has(r, <<"echo", cmd>>)
    BY <1>6, <1>7, <1>8, <2>2, WithinParts
  <2> QED BY <2>1, <2>2
<1>10. PICK o : o = y.out \o text
  OBVIOUS
<1>11. o \in Seq(Tokens) /\ Plain(o) /\ Copies(p, cmd, o, a, Len(p))
  <2>1. Plain(text)
    BY <1>4, <1>7, <1>9, WithinIs
  <2> QED BY <1>2, <1>3, <1>4, <1>9, <1>10, <2>1, CopiesJoin, JoinedAre
<1>12. PICK z : z = [y EXCEPT !.out = o, !.buf = <<>>, !.done = TRUE]
  OBVIOUS
<1>13. z \in Execution /\ z.done /\ z.phase = "drain" /\ z.out = o
  <2>1. <<>> \in Seq(Tokens)
    OBVIOUS
  <2> QED BY <1>11, <1>12, <2>1 DEF Execution
<1>14. z = Drain(y)
  BY <1>1, <1>4, <1>7, <1>8, <1>10, <1>12 DEF Drain
<1> QED BY <1>3, <1>11, <1>13, <1>14

\* t stands at most once in s.
Once(s, t) == \A i, j \in 1..Len(s) : s[i] = t /\ s[j] = t => i = j
Never(s, t) == \A i \in 1..Len(s) : s[i] # t

\* What the reader leaves of a sequence.
LEMMA RestIs ==
    ASSUME NEW s \in Seq(Tokens), NEW k \in Nat
    PROVE  /\ Rest(s, k) \in Seq(Tokens) /\ Within(Rest(s, k), s)
           /\ k <= Len(s) => /\ Rest(s, k) = SubSeq(s, k + 1, Len(s)) /\ Len(Rest(s, k)) = Len(s) - k
                             /\ \A i \in 1..Len(s) - k : Rest(s, k)[i] = s[k + i]
           /\ k >= Len(s) => Rest(s, k) = <<>>
<1>1. Len(s) \in Nat
  OBVIOUS
<1>2. CASE k <= Len(s)
  <2>1. (IF k < Len(s) THEN k ELSE Len(s)) = k /\ k \in 0..Len(s)
    BY <1>1, <1>2
  <2>2. Rest(s, k) = SubSeq(s, k + 1, Len(s))
    BY <2>1 DEF Rest, After
  <2>3. k >= Len(s) => Rest(s, k) = <<>>
    BY <1>1, <1>2, <2>2
  <2> QED BY <2>1, <2>2, <2>3, CutIs, WithinParts
<1>3. CASE k > Len(s)
  <2>1. (IF k < Len(s) THEN k ELSE Len(s)) = Len(s) /\ ~(k <= Len(s))
    BY <1>1, <1>3
  <2>2. Rest(s, k) = SubSeq(s, Len(s) + 1, Len(s))
    BY <2>1 DEF Rest, After
  <2>3. Rest(s, k) = <<>>
    BY <1>1, <2>2
  <2>4. <<>> \in Seq(Tokens)
    OBVIOUS
  <2> QED BY <2>1, <2>3, <2>4, WithinParts
<1> QED BY <1>1, <1>2, <1>3

\* Reading on behind a place is reading the part behind it.
LEMMA RestBehind ==
    ASSUME NEW s \in Seq(Tokens), NEW m \in 0..Len(s), NEW k \in Nat, m <= k
    PROVE  Rest(s, k) = Rest(SubSeq(s, m + 1, Len(s)), k - m)
<1>1. PICK q : q = SubSeq(s, m + 1, Len(s))
  OBVIOUS
<1>2. q \in Seq(Tokens) /\ Len(q) = Len(s) - m /\ (\A i \in 1..Len(s) - m : q[i] = s[m + i]) /\ Len(s) \in Nat
  BY <1>1, CutIs
<1>3. k - m \in Nat /\ m \in Nat
  OBVIOUS
<1>4. CASE k <= Len(s)
  <2>1. PICK u : u = Rest(s, k)
    OBVIOUS
  <2>2. PICK v : v = Rest(q, k - m)
    OBVIOUS
  <2>3. u \in Seq(Tokens) /\ Len(u) = Len(s) - k /\ \A i \in 1..Len(s) - k : u[i] = s[k + i]
    BY <1>4, <2>1, RestIs
  <2>4. k - m <= Len(q) /\ Len(q) - (k - m) = Len(s) - k
    BY <1>2, <1>3, <1>4
  <2>5. v \in Seq(Tokens) /\ Len(v) = Len(s) - k /\ \A i \in 1..Len(s) - k : v[i] = q[(k - m) + i]
    <3>1. Rest(q, k - m) \in Seq(Tokens) /\ Len(Rest(q, k - m)) = Len(q) - (k - m)
          /\ \A i \in 1..Len(q) - (k - m) : Rest(q, k - m)[i] = q[(k - m) + i]
      BY <1>2, <1>3, <2>4, RestIs
    <3> QED BY <2>2, <2>4, <3>1
  <2>6. ASSUME NEW i \in 1..Len(s) - k PROVE u[i] = v[i]
    <3>1. (k - m) + i \in 1..Len(s) - m /\ m + ((k - m) + i) = k + i
      BY <1>2, <1>3, <1>4
    <3>2. q[(k - m) + i] = s[k + i]
      BY <1>2, <3>1
    <3> QED BY <2>3, <2>5, <3>2
  <2>7. u = v
    <3>1. Len(u) = Len(v) /\ \A i \in 1..Len(u) : u[i] = v[i]
      BY <2>3, <2>5, <2>6
    <3>2. u \in Seq(Tokens) /\ v \in Seq(Tokens)
      BY <2>3, <2>5
    <3> QED BY <3>1, <3>2, SeqEqual
  <2> QED BY <1>1, <2>1, <2>2, <2>7
<1>5. CASE k > Len(s)
  <2>1. k >= Len(s) /\ k - m >= Len(q)
    BY <1>2, <1>3, <1>5
  <2>2. Rest(s, k) = <<>>
    BY <2>1, RestIs
  <2>3. Rest(q, k - m) = <<>>
    BY <1>2, <1>3, <2>1, RestIs
  <2> QED BY <1>1, <2>2, <2>3
<1> QED BY <1>2, <1>4, <1>5

\* What is read of the console, and what is left of it.
LEMMA ReadBytes ==
    ASSUME NEW q \in Seq(Tokens), NEW r \in Seq(Tokens), NEW k \in 0..Len(q \o r)
    PROVE  /\ SubSeq(q \o r, 1, k) \in Seq(Tokens) /\ k \in Nat /\ Len(q) \in Nat /\ Len(r) \in Nat
           /\ Len(SubSeq(q \o r, 1, k)) = k
           /\ \A i \in 1..k : SubSeq(q \o r, 1, k)[i] = (q \o r)[i]
           /\ k <= Len(q) => SubSeq(q \o r, 1, k) = SubSeq(q, 1, k)
           /\ k >= Len(q) => k - Len(q) \in 0..Len(r) /\ SubSeq(q \o r, 1, k) = q \o SubSeq(r, 1, k - Len(q))
<1>1. PICK w : w = q \o r
  OBVIOUS
<1>2. /\ w \in Seq(Tokens) /\ Len(w) = Len(q) + Len(r) /\ Len(q) \in Nat /\ Len(r) \in Nat
      /\ \A i \in 1..Len(q) : w[i] = q[i]
      /\ \A i \in 1..Len(q) + Len(r) : i > Len(q) => i - Len(q) \in 1..Len(r) /\ w[i] = r[i - Len(q)]
  BY <1>1, JoinIs
<1>3. PICK b : b = SubSeq(w, 1, k)
  OBVIOUS
<1>4. k \in 0..Len(w) /\ k \in Nat
  BY <1>1, <1>2
<1>5. b \in Seq(Tokens) /\ Len(b) = k /\ \A i \in 1..k : b[i] = w[i]
  BY <1>2, <1>3, <1>4, CutIs
<1>6. ASSUME k <= Len(q) PROVE b = SubSeq(q, 1, k)
  <2>1. PICK u : u = SubSeq(q, 1, k)
    OBVIOUS
  <2>2. k \in 0..Len(q)
    BY <1>2, <1>4, <1>6
  <2>3. u \in Seq(Tokens) /\ Len(u) = k /\ \A i \in 1..k : u[i] = q[i]
    BY <2>1, <2>2, CutIs
  <2>4. \A i \in 1..k : i \in 1..Len(q)
    BY <1>2, <1>4, <1>6
  <2>5. \A i \in 1..k : b[i] = u[i]
    BY <1>2, <1>5, <2>3, <2>4
  <2>6. b = u
    BY <1>5, <2>3, <2>5
  <2> QED BY <2>1, <2>6
<1>7. ASSUME k >= Len(q) PROVE k - Len(q) \in 0..Len(r) /\ b = q \o SubSeq(r, 1, k - Len(q))
  <2>1. PICK n : n = k - Len(q)
    OBVIOUS
  <2>2. n \in 0..Len(r) /\ n \in Nat /\ Len(q) + n = k
    BY <1>2, <1>4, <1>7, <2>1
  <2>3. PICK u : u = SubSeq(r, 1, n)
    OBVIOUS
  <2>4. u \in Seq(Tokens) /\ Len(u) = n /\ \A i \in 1..n : u[i] = r[i]
    BY <2>2, <2>3, CutIs
  <2>5. PICK v : v = q \o u
    OBVIOUS
  <2>6. /\ v \in Seq(Tokens) /\ Len(v) = k
        /\ \A i \in 1..Len(q) : v[i] = q[i]
        /\ \A i \in 1..k : i > Len(q) => i - Len(q) \in 1..n /\ v[i] = u[i - Len(q)]
    BY <2>2, <2>4, <2>5, JoinIs
  <2>7. ASSUME NEW i \in 1..k PROVE b[i] = v[i]
    <3>1. CASE i <= Len(q)
      <4>1. i \in 1..Len(q)
        BY <1>2, <3>1
      <4> QED BY <1>2, <1>5, <2>6, <4>1
    <3>2. CASE i > Len(q)
      <4>1. i \in 1..Len(q) + Len(r)
        BY <1>2, <1>4
      <4> QED BY <1>2, <1>5, <2>4, <2>6, <3>2, <4>1
    <3> QED BY <1>2, <3>1, <3>2
  <2>8. b = v
    BY <1>5, <2>6, <2>7
  <2> QED BY <2>1, <2>2, <2>3, <2>5, <2>8
<1> QED BY <1>1, <1>2, <1>3, <1>4, <1>5, <1>6, <1>7

\* What is read goes up to where what is left begins.
LEMMA ReadCopies ==
    ASSUME NEW p, NEW c, NEW q \in Seq(Tokens), NEW r \in Seq(Tokens), NEW k \in 0..Len(q \o r), NEW e, NEW f, NEW h,
           Copies(p, c, q, e, f), Copies(p, c, r, f, h),
           NEW r1, r1 = IF k > Len(q) THEN Rest(r, k - Len(q)) ELSE r
    PROVE  /\ r1 \in Seq(Tokens) /\ Within(r1, r)
           /\ \E m, f1 \in Nat : /\ Copies(p, c, SubSeq(q \o r, 1, k), e, m) /\ Copies(p, c, Rest(q, k), m, f1)
                                 /\ Copies(p, c, r1, f1, h) /\ m <= f1 /\ f1 <= h
<1>1. k \in Nat /\ Len(q) \in Nat /\ Len(r) \in Nat /\ Rest(q, k) \in Seq(Tokens)
  BY ReadBytes, RestIs
<1>2. CASE k <= Len(q)
  <2>1. k \in 0..Len(q) /\ r1 = r
    BY <1>1, <1>2
  <2>2. SubSeq(q \o r, 1, k) = SubSeq(q, 1, k) /\ Rest(q, k) = SubSeq(q, k + 1, Len(q))
    BY <1>1, <1>2, ReadBytes, RestIs
  <2>3. PICK m \in Nat : m <= f /\ Copies(p, c, SubSeq(q, 1, k), e, m) /\ Copies(p, c, SubSeq(q, k + 1, Len(q)), m, f)
    BY <2>1, CopiesCut
  <2>4. f \in Nat /\ f <= h
    BY CopiesOrder
  <2> QED BY <2>1, <2>2, <2>3, <2>4, WithinParts
<1>3. CASE k > Len(q)
  <2>1. PICK n : n = k - Len(q)
    OBVIOUS
  <2>2. n \in 0..Len(r) /\ n \in Nat /\ SubSeq(q \o r, 1, k) = q \o SubSeq(r, 1, n)
    <3>1. k >= Len(q)
      BY <1>1, <1>3
    <3>2. k - Len(q) \in 0..Len(r) /\ SubSeq(q \o r, 1, k) = q \o SubSeq(r, 1, k - Len(q))
      BY <3>1, ReadBytes
    <3> QED BY <1>1, <2>1, <3>2
  <2>3. Rest(q, k) = <<>>
    BY <1>1, <1>3, RestIs
  <2>4. n <= Len(r)
    BY <1>1, <2>2
  <2>5. r1 = SubSeq(r, n + 1, Len(r)) /\ r1 \in Seq(Tokens) /\ Within(r1, r)
    BY <1>1, <1>3, <2>1, <2>2, <2>4, RestIs
  <2>6. PICK m \in Nat : m <= h /\ Copies(p, c, SubSeq(r, 1, n), f, m) /\ Copies(p, c, r1, m, h)
    BY <2>2, <2>5, CopiesCut
  <2>7. SubSeq(r, 1, n) \in Seq(Tokens)
    BY <2>2, CutIs
  <2>8. Copies(p, c, q \o SubSeq(r, 1, n), e, m)
    BY <2>6, <2>7, CopiesJoin
  <2>9. Copies(p, c, Rest(q, k), m, m)
    BY <2>3, CopiesNothing
  <2>10. m <= m
    BY <2>6
  <2>11. Copies(p, c, SubSeq(q \o r, 1, k), e, m)
    BY <2>2, <2>8
  <2> QED BY <2>5, <2>6, <2>9, <2>10, <2>11
<1> QED BY <1>1, <1>2, <1>3

\* A mark that stands once stands once in the parts, and only in one of them.
LEMMA OnceParts ==
    ASSUME NEW q \in Seq(Tokens), NEW r \in Seq(Tokens), NEW t, Once(q, t), Never(r, t)
    PROVE  /\ Once(q \o r, t)
           /\ \A k \in 0..Len(q \o r) : /\ Once(SubSeq(q \o r, 1, k), t) /\ Once(Rest(q, k), t)
                                        /\ Has(SubSeq(q \o r, 1, k), t) => Never(Rest(q, k), t)
<1>1. PICK w : w = q \o r
  OBVIOUS
<1>2. /\ w \in Seq(Tokens) /\ Len(w) = Len(q) + Len(r) /\ Len(q) \in Nat /\ Len(r) \in Nat
      /\ \A i \in 1..Len(q) : w[i] = q[i]
      /\ \A i \in 1..Len(q) + Len(r) : i > Len(q) => i - Len(q) \in 1..Len(r) /\ w[i] = r[i - Len(q)]
  BY <1>1, JoinIs
<1>3. ASSUME NEW i \in 1..Len(w), w[i] = t PROVE i \in 1..Len(q) /\ q[i] = t
  <2>1. ~(i > Len(q))
    BY <1>2, <1>3 DEF Never
  <2>2. i \in 1..Len(q)
    BY <1>2, <2>1
  <2> QED BY <1>2, <1>3, <2>2
<1>4. Once(w, t)
  BY <1>3 DEF Once
<1>5. ASSUME NEW k \in 0..Len(w)
      PROVE  /\ Once(SubSeq(w, 1, k), t) /\ Once(Rest(q, k), t)
             /\ Has(SubSeq(w, 1, k), t) => Never(Rest(q, k), t)
  <2>1. PICK b : b = SubSeq(w, 1, k)
    OBVIOUS
  <2>2. b \in Seq(Tokens) /\ Len(b) = k /\ (\A i \in 1..k : b[i] = w[i]) /\ k \in Nat /\ DOMAIN b = 1..k
    BY <1>2, <2>1, CutIs
  <2>3. \A i \in 1..k : i \in 1..Len(w)
    BY <1>2, <2>2
  <2>4. Once(b, t)
    BY <1>4, <2>2, <2>3 DEF Once
  <2>5. PICK z : z = Rest(q, k)
    OBVIOUS
  <2>6. CASE k <= Len(q)
    <3>1. Len(z) = Len(q) - k /\ \A i \in 1..Len(q) - k : z[i] = q[k + i]
      BY <2>2, <2>5, <2>6, RestIs
    <3>2. \A i \in 1..Len(q) - k : k + i \in 1..Len(q)
      BY <1>2, <2>2
    <3>3. Once(z, t)
      <4>1. ASSUME NEW i \in 1..Len(q) - k, NEW j \in 1..Len(q) - k, z[i] = t, z[j] = t PROVE i = j
        <5>1. k + i = k + j
          BY <3>1, <3>2, <4>1 DEF Once
        <5> QED BY <1>2, <2>2, <5>1
      <4> QED BY <3>1, <4>1 DEF Once
    <3>4. ASSUME Has(b, t), NEW j \in 1..Len(q) - k, z[j] = t PROVE FALSE
      <4>1. PICK i \in 1..k : b[i] = t
        BY <2>2, <3>4 DEF Has
      <4>2. i \in 1..Len(q) /\ q[i] = t
        BY <1>3, <2>2, <2>3, <4>1
      <4>3. i = k + j
        BY <3>1, <3>2, <3>4, <4>2 DEF Once
      <4> QED BY <1>2, <2>2, <4>1, <4>3
    <3> QED BY <2>1, <2>4, <2>5, <3>1, <3>3, <3>4 DEF Never
  <2>7. CASE k > Len(q)
    <3>1. z = <<>>
      BY <1>2, <2>2, <2>5, <2>7, RestIs
    <3>2. \A i \in 1..Len(z) : FALSE
      BY <3>1
    <3> QED BY <2>1, <2>4, <2>5, <3>2 DEF Never, Once
  <2> QED BY <1>2, <2>2, <2>6, <2>7
<1> QED BY <1>1, <1>4, <1>5

\* Where it stands behind something without it.
LEMMA OnceBehind ==
    ASSUME NEW q \in Seq(Tokens), NEW r \in Seq(Tokens), NEW t, Never(q, t), Once(r, t)
    PROVE  Once(q \o r, t) /\ (Has(q \o r, t) => Has(r, t))
<1>1. PICK w : w = q \o r
  OBVIOUS
<1>2. /\ w \in Seq(Tokens) /\ Len(w) = Len(q) + Len(r) /\ Len(q) \in Nat /\ Len(r) \in Nat
      /\ \A i \in 1..Len(q) : w[i] = q[i]
      /\ \A i \in 1..Len(q) + Len(r) : i > Len(q) => i - Len(q) \in 1..Len(r) /\ w[i] = r[i - Len(q)]
  BY <1>1, JoinIs
<1>3. ASSUME NEW i \in 1..Len(w), w[i] = t PROVE i - Len(q) \in 1..Len(r) /\ r[i - Len(q)] = t
  <2>1. ~(i <= Len(q))
    <3>1. ASSUME i <= Len(q) PROVE i \in 1..Len(q)
      BY <1>2, <3>1
    <3> QED BY <1>2, <1>3, <3>1 DEF Never
  <2>2. i \in 1..Len(q) + Len(r) /\ i \in Nat /\ Len(q) \in Nat
    BY <1>2
  <2>3. i > Len(q)
    BY <2>1, <2>2
  <2> QED BY <1>2, <1>3, <2>2, <2>3
<1>4. Once(w, t)
  <2>1. ASSUME NEW i \in 1..Len(w), NEW j \in 1..Len(w), w[i] = t, w[j] = t PROVE i = j
    <3>1. i - Len(q) = j - Len(q)
      BY <1>3, <2>1 DEF Once
    <3> QED BY <1>2, <3>1
  <2> QED BY <2>1 DEF Once
<1>5. Has(w, t) => Has(r, t)
  <2>1. DOMAIN w = 1..Len(w) /\ DOMAIN r = 1..Len(r)
    BY <1>2
  <2> QED BY <1>3, <2>1 DEF Has
<1> QED BY <1>1, <1>4, <1>5

\* A part of what c wrote, in which no end stands, tells of none.
LEMMA PlainIs ==
    ASSUME NEW p, NEW c, NEW s \in Seq(Tokens), NEW a, NEW b, Copies(p, c, s, a, b), Never(s, <<"end", c>>)
    PROVE  Endless(s) /\ ((\A i \in 1..Len(s) : s[i][1] \notin Statuses) => Plain(s))
<1>1. ASSUME NEW i \in 1..Len(s) PROVE s[i][1] # "end"
  <2>1. \/ s[i] \in {<<"echo", c>>, <<"end", c>>, <<"ok", 0>>, <<"failed", 0>>, <<"prompt", 0>>}
        \/ s[i][1] \in Pieces
    BY CopiesKinds
  <2>2. s[i] # <<"end", c>>
    BY DEF Never
  <2> QED BY <2>1, <2>2 DEF Pieces
<1> QED BY <1>1 DEF Endless, Plain, Statuses

\* What becomes of the record y of a command that is captured, or drained.
ReadOn(y, v, p, e) ==
    \/ v.phase = "capture" /\ ~v.done /\ Captured(v, cmd, p, e) /\ Plain(v.buf)
    \/ v.phase = "drain" /\ ~v.done /\ y.endMark /\ Has(y.buf, <<"end", cmd>>) /\ Drained(v, cmd, p, e) /\ ~Has(v.buf, Prompt)
    \/ /\ v.phase = "drain" /\ v.done /\ Plain(v.out)
       /\ \E a \in Nat : MayLose(p, cmd, a) /\ Copies(p, cmd, v.out, a, Len(p))

\* Draining goes on until the prompt.
DrainOn(v, p, e) ==
    /\ v.phase = "drain"
    /\ \/ ~v.done /\ Drained(v, cmd, p, e) /\ ~Has(v.buf, Prompt)
       \/ v.done /\ Plain(v.out) /\ \E a \in Nat : MayLose(p, cmd, a) /\ Copies(p, cmd, v.out, a, Len(p))

\* A record that drains takes more of the output, or is done with all of it.
LEMMA DrainsOn ==
    ASSUME NEW y \in Execution, NEW p, PiecesOf(p, cmd), NEW e, e <= Len(p) + 1, Drained(y, cmd, p, e),
           y.phase = "drain", ~y.done
    PROVE  \E v \in Execution : v = Drain(y) /\ DrainOn(v, p, e)
<1>1. CASE Has(y.buf, Prompt)
  <2>1. PICK z \in Execution : /\ z = Drain(y) /\ z.done /\ z.phase = "drain" /\ Plain(z.out)
                               /\ \E a \in Nat : MayLose(p, cmd, a) /\ Copies(p, cmd, z.out, a, Len(p))
    BY <1>1, AllDrained
  <2> QED BY <2>1 DEF DrainOn
<1>2. CASE ~Has(y.buf, Prompt)
  <2>1. Drain(y) = y
    BY <1>2 DEF Drain
  <2> QED BY <1>2, <2>1 DEF DrainOn
<1> QED BY <1>1, <1>2

\* Capturing goes on until the end mark.
LEMMA CapturesOn ==
    ASSUME NEW y \in Execution, NEW p, PiecesOf(p, cmd), NEW e \in Nat, e <= Len(p) + 1, Captured(y, cmd, p, e),
           setting.kind = "powershell", y.phase = "capture", ~y.done, y.id = cmd,
           \A i \in 1..Len(y.buf) : y.buf[i][1] \notin Statuses, Once(y.buf, <<"end", cmd>>),
           ~y.endMark => e <= Len(p) /\ Never(y.buf, <<"end", cmd>>)
    PROVE  \E z \in Execution :
              /\ z = Capture(y) /\ ~z.done
              /\ \/ z.phase = "capture" /\ Captured(z, cmd, p, e) /\ Plain(z.buf)
                 \/ z.phase = "drain" /\ y.endMark /\ Has(y.buf, <<"end", cmd>>) /\ Drained(z, cmd, p, e)
<1>1. PICK s : s = y.buf
  OBVIOUS
<1>2. s \in Seq(Tokens) /\ y.endMark \in BOOLEAN
  BY <1>1, ExecutionsAre
<1>3. \E d \in Nat : Copies(p, cmd, s, d, e)
  BY <1>1 DEF Captured
<1>4. ASSUME Never(s, <<"end", cmd>>) PROVE Plain(s)
  <2>1. \A i \in 1..Len(s) : s[i][1] \notin Statuses
    BY <1>1
  <2> QED BY <1>2, <1>3, <1>4, <2>1, PlainIs
<1>5. PICK z : z = Capture(y)
  OBVIOUS
<1>6. z \in Execution /\ z.done = y.done
  BY <1>5, CaptureTyped, CaptureEnd
<1>7. CASE ~y.endMark
  <2>1. Plain(y.buf) /\ e <= Len(p) /\ Len(p) \in Nat
    BY <1>1, <1>4, <1>7 DEF PiecesOf
  <2>2. PICK w \in Execution : w = [AppendCapture(y, y.buf) EXCEPT !.buf = <<>>] /\ Captured(w, cmd, p, e) /\ w.buf = <<>>
    BY <2>1, AppendCaptured
  <2>3. w = z
    BY <1>5, <1>7, <2>2 DEF Capture
  <2>4. w.phase = "capture"
    <3>1. PICK u : u = AppendCapture(y, y.buf)
      OBVIOUS
    <3>2. u.phase = y.phase /\ u \in Execution
      BY <1>1, <1>2, <3>1, AppendCaptureEnd, AppendCaptureTyped
    <3>3. w = [u EXCEPT !.buf = <<>>]
      BY <2>2, <3>1
    <3> QED BY <3>2, <3>3 DEF Execution
  <2>5. Plain(w.buf)
    BY <2>2, FewTokens
  <2> QED BY <1>5, <1>6, <2>2, <2>3, <2>4, <2>5
<1>8. CASE y.endMark /\ ~Has(y.buf, <<"end", cmd>>)
  <2>1. z = y
    BY <1>5, <1>8 DEF Capture
  <2>2. DOMAIN s = 1..Len(s)
    BY <1>2
  <2>3. Never(s, <<"end", cmd>>)
    BY <1>1, <1>8, <2>2 DEF Has, Never
  <2>4. Plain(z.buf)
    BY <1>1, <1>4, <2>1, <2>3
  <2> QED BY <1>5, <1>6, <2>1, <2>4
<1>9. CASE y.endMark /\ Has(y.buf, <<"end", cmd>>)
  <2>1. \A i, j \in 1..Len(y.buf) : y.buf[i] = <<"end", cmd>> /\ y.buf[j] = <<"end", cmd>> => i = j
    BY DEF Once
  <2>2. PICK w \in Execution : w = Capture(y) /\ Drained(w, cmd, p, e) /\ w.phase = "drain"
    BY <1>9, <2>1, MarkCaptured
  <2> QED BY <1>5, <1>6, <1>9, <2>2
<1> QED BY <1>2, <1>7, <1>8, <1>9

\* And both together.
LEMMA ReadsOn ==
    ASSUME NEW y \in Execution, NEW p, PiecesOf(p, cmd), NEW e \in Nat, e <= Len(p) + 1, Captured(y, cmd, p, e),
           setting.kind = "powershell", y.phase = "capture", ~y.done, y.id = cmd,
           \A i \in 1..Len(y.buf) : y.buf[i][1] \notin Statuses, Once(y.buf, <<"end", cmd>>),
           ~y.endMark => e <= Len(p) /\ Never(y.buf, <<"end", cmd>>)
    PROVE  \E v \in Execution : v = Drain(Capture(y)) /\ ReadOn(y, v, p, e)
<1>1. PICK z \in Execution :
        /\ z = Capture(y) /\ ~z.done
        /\ \/ z.phase = "capture" /\ Captured(z, cmd, p, e) /\ Plain(z.buf)
           \/ z.phase = "drain" /\ y.endMark /\ Has(y.buf, <<"end", cmd>>) /\ Drained(z, cmd, p, e)
  BY CapturesOn
<1>2. CASE z.phase = "capture"
  <2>1. Drain(z) = z
    BY <1>2 DEF Drain
  <2> QED BY <1>1, <1>2, <2>1 DEF ReadOn
<1>3. CASE z.phase = "drain"
  <2>1. PICK v \in Execution : v = Drain(z) /\ DrainOn(v, p, e)
    BY <1>1, <1>3, DrainsOn
  <2>2. y.endMark /\ Has(y.buf, <<"end", cmd>>)
    BY <1>1, <1>3
  <2>3. ReadOn(y, v, p, e)
    BY <2>1, <2>2 DEF ReadOn, DrainOn
  <2> QED BY <1>1, <2>1, <2>3
<1> QED BY <1>1, <1>2, <1>3

\* The command is over, and what the record has of it is all but what the echo
\* may have swallowed.
Finished(y) ==
    /\ y.done /\ Plain(y.out)
    /\ \E a \in Nat : MayLose(printed[cmd], cmd, a) /\ Copies(printed[cmd], cmd, y.out, a, Len(printed[cmd]))

\* What remains of the wires is as sound as all of it was.
LEMMA FrameKept ==
    ASSUME NEW b, NEW h, NEW b1, FrameSound(b, h), Within(pty', pty), Once(pty', <<"end", cmd>>), Within(frame', frame),
           Copies(printed[cmd], cmd, frame', b1, h), UNCHANGED <<printed, cmd>>, at' \in Ran => at \in Ran,
           x'.endMark = x.endMark
    PROVE  FrameSound(b1, h)'
<1> USE DEF FrameSound
<1>1. Endless(frame')
  BY WithinIs
<1>2. (\A i \in 1..Len(pty) : pty[i] # <<"end", cmd>>) => \A i \in 1..Len(pty') : pty'[i] # <<"end", cmd>>
  BY WithinIs
<1>3. \A i, j \in 1..Len(pty') : pty'[i] = <<"end", cmd>> /\ pty'[j] = <<"end", cmd>> => i = j
  BY DEF Once
<1>4. Endless(frame)'
  BY <1>1 DEF Endless
<1>5. Copies(printed[cmd], cmd, frame, b1, h)'
  BY DEF Copies, Moves
<1> QED BY <1>2, <1>3, <1>4, <1>5

\* A record that is as it was told of.
LEMMA CapturedNext ==
    ASSUME NEW v, NEW p, NEW m, Captured(v, cmd, p, m), x' = v, cmd' = cmd, p = printed'[cmd]
    PROVE  Captured(x, cmd, printed[cmd], m)'
<1>1. HeldBack(v, cmd) <=> HeldBack(x, cmd)'
  BY DEF HeldBack, Has, EndsLine, MayBeginEcho
<1>2. Plain(x.prefix)' /\ Plain(x.out)'
  BY DEF Captured, Plain
<1>3. \E b, d \in Nat : d <= Len(p) /\ Copies(p, cmd, v.out, 0, b) /\ Copies(p, cmd, v.prefix, b, d) /\ Copies(p, cmd, v.buf, d, m)
  BY DEF Captured
<1>4. PICK b \in Nat, d \in Nat : d <= Len(p) /\ Copies(p, cmd, v.out, 0, b) /\ Copies(p, cmd, v.prefix, b, d) /\ Copies(p, cmd, v.buf, d, m)
  BY <1>3
<1>5. Copies(printed[cmd], cmd, x.out, 0, b)'
  BY <1>4
<1>6. Copies(printed[cmd], cmd, x.prefix, b, d)'
  BY <1>4
<1>7. Copies(printed[cmd], cmd, x.buf, d, m)'
  BY <1>4
<1> QED BY <1>1, <1>2, <1>4, <1>5, <1>6, <1>7 DEF Captured

\* So is one that is drained.
LEMMA DrainedNext ==
    ASSUME NEW v, NEW p, NEW m, Drained(v, cmd, p, m), x' = v, cmd' = cmd, p = printed'[cmd], setting' = setting
    PROVE  Drained(x, cmd, printed[cmd], m)'
<1>1. Plain(x.out)' /\ Plain(x.buf)'
  BY DEF Drained, Plain
<1>2. PICK a \in Nat, b \in Nat, d \in Nat :
          /\ MayLose(p, cmd, a) /\ b <= Len(p) /\ (d = b \/ (b = Len(p) /\ d = b + 1))
          /\ Copies(p, cmd, v.out, a, b) /\ Copies(p, cmd, v.buf, d, m)
  BY DEF Drained
<1>3. Copies(printed[cmd], cmd, x.out, a, b)'
  BY <1>2
<1>4. Copies(printed[cmd], cmd, x.buf, d, m)'
  BY <1>2
<1>5. MayLose(printed[cmd], cmd, a)'
  BY <1>2 DEF MayLose
<1> QED BY <1>1, <1>2, <1>3, <1>4, <1>5 DEF Drained

\* A step of the reader with a command that is captured.
LEMMA ReadsSound ==
    ASSUME TypeOK, setting.kind = "powershell", PiecesOf(printed[cmd], cmd), Started,
           NEW y \in Execution, y.phase = "capture", ~y.done, y.id = cmd, y.endMark = x.endMark,
           NEW m \in Nat, NEW f, NEW f1 \in Nat, NEW h \in Nat, m <= f1, f1 <= h,
           Captured(y, cmd, printed[cmd], m), Copies(printed[cmd], cmd, pty', m, f1), Copies(printed[cmd], cmd, frame', f1, h),
           FrameSound(f, h), pty' \in Seq(Tokens), Within(pty', pty), Once(pty', <<"end", cmd>>), Within(frame', frame),
           \A i \in 1..Len(y.buf) : y.buf[i][1] \notin Statuses, Once(y.buf, <<"end", cmd>>),
           Has(y.buf, <<"end", cmd>>) => Never(pty', <<"end", cmd>>) /\ Has(pty, <<"end", cmd>>),
           NEW v, v = Drain(Capture(y)), IF v.done THEN Complete(v) ELSE x' = v /\ active' = active,
           UNCHANGED <<setting, printed, cmd, at, step, keys>>
    PROVE  \/ active' = active /\ x'.phase = "capture" /\ CaptureSound'
           \/ active' = active /\ x'.phase = "drain" /\ DrainSound'
           \/ active' = 0 /\ Finished(x')
<1>1. PICK p : p = printed[cmd]
  OBVIOUS
<1>2. Len(p) \in Nat /\ p \in Seq(Tokens)
  BY <1>1 DEF PiecesOf
<1>3. m <= Len(p) + 1 /\ (~y.endMark => m <= Len(p))
  BY <1>1, <1>2 DEF FrameSound
<1>4. pty \in Seq(Tokens) /\ DOMAIN pty = 1..Len(pty)
  BY TypesAre DEF WiresTyped
<1>5. Has(pty, <<"end", cmd>>) => y.endMark /\ at \notin Ran
  BY <1>4 DEF Has, FrameSound
<1>6. y.buf \in Seq(Tokens)
  BY ExecutionsAre
<1>7. ~y.endMark => Never(y.buf, <<"end", cmd>>)
  <2>1. DOMAIN y.buf = 1..Len(y.buf)
    BY <1>6
  <2>2. ~y.endMark => ~Has(y.buf, <<"end", cmd>>)
    BY <1>5
  <2> QED BY <2>1, <2>2 DEF Has, Never
<1>8. PICK w \in Execution : w = v /\ ReadOn(y, w, p, m)
  BY <1>1, <1>3, <1>7, ReadsOn
<1>9. v \in Execution /\ ReadOn(y, v, p, m)
  BY <1>8
<1>10. Started'
  BY DEF Started, Runs
<1>11. SameEnd(y, v)
  <2>1. PICK z : z = Capture(y)
    OBVIOUS
  <2>2. z \in Execution /\ SameEnd(y, z)
    BY <2>1, CaptureTyped, CaptureEnd
  <2>3. SameEnd(z, v)
    BY <2>1, <2>2, DrainEnd
  <2> QED BY <2>2, <2>3 DEF SameEnd
<1>12. CASE ~v.done
  <2>1. x' = v /\ active' = active /\ x'.endMark = x.endMark
    BY <1>11, <1>12 DEF SameEnd
  <2>2. FrameSound(f1, h)'
    BY <2>1, FrameKept
  <2>3. Copies(printed[cmd], cmd, pty, m, f1)'
    BY DEF Copies, Moves
  <2>4. CASE v.phase = "capture"
    <3>1. Captured(v, cmd, p, m) /\ Plain(v.buf)
      BY <1>9, <1>12, <2>4 DEF ReadOn
    <3>2. Captured(x, cmd, printed[cmd], m)'
      BY <1>1, <2>1, <3>1, CapturedNext
    <3>3. Plain(x.buf)'
      BY <2>1, <3>1 DEF Plain
    <3>4. CaptureSound'
      BY <1>10, <2>2, <2>3, <3>2, <3>3 DEF CaptureSound
    <3> QED BY <2>1, <2>4, <3>4
  <2>5. CASE v.phase = "drain"
    <3>1. Drained(v, cmd, p, m) /\ Has(y.buf, <<"end", cmd>>) /\ ~Has(v.buf, Prompt)
      BY <1>9, <1>12, <2>5 DEF ReadOn
    <3>2. Drained(x, cmd, printed[cmd], m)'
      BY <1>1, <2>1, <3>1, DrainedNext
    <3>3. at' \notin Ran
      BY <1>5, <3>1
    <3>4. Endless(pty')
      <4>1. Never(pty', <<"end", cmd>>)
        BY <3>1
      <4> QED BY <4>1, PlainIs
    <3>5. Endless(pty)' /\ (~Has(x.buf, Prompt))'
      BY <2>1, <3>1, <3>4 DEF Endless, Has, Prompt
    <3>6. DrainSound'
      BY <1>10, <2>2, <2>3, <3>2, <3>3, <3>5 DEF DrainSound
    <3> QED BY <2>1, <2>5, <3>6
  <2> QED BY <1>9, <2>4, <2>5 DEF ReadOn
<1>13. CASE v.done
  <2>1. x' = [v EXCEPT !.done = TRUE] /\ active' = 0
    BY <1>13 DEF Complete
  <2>2. x'.out = v.out /\ x'.done
    BY <1>9, <2>1 DEF Execution
  <2>3. Plain(v.out) /\ \E a \in Nat : MayLose(p, cmd, a) /\ Copies(p, cmd, v.out, a, Len(p))
    BY <1>9, <1>13 DEF ReadOn
  <2> QED BY <1>1, <2>1, <2>2, <2>3 DEF Finished
<1> QED BY <1>12, <1>13

USE DEF vars, client, state, cancel, shell, wires, links, session, answers, history

\* What the reader does to the record.
Outcome ==
    \/ active' = active /\ x'.phase = "wait" /\ WaitSound'
    \/ active' = active /\ x'.phase = "capture" /\ CaptureSound'
    \/ active' = active /\ x'.phase = "drain" /\ DrainSound'
    \/ active' = 0 /\ Finished(x')

\* What the program of the current command has written is its own.
LEMMA OwnPieces ==
    ASSUME TypeOK, PrintedSound, cmd \in Commands
    PROVE  PiecesOf(printed[cmd], cmd)
  BY TypesAre DEF PrintedSound, PiecesOf, ResultTyped

\* What the reader reads, and what it leaves alone.
Takes(n, y, bytes) ==
    /\ UNCHANGED <<setting, client, executing, flagged, cancel, shell, keys, ctl, session, answers, history>>
    /\ UNCHANGED <<setting, printed, cmd, at, step, keys>>
    /\ y \in Execution /\ y = [x EXCEPT !.buf = x.buf \o bytes] /\ y.buf = x.buf \o bytes
    /\ x \in Execution /\ ~x.done /\ cmd \in Commands
    /\ pty' = Rest(pty, n) /\ frame' = (IF n > Len(pty) THEN Rest(frame, n - Len(pty)) ELSE frame)
    /\ n \in 0..Len(pty \o frame) /\ pty \in Seq(Tokens) /\ frame \in Seq(Tokens) /\ n \in Nat /\ n # 0
    /\ bytes \in Seq(Tokens) /\ bytes = SubSeq(pty \o frame, 1, n)
    /\ \E v : /\ v = Drain(Capture(AwaitStart(y)))
              /\ IF v.done THEN Complete(v) ELSE x' = v /\ active' = active
    /\ pty' \in Seq(Tokens) /\ Within(pty', pty)

\* What receive() takes from the wires and does to the record.
LEMMA ReceiveIs ==
    ASSUME Prompted, active # 0, NEW n \in 1..Len(pty \o frame), Receive(n)
    PROVE  \E y, bytes : Takes(n, y, bytes)
<1>0. PICK y : y = [x EXCEPT !.buf = @ \o SubSeq(pty \o frame, 1, n)]
  OBVIOUS
<1> USE DEF Prompted, Common
<1>1. x \in Execution /\ pty \in Seq(Tokens) /\ frame \in Seq(Tokens)
  BY TypesAre DEF RecordTyped, WiresTyped
<1>2. n \in 0..Len(pty \o frame) /\ n \in Nat /\ n # 0
  BY <1>1
<1>3. PICK bytes : bytes = SubSeq(pty \o frame, 1, n)
  OBVIOUS
<1>4. bytes \in Seq(Tokens)
  BY <1>1, <1>2, <1>3, ReadBytes
<1>5. x.buf \o bytes \in Seq(Tokens)
  BY <1>1, <1>4, ExecutionsAre
<1>6. y \in Execution /\ y.buf = x.buf \o bytes /\ y = [x EXCEPT !.buf = x.buf \o bytes]
  BY <1>0, <1>1, <1>3, <1>5 DEF Execution
<1>7. ~x.done /\ cmd \in Commands
  BY DEF ClientSound, Kept
<1>8. /\ pty' = Rest(pty, n) /\ frame' = (IF n > Len(pty) THEN Rest(frame, n - Len(pty)) ELSE frame)
      /\ ProcessExecutionBytes(bytes)
      /\ UNCHANGED <<setting, client, executing, flagged, cancel, shell, keys, ctl, session, answers, history>>
  BY <1>3 DEF Receive
<1>9. PICK v : v = Drain(Capture(AwaitStart(y)))
  OBVIOUS
<1>10. IF v.done THEN Complete(v) ELSE x' = v /\ active' = active
  BY <1>0, <1>3, <1>8, <1>9 DEF ProcessExecutionBytes
<1>11. pty' \in Seq(Tokens) /\ Within(pty', pty)
  BY <1>1, <1>2, <1>8, RestIs
<1>12. UNCHANGED <<setting, printed, cmd, at, step, keys>>
  BY <1>8
<1>13. \E w : w = Drain(Capture(AwaitStart(y))) /\ (IF w.done THEN Complete(w) ELSE x' = w /\ active' = active)
  BY <1>9, <1>10
<1>14. cmd \in Commands /\ ~x.done
  BY <1>7
<1>15. Takes(n, y, bytes)
  <2> HIDE DEF Prompted, Common
  <2> QED BY <1>1, <1>2, <1>3, <1>4, <1>6, <1>8, <1>11, <1>12, <1>13, <1>14, Zenon DEF Takes
<1> QED BY <1>15

\* What is read and what is left go on from each other.
Splits(p, c, s, e, h) ==
    \E m, f1 \in Nat : /\ Copies(p, c, s, e, m) /\ Copies(p, c, pty', m, f1)
                       /\ Copies(p, c, frame', f1, h) /\ m <= f1 /\ f1 <= h

\* What is read and what stays on the wires are consecutive parts of the output.
LEMMA ReadSplits ==
    ASSUME NEW n, NEW y, NEW bytes, Takes(n, y, bytes), NEW p, NEW c, NEW e, NEW f, NEW h,
           Copies(p, c, pty, e, f), Copies(p, c, frame, f, h)
    PROVE  Splits(p, c, bytes, e, h) /\ Within(frame', frame)
<1>1. PICK r1 : r1 = IF n > Len(pty) THEN Rest(frame, n - Len(pty)) ELSE frame
  OBVIOUS
<1>2. n \in 0..Len(pty \o frame) /\ pty \in Seq(Tokens) /\ frame \in Seq(Tokens) /\ r1 = frame' /\ pty' = Rest(pty, n)
      /\ bytes = SubSeq(pty \o frame, 1, n)
  BY <1>1 DEF Takes
<1>3. Within(r1, frame)
  BY <1>1, <1>2, ReadCopies
<1>4. \E m, f1 \in Nat : /\ Copies(p, c, SubSeq(pty \o frame, 1, n), e, m) /\ Copies(p, c, Rest(pty, n), m, f1)
                         /\ Copies(p, c, r1, f1, h) /\ m <= f1 /\ f1 <= h
  BY <1>1, <1>2, ReadCopies
<1> QED BY <1>2, <1>3, <1>4 DEF Splits

\* The tokens that are read.
LEMMA BytesAre ==
    ASSUME TypeOK, WiresSound, NEW n \in 0..Len(pty \o frame), pty \in Seq(Tokens), frame \in Seq(Tokens)
    PROVE  /\ \A i \in 1..Len(SubSeq(pty \o frame, 1, n)) : SubSeq(pty \o frame, 1, n)[i][1] \notin Statuses
           /\ \A c : Fresh(pty, c) /\ Fresh(frame, c) => Fresh(SubSeq(pty \o frame, 1, n), c)
           /\ Endless(pty) /\ Endless(frame) => Plain(SubSeq(pty \o frame, 1, n))
           /\ \A t : Has(SubSeq(pty \o frame, 1, n), t) /\ Never(frame, t) => Has(pty, t)
<1>1. PICK s : s = pty \o frame
  OBVIOUS
<1>2. PICK r : r = SubSeq(s, 1, n)
  OBVIOUS
<1>3. s \in Seq(Tokens) /\ n \in 0..Len(s)
  BY <1>1, JoinedIs
<1>4. Within(r, s)
  BY <1>2, <1>3, WithinParts
<1>5. Wired(s) /\ (Endless(pty) /\ Endless(frame) => Endless(s)) /\ (\A c : Fresh(pty, c) /\ Fresh(frame, c) => Fresh(s, c))
  BY <1>1, JoinedAre DEF WiresSound
<1>6. Wired(r) /\ (Endless(s) => Endless(r)) /\ (\A c : Fresh(s, c) => Fresh(r, c))
  BY <1>4, <1>5, WithinIs
<1>7. \A i \in 1..Len(r) : r[i][1] \notin Statuses
  BY <1>6 DEF Wired
<1>8. Endless(r) => Plain(r)
  BY <1>7 DEF Endless, Plain, Statuses
<1>9. ASSUME NEW t, Has(r, t), Never(frame, t) PROVE Has(pty, t)
  <2>1. r \in Seq(Tokens)
    BY <1>2, <1>3, CutIs
  <2>2. DOMAIN r = 1..Len(r) /\ DOMAIN pty = 1..Len(pty)
    BY <2>1
  <2>3. PICK i \in 1..Len(r) : r[i] = t
    BY <1>9, <2>2 DEF Has
  <2>4. PICK j \in 1..Len(s) : s[j] = t
    BY <1>4, <2>3 DEF Within
  <2>5. (\E k \in 1..Len(pty) : t = pty[k]) \/ (\E k \in 1..Len(frame) : t = frame[k])
    BY <1>1, <2>4, JoinedIs
  <2> QED BY <1>9, <2>2, <2>5 DEF Has, Never
<1> QED BY <1>1, <1>2, <1>5, <1>6, <1>7, <1>8, <1>9

\* An end that is told of at most once.
LEMMA EndOnce ==
    ASSUME NEW b, NEW h, FrameSound(b, h)
    PROVE  Once(pty, <<"end", cmd>>) /\ Never(frame, <<"end", cmd>>)
  BY DEF FrameSound, Once, Never, Endless

\* The reader reads what is captured.
LEMMA ReceiveCaptures ==
    ASSUME Prompted, PrintedSound, WiresSound, FencesSound, CaptureSound, active # 0, x.phase = "capture",
           NEW n \in 1..Len(pty \o frame), Receive(n)
    PROVE  Outcome
<1>1. PICK y, bytes : Takes(n, y, bytes)
  BY ReceiveIs
<1>2. bytes = SubSeq(pty \o frame, 1, n)
  BY <1>1 DEF Takes
<1>3. /\ UNCHANGED <<setting, printed, cmd, at, step, keys>>
      /\ y \in Execution /\ y = [x EXCEPT !.buf = x.buf \o bytes] /\ y.buf = x.buf \o bytes /\ x \in Execution /\ ~x.done /\ cmd \in Commands
      /\ pty' = Rest(pty, n) /\ frame' = (IF n > Len(pty) THEN Rest(frame, n - Len(pty)) ELSE frame)
      /\ n \in 0..Len(pty \o frame) /\ pty \in Seq(Tokens) /\ frame \in Seq(Tokens) /\ bytes \in Seq(Tokens)
      /\ pty' \in Seq(Tokens) /\ Within(pty', pty)
  BY <1>1 DEF Takes
<1>4. PICK v : v = Drain(Capture(AwaitStart(y))) /\ (IF v.done THEN Complete(v) ELSE x' = v /\ active' = active)
  BY <1>1 DEF Takes
<1>5. y.phase = "capture" /\ ~y.done /\ y.id = cmd /\ y.endMark = x.endMark /\ AwaitStart(y) = y
  BY <1>3 DEF AwaitStart, Execution, FencesSound
<1>6. PICK e \in Nat, f \in Nat, h \in Nat :
        Captured(x, cmd, printed[cmd], e) /\ Copies(printed[cmd], cmd, pty, e, f) /\ FrameSound(f, h)
  BY DEF CaptureSound
<1>7. Copies(printed[cmd], cmd, frame, f, h)
  BY <1>6 DEF FrameSound
<1>8. PICK m \in Nat, f1 \in Nat :
        /\ Copies(printed[cmd], cmd, bytes, e, m) /\ Copies(printed[cmd], cmd, pty', m, f1)
        /\ Copies(printed[cmd], cmd, frame', f1, h) /\ m <= f1 /\ f1 <= h
  BY <1>1, <1>6, <1>7, ReadSplits DEF Splits
<1>9. Within(frame', frame)
  BY <1>1, <1>6, <1>7, ReadSplits
<1>10. Captured(y, cmd, printed[cmd], m)
  <2>1. PICK b \in Nat, d \in Nat :
          d <= Len(printed[cmd]) /\ Copies(printed[cmd], cmd, x.out, 0, b) /\ Copies(printed[cmd], cmd, x.prefix, b, d)
          /\ Copies(printed[cmd], cmd, x.buf, d, e)
    BY <1>6 DEF Captured
  <2>2. x.buf \in Seq(Tokens)
    BY <1>3, ExecutionsAre
  <2>3. Copies(printed[cmd], cmd, y.buf, d, m)
    BY <1>3, <1>8, <2>1, <2>2, CopiesJoin
  <2>4. y.out = x.out /\ y.prefix = x.prefix /\ y.echo = x.echo
    BY <1>3 DEF Execution
  <2> QED BY <1>6, <2>1, <2>3, <2>4 DEF Captured, HeldBack
<1>11. Never(x.buf, <<"end", cmd>>) /\ \A i \in 1..Len(x.buf) : x.buf[i][1] \notin Statuses
  BY DEF CaptureSound, Plain, Never, Statuses
<1>12. Once(pty, <<"end", cmd>>) /\ Never(frame, <<"end", cmd>>)
  BY <1>6, EndOnce
<1>13. /\ Once(bytes, <<"end", cmd>>) /\ Once(pty', <<"end", cmd>>)
       /\ Has(bytes, <<"end", cmd>>) => Never(pty', <<"end", cmd>>)
  BY <1>2, <1>3, <1>12, OnceParts
<1>14. Once(y.buf, <<"end", cmd>>) /\ (Has(y.buf, <<"end", cmd>>) => Has(bytes, <<"end", cmd>>))
  BY <1>3, <1>11, <1>13, OnceBehind, ExecutionsAre
<1>15. /\ \A i \in 1..Len(bytes) : bytes[i][1] \notin Statuses
       /\ Has(bytes, <<"end", cmd>>) => Has(pty, <<"end", cmd>>)
  BY <1>2, <1>3, <1>12, BytesAre DEF Prompted
<1>16. \A i \in 1..Len(y.buf) : y.buf[i][1] \notin Statuses
  <2>1. x.buf \in Seq(Tokens)
    BY <1>3, ExecutionsAre
  <2>2. \A i \in 1..Len(x.buf \o bytes) : (\E j \in 1..Len(x.buf) : (x.buf \o bytes)[i] = x.buf[j])
                                          \/ (\E j \in 1..Len(bytes) : (x.buf \o bytes)[i] = bytes[j])
    BY <1>3, <2>1, JoinedIs
  <2> QED BY <1>3, <1>11, <1>15, <2>2
<1>17. PiecesOf(printed[cmd], cmd) /\ Started
  BY <1>3, OwnPieces DEF Prompted, CaptureSound
<1>18. v = Drain(Capture(y))
  BY <1>4, <1>5
<1>19. Has(y.buf, <<"end", cmd>>) => Never(pty', <<"end", cmd>>) /\ Has(pty, <<"end", cmd>>)
  BY <1>13, <1>14, <1>15
<1>20. TypeOK /\ setting.kind = "powershell"
  BY DEF Prompted
<1>21. \/ active' = active /\ x'.phase = "capture" /\ CaptureSound'
       \/ active' = active /\ x'.phase = "drain" /\ DrainSound'
       \/ active' = 0 /\ Finished(x')
  BY <1>3, <1>4, <1>5, <1>6, <1>8, <1>9, <1>10, <1>13, <1>14, <1>16, <1>17, <1>18, <1>19, <1>20, ReadsSound
<1> QED BY <1>21 DEF Outcome

\* It reads what came late.
LEMMA ReceiveDrains ==
    ASSUME Prompted, PrintedSound, WiresSound, FencesSound, DrainSound, active # 0, x.phase = "drain",
           NEW n \in 1..Len(pty \o frame), Receive(n)
    PROVE  Outcome
<1>1. PICK y, bytes : Takes(n, y, bytes)
  BY ReceiveIs
<1>2. bytes = SubSeq(pty \o frame, 1, n)
  BY <1>1 DEF Takes
<1>3. /\ UNCHANGED <<setting, printed, cmd, at, step, keys>>
      /\ y \in Execution /\ y = [x EXCEPT !.buf = x.buf \o bytes] /\ y.buf = x.buf \o bytes /\ x \in Execution /\ ~x.done /\ cmd \in Commands
      /\ pty' = Rest(pty, n) /\ frame' = (IF n > Len(pty) THEN Rest(frame, n - Len(pty)) ELSE frame)
      /\ n \in 0..Len(pty \o frame) /\ pty \in Seq(Tokens) /\ frame \in Seq(Tokens) /\ bytes \in Seq(Tokens)
      /\ pty' \in Seq(Tokens) /\ Within(pty', pty)
  BY <1>1 DEF Takes
<1>4. PICK v : v = Drain(Capture(AwaitStart(y))) /\ (IF v.done THEN Complete(v) ELSE x' = v /\ active' = active)
  BY <1>1 DEF Takes
<1>5. y.phase = "drain" /\ ~y.done /\ y.endMark = x.endMark /\ AwaitStart(y) = y
  BY <1>3 DEF AwaitStart, Execution
<1>6. v = Drain(y)
  BY <1>4, <1>5 DEF Capture
<1>7. PICK e \in Nat, f \in Nat, h \in Nat :
        Drained(x, cmd, printed[cmd], e) /\ Copies(printed[cmd], cmd, pty, e, f) /\ FrameSound(f, h)
  BY DEF DrainSound
<1>8. Copies(printed[cmd], cmd, frame, f, h) /\ h <= Len(printed[cmd]) + 1 /\ Endless(frame)
  BY <1>7 DEF FrameSound
<1>9. PICK m \in Nat, f1 \in Nat :
        /\ Copies(printed[cmd], cmd, bytes, e, m) /\ Copies(printed[cmd], cmd, pty', m, f1)
        /\ Copies(printed[cmd], cmd, frame', f1, h) /\ m <= f1 /\ f1 <= h
  BY <1>1, <1>7, <1>8, ReadSplits DEF Splits
<1>10. Within(frame', frame)
  BY <1>1, <1>7, <1>8, ReadSplits
<1>11. PiecesOf(printed[cmd], cmd) /\ Started /\ at \notin Ran /\ Endless(pty)
  BY <1>3, OwnPieces DEF Prompted, DrainSound
<1>12. x.buf \in Seq(Tokens) /\ x.out \in Seq(Tokens)
  BY <1>3, ExecutionsAre
<1>13. Drained(y, cmd, printed[cmd], m)
  <2>1. PICK a \in Nat, b \in Nat, d \in Nat :
          /\ MayLose(printed[cmd], cmd, a) /\ b <= Len(printed[cmd]) /\ (d = b \/ (b = Len(printed[cmd]) /\ d = b + 1))
          /\ Copies(printed[cmd], cmd, x.out, a, b) /\ Copies(printed[cmd], cmd, x.buf, d, e)
    BY <1>7 DEF Drained
  <2>2. Copies(printed[cmd], cmd, y.buf, d, m)
    BY <1>3, <1>9, <1>12, <2>1, CopiesJoin
  <2>3. y.out = x.out
    BY <1>3 DEF Execution
  <2>4. Plain(bytes)
    BY <1>2, <1>3, <1>8, <1>11, BytesAre DEF Prompted
  <2>5. Plain(x.buf) /\ Plain(x.out)
    BY <1>7 DEF Drained
  <2>6. Plain(y.buf)
    BY <1>3, <1>12, <2>4, <2>5, JoinedAre
  <2> QED BY <2>1, <2>2, <2>3, <2>5, <2>6 DEF Drained
<1>14. Len(printed[cmd]) \in Nat
  BY <1>11 DEF PiecesOf
<1>15. m <= Len(printed[cmd]) + 1
  BY <1>8, <1>9, <1>14
<1>16. PICK w \in Execution : w = Drain(y) /\ DrainOn(w, printed[cmd], m)
  BY <1>3, <1>5, <1>11, <1>13, <1>15, DrainsOn
<1>17. w = v
  BY <1>6, <1>16
<1>18. CASE ~v.done
  <2>1. x' = v /\ active' = active
    BY <1>4, <1>18
  <2>2. x'.endMark = x.endMark
    <3>1. SameEnd(y, v)
      BY <1>3, <1>6, DrainEnd
    <3> QED BY <1>5, <2>1, <3>1 DEF SameEnd
  <2>3. Once(pty', <<"end", cmd>>)
    BY <1>3, <1>7, EndOnce, OnceParts
  <2>4. FrameSound(f1, h)'
    BY <1>3, <1>7, <1>9, <1>10, <2>2, <2>3, FrameKept
  <2>5. Drained(x, cmd, printed[cmd], m)'
    BY <1>3, <1>16, <1>17, <1>18, <2>1, DrainedNext DEF DrainOn
  <2>6. Copies(printed[cmd], cmd, pty, m, f1)'
    BY <1>3, <1>9
  <2>7. Started' /\ at' \notin Ran
    BY <1>3, <1>11 DEF Started, Runs
  <2>8. Endless(pty')
    BY <1>3, <1>11, WithinIs
  <2>9. Endless(pty)' /\ (~Has(x.buf, Prompt))'
    BY <1>16, <1>17, <1>18, <2>1, <2>8 DEF Prompt, Has, Endless, DrainOn
  <2>10. DrainSound'
    BY <2>4, <2>5, <2>6, <2>7, <2>9 DEF DrainSound
  <2>11. x'.phase = "drain"
    BY <1>16, <1>17, <2>1 DEF DrainOn
  <2> QED BY <2>1, <2>10, <2>11 DEF Outcome
<1>19. CASE v.done
  <2>1. x' = [v EXCEPT !.done = TRUE] /\ active' = 0
    BY <1>4, <1>19 DEF Complete
  <2>2. v \in Execution
    BY <1>16, <1>17
  <2>3. x'.out = v.out /\ x'.done
    BY <2>1, <2>2 DEF Execution
  <2>4. Plain(v.out) /\ \E a \in Nat : MayLose(printed[cmd], cmd, a) /\ Copies(printed[cmd], cmd, v.out, a, Len(printed[cmd]))
    BY <1>16, <1>17, <1>19 DEF DrainOn
  <2>5. Finished(x')
    BY <2>3, <2>4 DEF Finished
  <2> QED BY <2>1, <2>5 DEF Outcome
<1> QED BY <1>18, <1>19

\* Behind a mark that is read stands what is read behind it.
LEMMA BehindRead ==
    ASSUME NEW q \in Seq(Tokens), NEW r \in Seq(Tokens), NEW k \in 0..Len(q \o r), NEW m \in 1..Len(q), m <= k,
           NEW q2, q2 = SubSeq(q, m + 1, Len(q))
    PROVE  /\ q2 \in Seq(Tokens) /\ Len(q2) = Len(q) - m /\ k - m \in 0..Len(q2 \o r)
           /\ SubSeq(SubSeq(q \o r, 1, k), m + 1, k) = SubSeq(q2 \o r, 1, k - m)
<1>1. PICK l : l = Len(q)
  OBVIOUS
<1>2. PICK s : s = q \o r
  OBVIOUS
<1>3. PICK u : u = q2 \o r
  OBVIOUS
<1>4. PICK b : b = SubSeq(s, 1, k)
  OBVIOUS
<1>5. l \in Nat /\ m \in 1..l /\ m \in Nat /\ k \in Nat /\ m \in 0..l
  BY <1>1
<1>6. q2 \in Seq(Tokens) /\ Len(q2) = l - m /\ \A i \in 1..l - m : q2[i] = q[m + i]
  BY <1>1, <1>5, CutIs
<1>7. /\ s \in Seq(Tokens) /\ Len(s) = l + Len(r) /\ Len(r) \in Nat
      /\ \A i \in 1..l : s[i] = q[i]
      /\ \A i \in 1..l + Len(r) : i > l => i - l \in 1..Len(r) /\ s[i] = r[i - l]
  BY <1>1, <1>2, JoinIs
<1>8. /\ u \in Seq(Tokens) /\ Len(u) = (l - m) + Len(r)
      /\ \A i \in 1..l - m : u[i] = q2[i]
      /\ \A i \in 1..(l - m) + Len(r) : i > l - m => i - (l - m) \in 1..Len(r) /\ u[i] = r[i - (l - m)]
  <2>1. PICK k2 : k2 = Len(q2)
    OBVIOUS
  <2>2. /\ u \in Seq(Tokens) /\ Len(u) = k2 + Len(r)
        /\ \A i \in 1..k2 : u[i] = q2[i]
        /\ \A i \in 1..k2 + Len(r) : i > k2 => i - k2 \in 1..Len(r) /\ u[i] = r[i - k2]
    <3>1. q2 \in Seq(Tokens)
      BY <1>6
    <3> HIDE <1>6
    <3>2. /\ q2 \o r \in Seq(Tokens) /\ Len(q2 \o r) = Len(q2) + Len(r)
          /\ \A i \in 1..Len(q2) : (q2 \o r)[i] = q2[i]
          /\ \A i \in 1..Len(q2) + Len(r) : i > Len(q2) => i - Len(q2) \in 1..Len(r) /\ (q2 \o r)[i] = r[i - Len(q2)]
      BY <3>1, JoinIs
    <3> QED BY <1>3, <2>1, <3>2
  <2>3. k2 = l - m
    BY <1>6, <2>1
  <2> QED BY <2>2, <2>3
<1>9. k \in 0..Len(s) /\ m \in 0..k /\ k - m \in 0..Len(u) /\ k <= l + Len(r) /\ k - m \in Nat
  BY <1>2, <1>5, <1>7, <1>8
<1>10. b \in Seq(Tokens) /\ Len(b) = k /\ \A i \in 1..k : b[i] = s[i]
  BY <1>4, <1>7, <1>9, CutIs
<1>11. PICK c : c = SubSeq(b, m + 1, k)
  OBVIOUS
<1>12. c \in Seq(Tokens) /\ Len(c) = k - m /\ \A i \in 1..k - m : c[i] = b[m + i]
  BY <1>9, <1>10, <1>11, CutIs
<1>13. PICK d : d = SubSeq(u, 1, k - m)
  OBVIOUS
<1>14. d \in Seq(Tokens) /\ Len(d) = k - m /\ \A i \in 1..k - m : d[i] = u[i]
  BY <1>8, <1>9, <1>13, CutIs
<1>15. ASSUME NEW i \in 1..k - m PROVE c[i] = d[i]
  <2>1. m + i \in 1..k /\ i \in Nat /\ m + i \in 1..l + Len(r) /\ i \in 1..(l - m) + Len(r)
    BY <1>5, <1>7, <1>9
  <2>2. c[i] = s[m + i] /\ d[i] = u[i]
    BY <1>10, <1>12, <1>14, <2>1
  <2>3. CASE m + i <= l
    <3>1. i \in 1..l - m /\ m + i \in 1..l
      BY <1>5, <2>1, <2>3
    <3> QED BY <1>6, <1>7, <1>8, <2>2, <3>1
  <2>4. CASE m + i > l
    <3>1. i > l - m /\ (m + i) - l = i - (l - m)
      BY <1>5, <2>1, <2>4
    <3> QED BY <1>7, <1>8, <2>1, <2>2, <2>4, <3>1
  <2> QED BY <1>5, <2>1, <2>3, <2>4
<1>16. c = d
  BY <1>12, <1>14, <1>15, SeqEqual
<1> QED BY <1>1, <1>2, <1>3, <1>4, <1>6, <1>9, <1>11, <1>13, <1>16

\* The first mark behind something without it.
LEMMA FirstBehind ==
    ASSUME NEW b \in Seq(Tokens), NEW s \in Seq(Tokens), NEW t, Never(b, t), NEW m \in 1..Len(s), s[m] = t,
           \A i \in 1..m - 1 : s[i] # t
    PROVE  /\ Has(b \o s, t) /\ First(b \o s, t) = Len(b) + m
           /\ After(b \o s, Len(b) + m) = SubSeq(s, m + 1, Len(s))
<1>1. PICK u : u = b \o s
  OBVIOUS
<1>2. PICK l : l = Len(b)
  OBVIOUS
<1>3. /\ u \in Seq(Tokens) /\ Len(u) = l + Len(s) /\ l \in Nat /\ Len(s) \in Nat
      /\ \A i \in 1..l : u[i] = b[i]
      /\ \A i \in 1..Len(s) : u[l + i] = s[i]
      /\ \A i \in 1..l + Len(s) : i > l => i - l \in 1..Len(s) /\ u[i] = s[i - l]
  BY <1>1, <1>2, JoinIs
<1>4. l + m \in 1..Len(u) /\ u[l + m] = t /\ DOMAIN u = 1..Len(u) /\ m \in Nat
  BY <1>3
<1>5. Has(u, t)
  BY <1>4 DEF Has
<1>6. PICK n : n = First(u, t)
  OBVIOUS
<1>7. n \in 1..Len(u) /\ u[n] = t /\ \A j \in 1..n - 1 : u[j] # t
  BY <1>3, <1>5, <1>6, FirstIs
<1>8. n <= l + m
  BY <1>3, <1>4, <1>7
<1>9. n > l
  <2>1. \A i \in 1..l : u[i] # t
    BY <1>2, <1>3 DEF Never
  <2>2. n <= l => n \in 1..l
    BY <1>3, <1>7
  <2>3. ~(n <= l)
    BY <1>7, <2>1, <2>2
  <2> QED BY <1>3, <1>7, <2>3
<1>10. n - l \in 1..Len(s) /\ s[n - l] = t
  BY <1>3, <1>7, <1>9
<1>11. n = l + m
  <2>1. n - l \notin 1..m - 1
    BY <1>10
  <2>2. n - l >= m
    BY <1>3, <1>4, <1>10, <2>1
  <2> QED BY <1>3, <1>4, <1>7, <1>8, <2>2
<1>12. PICK c : c = After(u, l + m)
  OBVIOUS
<1>13. c = SubSeq(u, (l + m) + 1, Len(u)) /\ l + m \in 0..Len(u)
  BY <1>4, <1>12 DEF After
<1>14. c \in Seq(Tokens) /\ Len(c) = Len(u) - (l + m) /\ \A i \in 1..Len(u) - (l + m) : c[i] = u[(l + m) + i]
  BY <1>3, <1>13, CutIs
<1>15. PICK d : d = SubSeq(s, m + 1, Len(s))
  OBVIOUS
<1>16. d \in Seq(Tokens) /\ Len(d) = Len(s) - m /\ \A i \in 1..Len(s) - m : d[i] = s[m + i]
  <2>1. m \in 0..Len(s)
    BY <1>3
  <2> QED BY <1>15, <2>1, CutIs
<1>17. Len(u) - (l + m) = Len(s) - m
  BY <1>3, <1>4
<1>18. ASSUME NEW i \in 1..Len(s) - m PROVE c[i] = d[i]
  <2>1. m + i \in 1..Len(s) /\ (l + m) + i = l + (m + i)
    BY <1>3, <1>4
  <2>2. u[l + (m + i)] = s[m + i]
    BY <1>3, <2>1
  <2> QED BY <1>14, <1>16, <1>17, <2>1, <2>2
<1>19. c = d
  BY <1>14, <1>16, <1>17, <1>18, SeqEqual
<1> QED BY <1>1, <1>2, <1>5, <1>6, <1>11, <1>12, <1>15, <1>19

\* What is fresh has no mark of the command.
LEMMA FreshNever == ASSUME NEW s, NEW c, Fresh(s, c) PROVE \A kind : Never(s, <<kind, c>>)
  BY DEF Fresh, Never

\* The reader waits on: nothing of the command was read.
LEMMA WaitsOn ==
    ASSUME Prompted, WaitSound, NEW n, NEW y, NEW bytes, Takes(n, y, bytes),
           \A m \in 1..Len(pty) : pty[m] = <<"start", cmd>> /\ (\A i \in 1..m - 1 : pty[i][2] # cmd) => n < m,
           NEW s, Fresh(s, cmd), x' = [x EXCEPT !.buf = s]
    PROVE  WaitSound'
<1>1. /\ UNCHANGED <<setting, printed, cmd, at, step, keys>> /\ x \in Execution
      /\ pty' = Rest(pty, n) /\ frame' = (IF n > Len(pty) THEN Rest(frame, n - Len(pty)) ELSE frame)
      /\ n \in Nat /\ pty \in Seq(Tokens) /\ frame \in Seq(Tokens)
      /\ pty' \in Seq(Tokens) /\ Within(pty', pty)
  BY DEF Takes
<1>2. x'.out = <<>> /\ x'.prefix = <<>> /\ x'.echo /\ x'.buf = s /\ x'.startMark = x.startMark /\ x'.endSeen = x.endSeen
      /\ x'.endMark = x.endMark
  BY <1>1 DEF WaitSound, Execution
<1>3. Fresh(x'.buf, cmd')
  BY <1>1, <1>2
<1>4. CASE Fresh(pty, cmd) /\ Fresh(frame, cmd) /\ at \notin Ran /\ ~x.endSeen /\ printed[cmd] = <<>>
  <2>1. Fresh(pty', cmd)
    BY <1>1, <1>4, WithinIs
  <2>2. Within(frame', frame)
    <3>1. n > Len(pty) => n - Len(pty) \in Nat
      BY <1>1
    <3> QED BY <1>1, <3>1, RestIs, WithinParts
  <2>3. Fresh(frame', cmd)
    BY <1>4, <2>2, WithinIs
  <2> QED BY <1>1, <1>2, <1>3, <1>4, <2>1, <2>3 DEF WaitSound
<1>5. ASSUME Started, x.startMark, NEW m \in 1..Len(pty), pty[m] = <<"start", cmd>>, \A i \in 1..m - 1 : pty[i][2] # cmd,
             NEW b \in Nat, NEW h \in Nat, Copies(printed[cmd], cmd, SubSeq(pty, m + 1, Len(pty)), 0, b), FrameSound(b, h)
      PROVE  WaitSound'
  <2>1. n < m /\ m <= Len(pty) /\ Len(pty) \in Nat /\ m \in Nat /\ n <= Len(pty) /\ n \in 0..Len(pty) /\ n \in 0..m
    <3>1. n < m
      BY <1>5
    <3>2. Len(pty) \in Nat /\ m \in Nat /\ m <= Len(pty)
      BY <1>1, <1>5
    <3> QED BY <1>1, <3>1, <3>2
  <2>2. frame' = frame /\ pty' = SubSeq(pty, n + 1, Len(pty)) /\ Len(pty') = Len(pty) - n /\ \A i \in 1..Len(pty) - n : pty'[i] = pty[n + i]
    <3>1. ~(n > Len(pty))
      BY <2>1
    <3>2. frame' = frame
      BY <1>1, <3>1
    <3>3. /\ Rest(pty, n) = SubSeq(pty, n + 1, Len(pty)) /\ Len(Rest(pty, n)) = Len(pty) - n
          /\ \A i \in 1..Len(pty) - n : Rest(pty, n)[i] = pty[n + i]
      BY <1>1, <2>1, RestIs
    <3> QED BY <1>1, <3>2, <3>3
  <2>3. PICK w : w = m - n
    OBVIOUS
  <2>4. w \in 1..Len(pty') /\ w \in Nat /\ n + w = m /\ w \in 0..Len(pty')
    <3>1. Len(pty') = Len(pty) - n /\ n \in Nat
      BY <1>1, <2>2
    <3> QED BY <2>1, <2>3, <3>1
  <2>5. pty'[w] = <<"start", cmd>>
    BY <1>5, <2>2, <2>4
  <2>6. ASSUME NEW i \in 1..w - 1 PROVE pty'[i][2] # cmd
    <3>1. i \in 1..Len(pty) - n /\ n + i \in 1..m - 1
      <4>1. n \in Nat /\ i \in Nat /\ i >= 1 /\ i <= w - 1
        BY <1>1, <2>4
      <4> QED BY <2>1, <2>4, <4>1
    <3> QED BY <1>5, <2>2, <3>1
  <2>7. SubSeq(pty', w + 1, Len(pty')) = SubSeq(pty, m + 1, Len(pty))
    <3>1. Rest(pty, m) = Rest(pty', w)
      BY <1>1, <2>1, <2>2, <2>3, RestBehind
    <3>2. Rest(pty, m) = SubSeq(pty, m + 1, Len(pty))
      BY <1>1, <2>1, RestIs
    <3>3. Rest(pty', w) = SubSeq(pty', w + 1, Len(pty'))
      <4>1. w <= Len(pty')
        BY <2>4
      <4> QED BY <1>1, <2>4, <4>1, RestIs
    <3> QED BY <3>1, <3>2, <3>3
  <2>8. Once(pty', <<"end", cmd>>)
    <3>1. Once(pty, <<"end", cmd>>) /\ Never(frame, <<"end", cmd>>)
      BY <1>5, EndOnce
    <3>2. n \in 0..Len(pty \o frame)
      BY DEF Takes
    <3> QED BY <1>1, <3>1, <3>2, OnceParts
  <2>9. Copies(printed[cmd], cmd, frame', b, h) /\ Within(frame', frame)
    BY <1>1, <1>5, <2>2, WithinParts DEF FrameSound
  <2>10. FrameSound(b, h)'
    BY <1>1, <1>2, <1>5, <2>8, <2>9, FrameKept
  <2>11. Copies(printed[cmd], cmd, SubSeq(pty, w + 1, Len(pty)), 0, b)'
    BY <1>1, <1>5, <2>7
  <2>12. Started'
    BY <1>1, <1>5 DEF Started, Runs
  <2>13. (/\ pty[w] = <<"start", cmd>> /\ \A i \in 1..w - 1 : pty[i][2] # cmd
          /\ \E c, d \in Nat : Copies(printed[cmd], cmd, SubSeq(pty, w + 1, Len(pty)), 0, c) /\ FrameSound(c, d))'
    BY <1>1, <2>5, <2>6, <2>10, <2>11
  <2> QED BY <1>1, <1>2, <1>3, <1>5, <2>4, <2>12, <2>13 DEF WaitSound
<1> QED BY <1>4, <1>5 DEF WaitSound

\* What is behind a mark that is read, and what is left.
ReadPart(q, r, k, m, bytes, q2, s) ==
    bytes = SubSeq(q \o r, 1, k) /\ q2 = SubSeq(q, m + 1, Len(q)) /\ s = SubSeq(q2 \o r, 1, k - m)
\* The mark t stands at m, and not before.
FirstAt(q, m, t) == q[m] = t /\ \A i \in 1..m - 1 : q[i] # t
PartIs(q, r, k, m, bytes, q2, s) ==
    /\ q2 \in Seq(Tokens) /\ Len(q2) = Len(q) - m /\ k - m \in 0..Len(q2 \o r)
    /\ SubSeq(bytes, m + 1, k) = s
    /\ bytes \in Seq(Tokens) /\ k \in Nat /\ Len(q) \in Nat /\ m \in Nat /\ Len(bytes) = k
    /\ \A i \in 1..k : bytes[i] = (q \o r)[i]
    /\ \A i \in 1..Len(q) : (q \o r)[i] = q[i]
    /\ Rest(q, k) = Rest(q2, k - m)

\* What was read of two wires behind a place of the first is a part of what stands there.
LEMMA PartBehind ==
    ASSUME NEW q \in Seq(Tokens), NEW r \in Seq(Tokens), NEW k \in 0..Len(q \o r), NEW m \in 1..Len(q), m <= k,
           NEW bytes, NEW q2, NEW s, ReadPart(q, r, k, m, bytes, q2, s)
    PROVE  PartIs(q, r, k, m, bytes, q2, s)
<1>1. q2 = SubSeq(q, m + 1, Len(q)) /\ s = SubSeq(q2 \o r, 1, k - m) /\ bytes = SubSeq(q \o r, 1, k)
  BY DEF ReadPart
<1>2. /\ q2 \in Seq(Tokens) /\ Len(q2) = Len(q) - m /\ k - m \in 0..Len(q2 \o r)
      /\ SubSeq(SubSeq(q \o r, 1, k), m + 1, k) = SubSeq(q2 \o r, 1, k - m)
  <2>1. q2 = SubSeq(q, m + 1, Len(q))
    BY <1>1
  <2> HIDE <1>1
  <2> QED BY <2>1, BehindRead
<1>3. /\ bytes \in Seq(Tokens) /\ k \in Nat /\ Len(q) \in Nat /\ Len(bytes) = k
      /\ \A i \in 1..k : bytes[i] = (q \o r)[i]
  BY <1>1, ReadBytes
<1>4. \A i \in 1..Len(q) : (q \o r)[i] = q[i]
  BY JoinIs
<1>5. m \in 0..Len(q) /\ m \in Nat
  BY <1>3
<1>6. Rest(q, k) = Rest(SubSeq(q, m + 1, Len(q)), k - m)
  BY <1>3, <1>5, RestBehind
<1> QED BY <1>1, <1>2, <1>3, <1>4, <1>5, <1>6 DEF PartIs

\* The mark is found in what was read, behind what has none.
MarkRead(q, r, b, k, m, t, bytes, q2, s) ==
    /\ Has(b \o bytes, t) /\ After(b \o bytes, First(b \o bytes, t)) = s
    /\ s \in Seq(Tokens) /\ q2 \in Seq(Tokens) /\ k - m \in 0..Len(q2 \o r)
    /\ m \in 0..Len(bytes) /\ s = SubSeq(bytes, m + 1, Len(bytes))
    /\ Rest(q, k) = Rest(q2, k - m)
    /\ (k > Len(q) <=> k - m > Len(q2)) /\ (k - m) - Len(q2) = k - Len(q)

\* When the first mark of its kind is read, what is kept behind it is what was read behind it.
LEMMA MarkReads ==
    ASSUME NEW q \in Seq(Tokens), NEW r \in Seq(Tokens), NEW b \in Seq(Tokens), NEW k \in 0..Len(q \o r), NEW m \in 1..Len(q), m <= k,
           NEW t, FirstAt(q, m, t), Never(b, t),
           NEW bytes, NEW q2, NEW s, ReadPart(q, r, k, m, bytes, q2, s)
    PROVE  MarkRead(q, r, b, k, m, t, bytes, q2, s)
<1>1. /\ q2 \in Seq(Tokens) /\ Len(q2) = Len(q) - m /\ k - m \in 0..Len(q2 \o r)
      /\ SubSeq(bytes, m + 1, k) = s
      /\ bytes \in Seq(Tokens) /\ k \in Nat /\ Len(q) \in Nat /\ m \in Nat /\ Len(bytes) = k
      /\ \A i \in 1..k : bytes[i] = (q \o r)[i]
      /\ \A i \in 1..Len(q) : (q \o r)[i] = q[i]
      /\ Rest(q, k) = Rest(q2, k - m)
  <2>1. PartIs(q, r, k, m, bytes, q2, s)
    BY PartBehind
  <2> QED BY <2>1 DEF PartIs
<1>2. m \in 1..Len(bytes) /\ m \in 0..Len(bytes) /\ \A i \in 1..m - 1 : i \in 1..k /\ i \in 1..Len(q)
  BY <1>1
<1>3. bytes[m] = t /\ \A i \in 1..m - 1 : bytes[i] # t
  BY <1>1, <1>2 DEF FirstAt
<1>4. bytes \in Seq(Tokens) /\ Len(bytes) = k
  BY <1>1
<1>5. SubSeq(bytes, m + 1, Len(bytes)) = s
  BY <1>1
<1>6. /\ Len(q2) = Len(q) - m /\ k \in Nat /\ Len(q) \in Nat /\ m \in Nat
      /\ q2 \in Seq(Tokens) /\ k - m \in 0..Len(q2 \o r) /\ Rest(q, k) = Rest(q2, k - m)
  BY <1>1
<1> HIDE <1>1
<1>7. /\ Has(b \o bytes, t)
      /\ First(b \o bytes, t) = Len(b) + m
      /\ After(b \o bytes, Len(b) + m) = SubSeq(bytes, m + 1, Len(bytes))
  <2>1. bytes \in Seq(Tokens) /\ m \in 1..Len(bytes)
    BY <1>2, <1>4
  <2>2. bytes[m] = t /\ \A i \in 1..m - 1 : bytes[i] # t
    BY <1>3
  <2> QED BY <2>1, <2>2, FirstBehind
<1>8. s \in Seq(Tokens)
  BY <1>2, <1>4, <1>5, CutIs
<1>9. (k > Len(q) <=> k - m > Len(q2)) /\ (k - m) - Len(q2) = k - Len(q)
  BY <1>6
<1> QED BY <1>2, <1>5, <1>6, <1>7, <1>8, <1>9 DEF MarkRead

\* The reader finds the start mark, and goes on with what stands behind it.
LEMMA StartsReading ==
    ASSUME Prompted, PrintedSound, WiresSound, FencesSound, WaitSound, active # 0, x.phase = "wait",
           NEW n, NEW y, NEW bytes, Takes(n, y, bytes),
           Started, x.startMark, NEW m \in 1..Len(pty), pty[m] = <<"start", cmd>>, \A i \in 1..m - 1 : pty[i][2] # cmd,
           m <= n, NEW b \in Nat, NEW h \in Nat, Copies(printed[cmd], cmd, SubSeq(pty, m + 1, Len(pty)), 0, b), FrameSound(b, h)
    PROVE  Outcome
<1>1. /\ UNCHANGED <<setting, printed, cmd, at, step, keys>> /\ x \in Execution /\ ~x.done /\ cmd \in Commands
      /\ pty' = Rest(pty, n) /\ frame' = (IF n > Len(pty) THEN Rest(frame, n - Len(pty)) ELSE frame)
      /\ n \in Nat /\ pty \in Seq(Tokens) /\ frame \in Seq(Tokens) /\ n \in 0..Len(pty \o frame)
      /\ pty' \in Seq(Tokens) /\ Within(pty', pty) /\ bytes \in Seq(Tokens) /\ bytes = SubSeq(pty \o frame, 1, n)
      /\ y \in Execution /\ y = [x EXCEPT !.buf = x.buf \o bytes] /\ y.buf = x.buf \o bytes
  BY DEF Takes
<1>2. PICK v : v = Drain(Capture(AwaitStart(y))) /\ (IF v.done THEN Complete(v) ELSE x' = v /\ active' = active)
  BY DEF Takes
<1>3. x.id = cmd /\ x.out = <<>> /\ x.prefix = <<>> /\ x.echo /\ Fresh(x.buf, cmd) /\ x.buf \in Seq(Tokens)
  BY <1>1, ExecutionsAre DEF FencesSound, WaitSound
<1>4. PICK q : q = SubSeq(pty, m + 1, Len(pty))
  OBVIOUS
<1>5. PICK s : s = SubSeq(q \o frame, 1, n - m)
  OBVIOUS
<1>6. Never(x.buf, <<"start", cmd>>)
  BY <1>3, FreshNever
<1>7. \A i \in 1..m - 1 : pty[i] # <<"start", cmd>>
  OBVIOUS
<1>8. PICK w : w = x.buf
  OBVIOUS
<1>9. /\ Has(w \o bytes, <<"start", cmd>>) /\ After(w \o bytes, First(w \o bytes, <<"start", cmd>>)) = s
      /\ s \in Seq(Tokens) /\ q \in Seq(Tokens) /\ n - m \in 0..Len(q \o frame)
      /\ m \in 0..Len(bytes) /\ s = SubSeq(bytes, m + 1, Len(bytes))
      /\ Rest(pty, n) = Rest(q, n - m)
      /\ (n > Len(pty) <=> n - m > Len(q)) /\ (n - m) - Len(q) = n - Len(pty)
  <2>1. /\ pty \in Seq(Tokens) /\ frame \in Seq(Tokens) /\ n \in 0..Len(pty \o frame) /\ bytes = SubSeq(pty \o frame, 1, n)
        /\ w \in Seq(Tokens) /\ Never(w, <<"start", cmd>>)
    BY <1>1, <1>3, <1>6, <1>8
  <2>2. ReadPart(pty, frame, n, m, bytes, q, s)
    BY <1>4, <1>5, <2>1 DEF ReadPart
  <2>3. FirstAt(pty, m, <<"start", cmd>>)
    BY <1>7 DEF FirstAt
  <2>4. MarkRead(pty, frame, w, n, m, <<"start", cmd>>, bytes, q, s)
    <3> HIDE <1>1
    <3> QED BY <2>1, <2>2, <2>3, MarkReads
  <2> QED BY <2>4 DEF MarkRead
<1>10. PICK z : z = AwaitStart(y)
  OBVIOUS
<1>11. z = [y EXCEPT !.phase = "capture", !.buf = s]
  <2>1. y.phase = "wait" /\ y.startMark /\ y.id = cmd
    BY <1>1, <1>3 DEF Execution
  <2>2. Has(y.buf, <<"start", y.id>>) /\ After(y.buf, First(y.buf, <<"start", y.id>>)) = s
    BY <1>1, <1>8, <1>9, <2>1
  <2> QED BY <1>10, <2>1, <2>2 DEF AwaitStart
<1>12. z \in Execution
  BY <1>1, <1>10, AwaitStartTyped
<1>13. /\ z.phase = "capture" /\ z.buf = s /\ z.out = <<>> /\ z.prefix = <<>> /\ z.echo /\ z.id = cmd /\ ~z.done
       /\ z.endMark = x.endMark
  BY <1>1, <1>3, <1>11 DEF Execution
<1>14. PICK p : p = printed[cmd]
  OBVIOUS
<1>15. Copies(p, cmd, q, 0, b) /\ Copies(p, cmd, frame, b, h)
  BY <1>4, <1>14 DEF FrameSound
<1>16. frame' = IF n - m > Len(q) THEN Rest(frame, (n - m) - Len(q)) ELSE frame
  BY <1>1, <1>9
<1>17. pty' = Rest(q, n - m)
  BY <1>1, <1>9
<1>18. PICK r1 : r1 = frame'
  OBVIOUS
<1>19. r1 \in Seq(Tokens) /\ Within(r1, frame)
  BY <1>1, <1>9, <1>15, <1>16, <1>18, ReadCopies
<1>20. \E k, f1 \in Nat : /\ Copies(p, cmd, s, 0, k) /\ Copies(p, cmd, Rest(q, n - m), k, f1)
                          /\ Copies(p, cmd, r1, f1, h) /\ k <= f1 /\ f1 <= h
  <2>1. PICK l : l = n - m
    OBVIOUS
  <2>2. l \in 0..Len(q \o frame) /\ r1 = (IF l > Len(q) THEN Rest(frame, l - Len(q)) ELSE frame) /\ s = SubSeq(q \o frame, 1, l)
        /\ q \in Seq(Tokens) /\ frame \in Seq(Tokens)
    BY <1>1, <1>5, <1>9, <1>16, <1>18, <2>1
  <2>3. \E k, f1 \in Nat : /\ Copies(p, cmd, SubSeq(q \o frame, 1, l), 0, k) /\ Copies(p, cmd, Rest(q, l), k, f1)
                           /\ Copies(p, cmd, r1, f1, h) /\ k <= f1 /\ f1 <= h
    BY <1>15, <2>2, ReadCopies
  <2> QED BY <2>1, <2>2, <2>3
<1>21. PICK k \in Nat, f1 \in Nat :
         Copies(p, cmd, s, 0, k) /\ Copies(p, cmd, pty', k, f1) /\ Copies(p, cmd, frame', f1, h) /\ k <= f1 /\ f1 <= h
  BY <1>17, <1>18, <1>20
<1>22. Captured(z, cmd, p, k)
  <2>1. Copies(p, cmd, <<>>, 0, 0)
    BY CopiesNothing
  <2>2. HeldBack(z, cmd)
    BY <1>13, FewTokens DEF HeldBack, EndsLine
  <2>3. 0 <= Len(p)
    BY <1>1, <1>14, OwnPieces DEF Prompted, PiecesOf
  <2>4. Plain(z.prefix) /\ Plain(z.out)
    BY <1>13, FewTokens
  <2> QED BY <1>13, <1>21, <2>1, <2>2, <2>3, <2>4 DEF Captured
<1>23. Once(pty, <<"end", cmd>>) /\ Never(frame, <<"end", cmd>>)
  BY EndOnce
<1>24. /\ Once(bytes, <<"end", cmd>>) /\ Once(pty', <<"end", cmd>>)
       /\ Has(bytes, <<"end", cmd>>) => Never(pty', <<"end", cmd>>)
  BY <1>1, <1>23, OnceParts
<1>25. Within(q, pty) /\ Within(s, bytes) /\ s \in Seq(Tokens)
  <2>1. m \in 0..Len(pty)
    BY <1>1
  <2> QED BY <1>1, <1>4, <1>9, <2>1, WithinParts
<1>26. Once(q, <<"end", cmd>>)
  <2>1. m \in 0..Len(pty \o frame) /\ m \in Nat /\ m <= Len(pty) /\ pty \o frame \in Seq(Tokens)
    BY <1>1
  <2>2. Rest(pty, m) = q
    BY <1>1, <1>4, <2>1, RestIs
  <2> QED BY <1>1, <1>23, <2>1, <2>2, OnceParts
<1>27. Once(s, <<"end", cmd>>)
  BY <1>1, <1>5, <1>9, <1>23, <1>26, OnceParts
<1>28. Has(s, <<"end", cmd>>) => Has(bytes, <<"end", cmd>>)
  <2>1. DOMAIN s = 1..Len(s) /\ DOMAIN bytes = 1..Len(bytes)
    BY <1>1, <1>25
  <2> QED BY <1>25, <2>1 DEF Has, Within
<1>29. /\ \A i \in 1..Len(bytes) : bytes[i][1] \notin Statuses
       /\ Has(bytes, <<"end", cmd>>) => Has(pty, <<"end", cmd>>)
  BY <1>1, <1>23, BytesAre DEF Prompted
<1>30. \A i \in 1..Len(s) : s[i][1] \notin Statuses
  BY <1>25, <1>29 DEF Within
<1>31. PiecesOf(printed[cmd], cmd) /\ TypeOK /\ setting.kind = "powershell"
  BY <1>1, OwnPieces DEF Prompted
<1>32. v = Drain(Capture(z))
  BY <1>2, <1>10
<1>33. \/ active' = active /\ x'.phase = "capture" /\ CaptureSound'
       \/ active' = active /\ x'.phase = "drain" /\ DrainSound'
       \/ active' = 0 /\ Finished(x')
  <2>1. Within(frame', frame)
    BY <1>18, <1>19
  <2>2. Has(z.buf, <<"end", cmd>>) => Never(pty', <<"end", cmd>>) /\ Has(pty, <<"end", cmd>>)
    BY <1>13, <1>24, <1>28, <1>29
  <2>3. \A i \in 1..Len(z.buf) : z.buf[i][1] \notin Statuses
    BY <1>13, <1>30
  <2>4. Once(z.buf, <<"end", cmd>>)
    BY <1>13, <1>27
  <2>5. Captured(z, cmd, printed[cmd], k) /\ Copies(printed[cmd], cmd, pty', k, f1) /\ Copies(printed[cmd], cmd, frame', f1, h)
    BY <1>14, <1>21, <1>22
  <2> QED BY <1>1, <1>2, <1>12, <1>13, <1>21, <1>24, <1>31, <1>32, <2>1, <2>2, <2>3, <2>4, <2>5, ReadsSound
<1> QED BY <1>33 DEF Outcome

\* The reader reads what comes before a command, or its beginning.
LEMMA ReceiveWaits ==
    ASSUME Prompted, PrintedSound, WiresSound, FencesSound, WaitSound, active # 0, x.phase = "wait",
           NEW n \in 1..Len(pty \o frame), Receive(n)
    PROVE  Outcome
<1>1. PICK y, bytes : Takes(n, y, bytes)
  BY ReceiveIs
<1>2. /\ UNCHANGED <<setting, printed, cmd, at, step, keys>>
      /\ y \in Execution /\ y = [x EXCEPT !.buf = x.buf \o bytes] /\ y.buf = x.buf \o bytes /\ x \in Execution /\ ~x.done /\ cmd \in Commands
      /\ n \in 0..Len(pty \o frame) /\ pty \in Seq(Tokens) /\ frame \in Seq(Tokens) /\ bytes \in Seq(Tokens)
      /\ bytes = SubSeq(pty \o frame, 1, n) /\ n \in Nat
  BY <1>1 DEF Takes
<1>3. PICK v : v = Drain(Capture(AwaitStart(y))) /\ (IF v.done THEN Complete(v) ELSE x' = v /\ active' = active)
  BY <1>1 DEF Takes
<1>4. Fresh(x.buf, cmd) /\ x.buf \in Seq(Tokens) /\ x.startMark \in BOOLEAN
  BY <1>2, ExecutionsAre DEF WaitSound
<1>5. y.phase = "wait" /\ ~y.done /\ y.id = x.id /\ y.startMark = x.startMark
  BY <1>2 DEF Execution
<1>6. ASSUME NEW s, AwaitStart(y) = [x EXCEPT !.buf = s], Fresh(s, cmd),
             \A m \in 1..Len(pty) : pty[m] = <<"start", cmd>> /\ (\A i \in 1..m - 1 : pty[i][2] # cmd) => n < m
      PROVE  Outcome
  <2>1. PICK z : z = [x EXCEPT !.buf = s]
    OBVIOUS
  <2>2. z.phase = "wait" /\ ~z.done
    BY <1>2, <2>1 DEF Execution
  <2>3. v = z
    BY <1>3, <1>6, <2>1, <2>2 DEF Capture, Drain
  <2>4. x' = z /\ active' = active
    BY <1>3, <2>2, <2>3
  <2>5. WaitSound'
    BY <1>1, <1>6, <2>1, <2>4, WaitsOn
  <2> QED BY <2>2, <2>4, <2>5 DEF Outcome
<1>7. CASE ~x.startMark
  <2>1. AwaitStart(y) = [x EXCEPT !.buf = x.buf \o bytes]
    BY <1>2, <1>5, <1>7 DEF AwaitStart
  <2>2. Fresh(pty, cmd) /\ Fresh(frame, cmd)
    BY <1>7 DEF WaitSound
  <2>3. Fresh(bytes, cmd)
    BY <1>2, <2>2, BytesAre DEF Prompted
  <2>4. Fresh(x.buf \o bytes, cmd)
    BY <1>2, <1>4, <2>3, JoinedAre
  <2>5. ASSUME NEW m \in 1..Len(pty), pty[m] = <<"start", cmd>> PROVE FALSE
    BY <2>2, <2>5 DEF Fresh
  <2> QED BY <1>6, <2>1, <2>4, <2>5
<1>8. CASE x.startMark /\ ~Has(y.buf, <<"start", y.id>>)
  <2>1. AwaitStart(y) = [x EXCEPT !.buf = <<>>]
    BY <1>2, <1>5, <1>8 DEF AwaitStart
  <2>2. Fresh(<<>>, cmd)
    BY FewTokens
  <2>3. x.id = cmd
    BY <1>8 DEF FencesSound
  <2>4. ASSUME NEW m \in 1..Len(pty), pty[m] = <<"start", cmd>>, ~(n < m) PROVE FALSE
    <3>1. m \in 1..n /\ m \in 1..Len(bytes) /\ bytes[m] = (pty \o frame)[m] /\ m \in Nat
      <4>1. Len(bytes) = n /\ \A i \in 1..n : bytes[i] = (pty \o frame)[i]
        BY <1>2, ReadBytes
      <4> QED BY <1>2, <2>4, <4>1
    <3>2. bytes[m] = <<"start", cmd>>
      BY <1>2, <2>4, <3>1, JoinIs
    <3>3. /\ Len(x.buf \o bytes) = Len(x.buf) + Len(bytes) /\ Len(x.buf) \in Nat /\ Len(bytes) \in Nat
          /\ x.buf \o bytes \in Seq(Tokens)
          /\ \A i \in 1..Len(bytes) : (x.buf \o bytes)[Len(x.buf) + i] = bytes[i]
      <4>1. PICK w : w = x.buf
        OBVIOUS
      <4>2. w \in Seq(Tokens) /\ bytes \in Seq(Tokens)
        BY <1>2, <1>4, <4>1
      <4>3. /\ Len(w \o bytes) = Len(w) + Len(bytes) /\ Len(w) \in Nat /\ Len(bytes) \in Nat
            /\ w \o bytes \in Seq(Tokens)
            /\ \A i \in 1..Len(bytes) : (w \o bytes)[Len(w) + i] = bytes[i]
        BY <4>2, JoinIs
      <4> QED BY <4>1, <4>3
    <3>4. Len(x.buf) + m \in 1..Len(x.buf \o bytes) /\ (x.buf \o bytes)[Len(x.buf) + m] = <<"start", cmd>>
      BY <3>1, <3>2, <3>3
    <3>5. DOMAIN (x.buf \o bytes) = 1..Len(x.buf \o bytes)
      BY <3>3
    <3>6. Has(x.buf \o bytes, <<"start", cmd>>)
      BY <3>4, <3>5 DEF Has
    <3> QED BY <1>2, <1>5, <1>8, <2>3, <3>6
  <2> QED BY <1>6, <2>1, <2>2, <2>4
<1>9. CASE x.startMark /\ Has(y.buf, <<"start", y.id>>)
  <2>1. x.id = cmd
    BY <1>9 DEF FencesSound
  <2>2. Has(x.buf \o bytes, <<"start", cmd>>)
    BY <1>2, <1>5, <1>9, <2>1
  <2>3. ~Fresh(bytes, cmd)
    <3>1. ASSUME Fresh(bytes, cmd) PROVE FALSE
      <4>1. Fresh(x.buf \o bytes, cmd)
        BY <1>2, <1>4, <3>1, JoinedAre
      <4>2. DOMAIN (x.buf \o bytes) = 1..Len(x.buf \o bytes)
        BY <1>2, <1>4
      <4> QED BY <2>2, <4>1, <4>2 DEF Has, Fresh
    <3> QED BY <3>1
  <2>4. ~(Fresh(pty, cmd) /\ Fresh(frame, cmd))
    BY <1>2, <2>3, BytesAre DEF Prompted
  <2>5. PICK m \in 1..Len(pty) :
          /\ Started /\ pty[m] = <<"start", cmd>> /\ \A i \in 1..m - 1 : pty[i][2] # cmd
          /\ \E b, h \in Nat :
                Copies(printed[cmd], cmd, SubSeq(pty, m + 1, Len(pty)), 0, b) /\ FrameSound(b, h)
    BY <2>4 DEF WaitSound
  <2>6. m <= n
    <3>1. ASSUME n < m PROVE FALSE
      <4>1. \A i \in 1..n : i \in 1..m - 1 /\ i \in 1..Len(pty)
        BY <1>2, <3>1
      <4>2. Len(bytes) = n /\ \A i \in 1..n : bytes[i] = (pty \o frame)[i]
        BY <1>2, ReadBytes
      <4>3. \A i \in 1..Len(pty) : (pty \o frame)[i] = pty[i]
        BY <1>2, JoinIs
      <4>4. Fresh(bytes, cmd)
        BY <2>5, <4>1, <4>2, <4>3 DEF Fresh
      <4> QED BY <2>3, <4>4
    <3> QED BY <1>2, <3>1
  <2> QED BY <1>1, <1>9, <2>5, <2>6, StartsReading
<1> QED BY <1>4, <1>7, <1>8, <1>9

-----------------------------------------------------------------------------
(* What is kept true of the output of a PowerShell session.                  *)

\* What is kept true of the output of a PowerShell session.
PromptedOutput ==
    PrintedSound /\ ReportedSound /\ RecordSound /\ EndsOnce /\ WiresSound /\ StreamSound
\* A program has written more.
Grows(c) ==
    /\ ~Silent(c) /\ Len(printed[c]) \in Nat /\ Len(printed'[c]) \in Nat
    /\ Len(printed[c]) <= Len(printed'[c]) /\ \A i \in 1..Len(printed[c]) : printed'[c][i] = printed[c][i]

\* What was reported stays true.
LEMMA OutcomeKept ==
    ASSUME NEW s \in Seq(Tokens), NEW c, NEW a, NEW b, NEW told \in BOOLEAN, NEW told2 \in BOOLEAN, told2 => told, OutcomeSound(s, c, a, b, told),
           setting' = setting, timedOut \subseteq timedOut', Silent(c) => Silent(c)', printed'[c] = printed[c] \/ Grows(c)
    PROVE  OutcomeSound(s, c, a, b, told2)'
<1>1. PICK p : p = printed[c]
  OBVIOUS
<1>2. PICK q : q = printed'[c]
  OBVIOUS
<1>3. /\ Copies(p, c, s, a, b) /\ Plain(s) /\ (b <= Len(p) \/ (c \in timedOut /\ Silent(c))) /\ (told => Silent(c))
      /\ told /\ c \notin timedOut => b = Len(p) /\ MayLose(p, c, a)
  BY <1>1 DEF OutcomeSound
<1>4. CASE q = p
  <2>1. Copies(printed[c], c, s, a, b)'
    BY <1>1, <1>2, <1>3, <1>4
  <2>2. Plain(s)'
    BY <1>3
  <2>3. (b <= Len(printed[c]) \/ (c \in timedOut /\ Silent(c)))'
    BY <1>1, <1>2, <1>3, <1>4
  <2>4. MayLose(p, c, a) => MayLose(printed[c], c, a)'
    BY <1>1, <1>2, <1>4 DEF MayLose
  <2>5. (told2 /\ c \notin timedOut => b = Len(printed[c]) /\ MayLose(printed[c], c, a))'
    BY <1>1, <1>2, <1>3, <1>4, <2>4
  <2>6. (told2 => Silent(c))'
    BY <1>3
  <2> QED BY <2>1, <2>2, <2>3, <2>5, <2>6 DEF OutcomeSound
<1>5. CASE q # p
  <2>1. ~Silent(c) /\ Len(p) \in Nat /\ Len(q) \in Nat /\ Len(p) <= Len(q) /\ \A i \in 1..Len(p) : q[i] = p[i]
    BY <1>1, <1>2, <1>5 DEF Grows
  <2>2. ~told /\ ~told2 /\ b <= Len(p)
    BY <1>3, <2>1
  <2>3. Copies(q, c, s, a, b)
    BY <1>3, <2>1, <2>2, CopiesStay
  <2>4. Copies(printed[c], c, s, a, b)'
    BY <1>2, <2>3
  <2>5. Plain(s)'
    BY <1>3
  <2>6. b <= Len(printed'[c])
    <3>1. b \in Nat
      BY <1>3 DEF Copies
    <3> QED BY <1>2, <2>1, <2>2, <3>1
  <2> QED BY <2>2, <2>4, <2>5, <2>6 DEF OutcomeSound
<1> QED BY <1>4, <1>5

\* All that was reported does.
LEMMA ReportedKept ==
    ASSUME TypeOK, ReportedSound, setting' = setting, timedOut \subseteq timedOut', \A c \in Commands : Silent(c) => Silent(c)',
           \A c \in Commands : printed'[c] = printed[c] \/ Grows(c), UNCHANGED reported,
           \A c \in Commands : Told(c)' => Told(c)
    PROVE  ReportedSound'
<1>1. ASSUME NEW c \in Commands PROVE \E a, b \in Nat : OutcomeSound(reported[c], c, a, b, Told(c))'
  <2>0. reported[c] \in Seq(Tokens)
    BY TypesAre DEF ResultTyped
  <2>1. PICK s \in Seq(Tokens) : s = reported[c]
    BY <2>0
  <2>2. PICK told \in BOOLEAN : told <=> Told(c)
    OBVIOUS
  <2>3. PICK told2 \in BOOLEAN : told2 <=> Told(c)'
    OBVIOUS
  <2>4. PICK a \in Nat, b \in Nat : OutcomeSound(reported[c], c, a, b, Told(c))
    BY DEF ReportedSound
  <2>5. OutcomeSound(s, c, a, b, told)
    BY <2>1, <2>2, <2>4 DEF OutcomeSound
  <2>6. OutcomeSound(s, c, a, b, told2)'
    <3>1. (told2 => told) /\ (Silent(c) => Silent(c)') /\ (printed'[c] = printed[c] \/ Grows(c))
      BY <2>2, <2>3
    <3> QED BY <2>5, <3>1, OutcomeKept
  <2>7. OutcomeSound(reported[c], c, a, b, Told(c))'
    BY <2>1, <2>3, <2>6 DEF OutcomeSound
  <2> QED BY <2>7
<1> QED BY <1>1 DEF ReportedSound

\* A record that no step changes does.
LEMMA RecordKept ==
    ASSUME TypeOK, RecordSound, setting' = setting, timedOut \subseteq timedOut', Silent(cmd) => Silent(cmd)',
           printed'[cmd] = printed[cmd] \/ Grows(cmd), UNCHANGED <<x, cmd>>, Kept
    PROVE  RecordSound'
<1>0. x.out \in Seq(Tokens)
  BY TypesAre, ExecutionsAre DEF RecordTyped
<1>1. PICK s \in Seq(Tokens) : s = x.out
  BY <1>0
<1>2. PICK told \in BOOLEAN : told <=> x.done /\ x.status \in Statuses
  OBVIOUS
<1>3. PICK a \in Nat, b \in Nat : OutcomeSound(x.out, cmd, a, b, x.done /\ x.status \in Statuses)
  BY DEF RecordSound
<1>4. PICK c : c = cmd
  OBVIOUS
<1>5. OutcomeSound(s, c, a, b, told)
  BY <1>1, <1>2, <1>3, <1>4 DEF OutcomeSound
<1>6. OutcomeSound(s, c, a, b, told)'
  <2>1. (Silent(c) => Silent(c)') /\ (printed'[c] = printed[c] \/ Grows(c))
    BY <1>4
  <2> QED BY <1>5, <2>1, OutcomeKept
<1>7. OutcomeSound(x.out, cmd, a, b, x.done /\ x.status \in Statuses)'
  BY <1>1, <1>2, <1>4, <1>6 DEF OutcomeSound
<1> QED BY <1>7 DEF RecordSound

\* The output of a record that is open is that of its command.
LEMMA RecordOpen == Prompted /\ PrintedSound /\ StreamSound /\ active # 0 => RecordSound
<1> SUFFICES ASSUME Prompted, PrintedSound, StreamSound, active # 0, Kept
             PROVE  \E a, b \in Nat : OutcomeSound(x.out, cmd, a, b, x.done /\ x.status \in Statuses)
  BY DEF RecordSound
<1>1. ~x.done /\ cmd \in Commands
  BY NumbersAre DEF Prompted, Common, ClientSound, Kept
<1>2. Len(printed[cmd]) \in Nat
  BY <1>1, OwnPieces DEF Prompted, PiecesOf
<1>3. \E a, b \in Nat : Copies(printed[cmd], cmd, x.out, a, b) /\ Plain(x.out) /\ b <= Len(printed[cmd])
  <2>1. CASE x.phase = "wait"
    <3>1. x.out = <<>>
      BY <2>1 DEF StreamSound, WaitSound
    <3>2. Copies(printed[cmd], cmd, x.out, 0, 0) /\ Plain(x.out)
      BY <3>1, CopiesNothing, FewTokens
    <3> QED BY <1>2, <3>2
  <2>2. CASE x.phase = "capture"
    <3>1. PICK e : Captured(x, cmd, printed[cmd], e)
      BY <2>2 DEF StreamSound, CaptureSound
    <3>2. PICK b \in Nat, d \in Nat : d <= Len(printed[cmd]) /\ Copies(printed[cmd], cmd, x.out, 0, b) /\ Copies(printed[cmd], cmd, x.prefix, b, d)
      BY <3>1 DEF Captured
    <3>3. b <= d
      <4>1. x.prefix \in Seq(Tokens)
        BY TypesAre, ExecutionsAre DEF Prompted, RecordTyped
      <4> QED BY <3>2, <4>1, CopiesOrder
    <3>4. Plain(x.out)
      BY <3>1 DEF Captured
    <3> QED BY <1>2, <3>2, <3>3, <3>4
  <2>3. CASE x.phase = "drain"
    <3>1. PICK e : Drained(x, cmd, printed[cmd], e)
      BY <2>3 DEF StreamSound, DrainSound
    <3> QED BY <3>1 DEF Drained
  <2> QED BY <2>1, <2>2, <2>3 DEF StreamSound, FencesSound
<1> QED BY <1>1, <1>3 DEF OutcomeSound

\* As RecordOpen, of the next state.
LEMMA RecordOpens == ASSUME Prompted', PrintedSound', StreamSound', active' # 0 PROVE RecordSound'
<1>1. Prompted' /\ PrintedSound' /\ StreamSound' /\ (active # 0)'
  OBVIOUS
<1> QED BY <1>1, RecordOpen, PTL

\* What the programs have written is not touched.
LEMMA PrintedRest ==
    ASSUME PrintedSound, UNCHANGED printed, \A c \in Commands : ran'[c] = 0 => ran[c] = 0,
           at' = "running" /\ prog' # 0 => at = "running" /\ UNCHANGED <<prog, press>> /\ (ran[prog] > 0 => ran'[prog] > 0)
    PROVE  PrintedSound'
  BY DEF PrintedSound

\* No key runs a line a second time.
LEMMA EndsRest ==
    ASSUME EndsOnce, UNCHANGED <<ended, timedOut>>, Pressed \in Nat, Pressed' \in Nat, Pressed <= Pressed',
           \A i \in 1..Len(keys') : keys'[i][1] = "run" => keys'[i][2] \notin ended,
           at' \in Under \cup {"running"} => press' \notin ended
    PROVE  EndsOnce'
  BY DEF EndsOnce, Runs

\* What is on its way stays of commands that were told to run.
LEMMA WiresRest ==
    ASSUME WiresSound, UNCHANGED <<pty, frame>>, Pressed \in Nat, Pressed' \in Nat, Pressed <= Pressed',
           pty \in Seq(Tokens), frame \in Seq(Tokens), at' \in Under => at \in Under
    PROVE  WiresSound'
<1>1. \A i \in 1..Len(pty) : pty[i][2] \in Nat
  <2>1. \A i \in 1..Len(pty) : pty[i] \in Tokens
    OBVIOUS
  <2> QED BY <2>1, TokenPair, CommandsAre
<1>2. \A i \in 1..Len(frame) : frame[i][2] \in Nat
  <2>1. \A i \in 1..Len(frame) : frame[i] \in Tokens
    OBVIOUS
  <2> QED BY <2>1, TokenPair, CommandsAre
<1> QED BY <1>1, <1>2 DEF WiresSound, Wired

\* A step that leaves the text alone, of the record and on the wires.
SameText ==
    /\ UNCHANGED <<cmd, printed, pty, frame, setting>>
    /\ x'.phase = x.phase /\ x'.out = x.out /\ x'.prefix = x.prefix /\ x'.echo = x.echo /\ x'.buf = x.buf
    /\ (x.startMark => x'.startMark) /\ (x.endMark => x'.endMark) /\ (x'.endSeen => x.endSeen \/ at \in Ran)
    /\ (at' \in Ran => at \in Ran) /\ (Started => Started')

\* A step that leaves the text alone leaves what is behind it sound.
LEMMA FrameRest == ASSUME NEW b, NEW h, FrameSound(b, h), SameText PROVE FrameSound(b, h)'
  BY DEF FrameSound, Endless, SameText

\* Of a record that is captured.
LEMMA CaptureRest == ASSUME CaptureSound, SameText PROVE CaptureSound'
<1>1. PICK e \in Nat, f \in Nat, h \in Nat :
        Captured(x, cmd, printed[cmd], e) /\ Copies(printed[cmd], cmd, pty, e, f) /\ FrameSound(f, h)
  BY DEF CaptureSound
<1>2. PICK v, p : v = x' /\ p = printed[cmd]
  OBVIOUS
<1>3. Captured(v, cmd, p, e)
  BY <1>1, <1>2 DEF Captured, HeldBack, SameText
<1>4. Captured(x, cmd, printed[cmd], e)'
  BY <1>2, <1>3, CapturedNext DEF SameText
<1>5. Copies(printed[cmd], cmd, pty, e, f)'
  BY <1>1 DEF SameText
<1>6. FrameSound(f, h)'
  BY <1>1, FrameRest
<1>7. Plain(x.buf)' /\ Started'
  BY DEF CaptureSound, SameText
<1> QED BY <1>4, <1>5, <1>6, <1>7 DEF CaptureSound

\* Of one that is drained.
LEMMA DrainRest == ASSUME DrainSound, SameText PROVE DrainSound'
<1>1. PICK e \in Nat, f \in Nat, h \in Nat :
        Drained(x, cmd, printed[cmd], e) /\ Copies(printed[cmd], cmd, pty, e, f) /\ FrameSound(f, h)
  BY DEF DrainSound
<1>2. PICK v, p : v = x' /\ p = printed[cmd]
  OBVIOUS
<1>3. Drained(v, cmd, p, e)
  BY <1>1, <1>2 DEF Drained, SameText
<1>4. Drained(x, cmd, printed[cmd], e)'
  BY <1>2, <1>3, DrainedNext DEF SameText
<1>5. Copies(printed[cmd], cmd, pty, e, f)'
  BY <1>1 DEF SameText
<1>6. FrameSound(f, h)'
  BY <1>1, FrameRest
<1>7. (Started /\ at \notin Ran /\ Endless(pty) /\ ~Has(x.buf, Prompt))'
  BY DEF DrainSound, SameText
<1> QED BY <1>4, <1>5, <1>6, <1>7 DEF DrainSound

\* Of one whose start mark is waited for.
LEMMA WaitRest == ASSUME WaitSound, SameText PROVE WaitSound'
<1>1. (x.out = <<>> /\ x.prefix = <<>> /\ x.echo /\ Fresh(x.buf, cmd))'
  BY DEF WaitSound, SameText
<1>2. CASE Fresh(pty, cmd) /\ Fresh(frame, cmd) /\ at \notin Ran /\ ~x.endSeen /\ printed[cmd] = <<>>
  <2>1. (Fresh(pty, cmd) /\ Fresh(frame, cmd) /\ at \notin Ran /\ ~x.endSeen /\ printed[cmd] = <<>>)'
    BY <1>2 DEF SameText
  <2> QED BY <1>1, <2>1 DEF WaitSound
<1>3. ASSUME Started, x.startMark, NEW m \in 1..Len(pty), pty[m] = <<"start", cmd>>, \A i \in 1..m - 1 : pty[i][2] # cmd,
             NEW b \in Nat, NEW h \in Nat, Copies(printed[cmd], cmd, SubSeq(pty, m + 1, Len(pty)), 0, b), FrameSound(b, h)
      PROVE  WaitSound'
  <2>1. FrameSound(b, h)'
    BY <1>3, FrameRest
  <2>2. Copies(printed[cmd], cmd, SubSeq(pty, m + 1, Len(pty)), 0, b)'
    BY <1>3 DEF SameText
  <2>3. (/\ pty[m] = <<"start", cmd>> /\ \A i \in 1..m - 1 : pty[i][2] # cmd
         /\ \E c, d \in Nat : Copies(printed[cmd], cmd, SubSeq(pty, m + 1, Len(pty)), 0, c) /\ FrameSound(c, d))'
    BY <1>3, <2>1, <2>2 DEF SameText
  <2>4. Started' /\ x'.startMark /\ m \in 1..Len(pty')
    BY <1>3 DEF SameText
  <2> QED BY <1>1, <2>3, <2>4 DEF WaitSound
<1> QED BY <1>2, <1>3 DEF WaitSound

\* All of the stream.
LEMMA StreamRest ==
    ASSUME active' # 0 => active # 0 /\ StreamSound /\ SameText /\ FencesSound'
    PROVE  StreamSound'
<1> SUFFICES ASSUME active' # 0 PROVE StreamSound'
  BY DEF StreamSound
<1>1. x'.phase = x.phase /\ StreamSound /\ SameText /\ active # 0
  BY DEF SameText
<1>2. x.phase = "wait" => WaitSound'
  BY <1>1, WaitRest DEF StreamSound
<1>3. x.phase = "capture" => CaptureSound'
  BY <1>1, CaptureRest DEF StreamSound
<1>4. x.phase = "drain" => DrainSound'
  BY <1>1, DrainRest DEF StreamSound
<1> QED BY <1>1, <1>2, <1>3, <1>4 DEF StreamSound

\* A step that touches neither the record nor the wires nor the shell.
Calm ==
    /\ UNCHANGED <<setting, active, x, pty, frame, printed, cmd, at, prog, press, ran, ended, timedOut, reported, result>>
    /\ Pressed \in Nat /\ Pressed' \in Nat /\ Pressed <= Pressed' /\ (Kept' => Kept) /\ (Started => Started')
    /\ \A i \in 1..Len(keys') : keys'[i][1] = "run" => keys'[i][2] \notin ended

\* A step that touches neither the record nor the wires nor the shell keeps the output sound.
LEMMA CalmKeeps == ASSUME Prompted, PromptedOutput, Calm PROVE PromptedOutput'
<1> USE DEF PromptedOutput, Calm
<1>1. PrintedSound'
  BY DEF PrintedSound
<1>2. \A c : Silent(c) => Silent(c)'
  BY DEF Silent, Prompted
<1>3. ReportedSound'
  <2>1. \A c \in Commands : Told(c)' => Told(c)
    BY DEF Told
  <2> QED BY <1>2, <2>1, ReportedKept DEF Prompted
<1>4. RecordSound'
  <2>1. CASE ~Kept'
    BY <2>1 DEF RecordSound
  <2>2. CASE Kept'
    BY <1>2, <2>2, RecordKept DEF Prompted
  <2> QED BY <2>1, <2>2
<1>5. EndsOnce'
  BY EndsRest DEF EndsOnce
<1>6. WiresSound'
  BY WiresRest, TypesAre DEF Prompted, WiresTyped
<1>7. StreamSound'
  BY StreamRest DEF SameText, StreamSound, FencesSound
<1> QED BY <1>1, <1>3, <1>4, <1>5, <1>6, <1>7

\* Keys that run nothing.
LEMMA CalmKeys ==
    ASSUME Prompted, PromptedOutput,
           UNCHANGED <<setting, active, x, pty, frame, printed, cmd, at, prog, press, ran, ended, timedOut, reported, result>>,
           Len(keys) \in Nat,
           \A i \in 1..Len(keys') : (i \in 1..Len(keys) /\ keys'[i] = keys[i]) \/ keys'[i][1] # "run",
           step' = step \/ {step, step'} \subseteq {"idle", "syncing", "checking", "prepared"}
    PROVE  PromptedOutput'
<1>1. Pressed \in Nat /\ Pressed' \in Nat /\ Pressed <= Pressed' /\ (Kept' => Kept)
  BY NumbersAre DEF Pressed, Kept, Prompted
<1>2. \A i \in 1..Len(keys') : keys'[i][1] = "run" => keys'[i][2] \notin ended
  BY DEF PromptedOutput, EndsOnce, Runs
<1>3. Started => Started'
  BY DEF Started, Runs
<1>4. Calm
  BY <1>1, <1>2, <1>3 DEF Calm
<1> QED BY <1>4, CalmKeeps

\* A command is prepared, F9 is answered, a cancel is flagged or sent.
LEMMA QuietKeeps ==
    ASSUME Prompted, PromptedOutput,
           \/ Prepare \/ TypeCommand \/ Retype \/ Prepared \/ HandlePromptReady \/ Interrupt \/ InterruptRaises \/ Flag
    PROVE  PromptedOutput'
<1> USE DEF Prompted
<1>1. Len(keys) \in Nat
  BY KeyIs
<1>2. CASE Prepare
  <2>1. OneMore(<<"sync", 0>>)
    BY <1>2, OneSent DEF Prepare
  <2> QED BY <1>1, <1>2, <2>1, CalmKeys DEF Prepare, OneMore
<1>3. CASE TypeCommand \/ Retype
  <2>1. TwoMore(<<"text", cmd>>, <<"sync", 0>>)
    BY <1>3, TwoSent DEF TypeCommand, Retype, Type
  <2> QED BY <1>1, <1>3, <2>1, CalmKeys DEF TypeCommand, Retype, Type, TwoMore
<1>4. CASE Prepared
  BY <1>1, <1>4, CalmKeys DEF Prepared
<1>5. CASE HandlePromptReady
  BY <1>1, <1>5, CalmKeys DEF HandlePromptReady
<1>6. CASE Interrupt
  <2>1. OneMore(<<"^C", canceller>>)
    BY <1>6, OneSent DEF Interrupt, SendInterrupt
  <2> QED BY <1>1, <1>6, <2>1, CalmKeys DEF Interrupt, SendInterrupt, OneMore
<1>7. CASE InterruptRaises
  BY <1>1, <1>7, CalmKeys DEF InterruptRaises
<1>8. CASE Flag
  BY <1>1, <1>8, CalmKeys DEF Flag
<1> QED BY <1>2, <1>3, <1>4, <1>5, <1>6, <1>7, <1>8

\* F12 is pressed.
LEMMA PressRunOutput == ASSUME Prompted, PromptedOutput, PressRun PROVE PromptedOutput'
<1>1. Pressed = cmd - 1 /\ Pressed' = cmd /\ cmd \in Nat /\ Pressed \in Nat
  BY NumbersAre DEF Pressed, PressRun, Prompted
<1>2. ~Started /\ Kept
  BY DEF Started, Kept, PressRun
<1>3. \A i \in 1..Len(keys') : (i \in 1..Len(keys) /\ keys'[i] = keys[i]) \/ keys'[i] = <<"run", cmd>>
  <2>1. CASE flagged
    BY <2>1, KeyIs DEF PressRun, Prompted
  <2>2. CASE ~flagged
    <3>1. OneMore(<<"run", cmd>>)
      BY <2>2, OneSent DEF PressRun, Prompted
    <3> QED BY <3>1 DEF OneMore
  <2> QED BY <2>1, <2>2
<1>4. cmd \notin ended
  BY <1>1 DEF PromptedOutput, EndsOnce
<1>5. \A i \in 1..Len(keys') : keys'[i][1] = "run" => keys'[i][2] \notin ended
  BY <1>3, <1>4 DEF PromptedOutput, EndsOnce, Runs
<1>6. Calm
  BY <1>1, <1>2, <1>5 DEF Calm, PressRun
<1> QED BY <1>6, CalmKeeps

\* execute() installs its record.
LEMMA InstallOutput == ASSUME Prompted, PromptedOutput, Install("wait"), Prompted' PROVE PromptedOutput'
<1> USE DEF PromptedOutput
<1>1. /\ UNCHANGED <<setting, pty, frame, printed, cmd, at, prog, press, ran, ended, timedOut, reported, result, keys>>
      /\ step = "prepared" /\ step' = "installed" /\ active' = cmd /\ x' = NewExecution("wait")
  BY DEF Install
<1>2. Pressed = cmd - 1 /\ Pressed' = cmd - 1 /\ cmd \in Nat /\ cmd # 0 /\ cmd \in Commands
  BY <1>1, NumbersAre DEF Pressed, Prompted, Common, ClientSound
<1>3. at \in {"prompt", "dead"}
  BY <1>1 DEF Prompted, PowerShellInv, PromptSound, Seen
<1>4. PrintedSound'
  BY <1>1 DEF PrintedSound
<1>5. \A c : Silent(c) => Silent(c)'
  BY <1>1 DEF Silent, Prompted
<1>6. ReportedSound'
  <2>1. \A c \in Commands : Told(c)' => Told(c)
    BY <1>1 DEF Told
  <2> QED BY <1>1, <1>5, <2>1, ReportedKept DEF Prompted
<1>7. EndsOnce'
  BY <1>1, <1>2, EndsRest DEF EndsOnce, Runs
<1>8. WiresSound'
  BY <1>1, <1>2, WiresRest, TypesAre DEF Prompted, WiresTyped
<1>9. StreamSound'
  <2>1. /\ x'.id = 0 /\ x'.phase = "wait" /\ ~x'.startMark /\ ~x'.endMark /\ ~x'.endSeen
        /\ x'.out = <<>> /\ x'.prefix = <<>> /\ x'.echo /\ x'.buf = <<>>
    BY <1>1 DEF NewExecution
  <2>2. cmd \notin timedOut
    BY <1>2 DEF EndsOnce
  <2>3. FencesSound'
    BY <1>1, <1>3, <2>1, <2>2 DEF FencesSound, Ran
  <2>4. printed[cmd] = <<>>
    <3>1. ran[cmd] = 0
      BY <1>2, TypesAre DEF Prompted, Common, ResultsSound, ResultTyped
    <3> QED BY <1>2, <3>1 DEF PrintedSound
  <2>5. \A i \in 1..Len(pty) : pty[i][2] # cmd
    BY <1>2 DEF WiresSound, Wired
  <2>6. \A i \in 1..Len(frame) : frame[i][2] # cmd
    BY <1>2 DEF WiresSound, Wired
  <2>7. Fresh(x'.buf, cmd)
    BY <2>1, FewTokens
  <2>8. (x.out = <<>> /\ x.prefix = <<>> /\ x.echo /\ Fresh(x.buf, cmd))'
    BY <1>1, <2>1, <2>7
  <2>9. (Fresh(pty, cmd) /\ Fresh(frame, cmd) /\ at \notin Ran /\ ~x.endSeen /\ printed[cmd] = <<>>)'
    BY <1>1, <1>3, <2>1, <2>4, <2>5, <2>6 DEF Fresh, Ran
  <2>10. WaitSound'
    BY <2>8, <2>9 DEF WaitSound
  <2> QED BY <2>1, <2>3, <2>10 DEF StreamSound
<1>10. RecordSound'
  <2>1. active' # 0
    BY <1>1, <1>2
  <2> QED BY <1>4, <1>9, <2>1, RecordOpens
<1> QED BY <1>4, <1>6, <1>7, <1>8, <1>9, <1>10

\* What execute() returns is what the record holds.
LEMMA LeaveReports ==
    ASSUME TypeOK, ReportedSound, RecordSound, UNCHANGED <<setting, printed, timedOut>>, cmd \in Commands, step = "waiting", x.done,
           reported' = [reported EXCEPT ![cmd] = x.out], result'[cmd] = x.status,
           \A c \in Commands : c # cmd => result'[c] = result[c], \A c \in Commands : Silent(c) => Silent(c)'
    PROVE  ReportedSound'
<1>1. reported \in [Commands -> Seq(Tokens)] /\ x.out \in Seq(Tokens)
  BY TypesAre, ExecutionsAre DEF ResultTyped, RecordTyped
<1>2. PICK a \in Nat, b \in Nat : OutcomeSound(x.out, cmd, a, b, x.done /\ x.status \in Statuses)
  BY DEF RecordSound, Kept
<1>3. ASSUME NEW c \in Commands
      PROVE  \E s \in Seq(Tokens), told \in BOOLEAN, k, m \in Nat :
                /\ s = reported'[c] /\ (told <=> Told(c)') /\ OutcomeSound(s, c, k, m, told)
  <2>1. CASE c = cmd
    <3>1. PICK told \in BOOLEAN : told <=> x.done /\ x.status \in Statuses
      OBVIOUS
    <3>2. told <=> Told(c)'
      BY <2>1, <3>1 DEF Told, Statuses
    <3>3. OutcomeSound(x.out, c, a, b, told)
      BY <1>2, <2>1, <3>1 DEF OutcomeSound
    <3> QED BY <1>1, <2>1, <3>2, <3>3
  <2>2. CASE c # cmd
    <3>1. PICK k \in Nat, m \in Nat : OutcomeSound(reported[c], c, k, m, Told(c))
      BY DEF ReportedSound
    <3>2. PICK told \in BOOLEAN : told <=> Told(c)
      OBVIOUS
    <3>3. told <=> Told(c)'
      BY <2>2, <3>2 DEF Told
    <3>4. OutcomeSound(reported[c], c, k, m, told)
      BY <3>1, <3>2 DEF OutcomeSound
    <3> QED BY <1>1, <2>2, <3>3, <3>4
  <2> QED BY <2>1, <2>2
<1>4. ASSUME NEW c \in Commands PROVE \E k, m \in Nat : OutcomeSound(reported[c], c, k, m, Told(c))'
  <2>1. PICK s \in Seq(Tokens), told \in BOOLEAN, k \in Nat, m \in Nat :
                /\ s = reported'[c] /\ (told <=> Told(c)') /\ OutcomeSound(s, c, k, m, told)
    BY <1>3
  <2>2. OutcomeSound(s, c, k, m, told)'
    <3>1. printed'[c] = printed[c] /\ setting' = setting /\ timedOut \subseteq timedOut' /\ (Silent(c) => Silent(c)')
      OBVIOUS
    <3> QED BY <2>1, <3>1, OutcomeKept
  <2>3. OutcomeSound(reported[c], c, k, m, Told(c))'
    BY <2>1, <2>2 DEF OutcomeSound
  <2> QED BY <2>3
<1> QED BY <1>4 DEF ReportedSound

\* The next command begins; what was told of the others stays.
LEMMA ReturnOutput ==
    ASSUME Prompted, PromptedOutput, Refuse \/ Leave \/ Abandon
    PROVE  PromptedOutput'
<1> USE DEF PromptedOutput
<1>1. PICK how \in Ends \cup {"unprepared"} :
        /\ NextCommand(how) /\ step # "idle"
        /\ \/ how \notin {"ok", "failed"} /\ reported' = reported
           \/ step = "waiting" /\ x.done /\ how = x.status /\ reported' = [reported EXCEPT ![cmd] = x.out]
  <2>1. x.status \in Ends /\ "error" \in Ends
    BY TypesAre, ExecutionsAre DEF RecordTyped, Ends, Prompted
  <2> QED BY <2>1 DEF Refuse, Leave, Abandon
<1>2. /\ UNCHANGED <<setting, x, pty, frame, printed, at, prog, press, ran, ended, timedOut>>
      /\ active' = 0
  BY NumbersAre DEF Refuse, Leave, Abandon, Prompted, Common, ClientSound, Kept
<1>3. /\ Pressed <= Pressed' /\ Pressed \in Nat /\ Pressed' \in Nat /\ cmd \in Commands /\ ~Kept'
      /\ result'[cmd] = how /\ \A c \in Commands : c # cmd => result'[c] = result[c]
  BY <1>1, <1>2, NextCommandIs DEF Prompted, Common
<1>4. \A i \in 1..Len(keys') : (i \in 1..Len(keys) /\ keys'[i] = keys[i]) \/ keys'[i][1] # "run"
  <2>1. CASE Refuse \/ Leave
    BY <2>1 DEF Refuse, Leave
  <2>2. CASE Abandon /\ ~Alive
    BY <2>2 DEF Abandon, Send
  <2>3. CASE Abandon /\ Alive
    <3>1. OneMore(<<"clear", 0>>)
      BY <2>3, OneSent DEF Abandon, Prompted
    <3> QED BY <3>1 DEF OneMore
  <2> QED BY <2>1, <2>2, <2>3
<1>5. PrintedSound'
  BY <1>2 DEF PrintedSound
<1>6. RecordSound' /\ StreamSound'
  BY <1>2, <1>3 DEF RecordSound, StreamSound
<1>7. EndsOnce'
  <2>1. \A i \in 1..Len(keys') : keys'[i][1] = "run" => keys'[i][2] \notin ended
    BY <1>4 DEF EndsOnce, Runs
  <2> QED BY <1>2, <1>3, <2>1, EndsRest DEF EndsOnce
<1>8. WiresSound'
  BY <1>2, <1>3, WiresRest, TypesAre DEF Prompted, WiresTyped
<1>9. \A c : Silent(c) => Silent(c)'
  BY <1>2 DEF Silent, Prompted
<1>10. CASE how \notin {"ok", "failed"} /\ reported' = reported
  <2>1. \A c \in Commands : Told(c)' => Told(c)
    BY <1>3, <1>10 DEF Told
  <2>2. ReportedSound'
    BY <1>2, <1>9, <1>10, <2>1, ReportedKept DEF Prompted
  <2> QED BY <1>5, <1>6, <1>7, <1>8, <2>2
<1>11. CASE step = "waiting" /\ x.done /\ how = x.status /\ reported' = [reported EXCEPT ![cmd] = x.out]
  <2>1. ReportedSound'
    BY <1>2, <1>3, <1>9, <1>11, LeaveReports DEF Prompted
  <2> QED BY <1>5, <1>6, <1>7, <1>8, <2>1
<1> QED BY <1>1, <1>10, <1>11

\* A record is completed: what of the output it touches is its own.
LEMMA CompletedKeeps ==
    ASSUME Prompted, PromptedOutput, active' = 0, WiresSound', RecordSound',
           UNCHANGED <<setting, step, cmd, printed, at, prog, press, ran, ended, reported, result, keys>>,
           timedOut' = timedOut \/ (timedOut' = timedOut \cup {cmd} /\ cmd \in ended)
    PROVE  PromptedOutput'
<1> USE DEF PromptedOutput
<1>1. PrintedSound'
  BY DEF PrintedSound
<1>2. \A c : Silent(c) => Silent(c)'
  BY DEF Silent, Prompted
<1>3. ReportedSound'
  <2>1. \A c \in Commands : Told(c)' => Told(c)
    BY DEF Told
  <2>2. timedOut \subseteq timedOut'
    OBVIOUS
  <2> QED BY <1>2, <2>1, <2>2, ReportedKept DEF Prompted
<1>4. EndsOnce'
  <2>1. Pressed' = Pressed
    BY DEF Pressed
  <2> QED BY <2>1 DEF EndsOnce, Runs
<1>5. StreamSound'
  BY DEF StreamSound
<1> QED BY <1>1, <1>3, <1>4, <1>5

\* An execution that did not end by itself tells of no verdict.
LEMMA UntoldKeeps ==
    ASSUME Prompted, PromptedOutput, active' = 0, x'.out = x.out, x'.status \notin Statuses,
           UNCHANGED <<setting, step, cmd, printed, at, prog, press, ran, ended, timedOut, reported, result, keys, pty, frame>>
    PROVE  PromptedOutput'
<1>1. WiresSound'
  <2>1. Pressed' = Pressed
    BY DEF Pressed
  <2> QED BY <2>1 DEF PromptedOutput, WiresSound, Wired
<1>2. ASSUME Kept' PROVE \E a, b \in Nat : OutcomeSound(x.out, cmd, a, b, x.done /\ x.status \in Statuses)'
  <2>1. Kept
    BY <1>2 DEF Kept
  <2>2. PICK a \in Nat, b \in Nat : OutcomeSound(x.out, cmd, a, b, x.done /\ x.status \in Statuses)
    BY <2>1 DEF PromptedOutput, RecordSound
  <2>3. Silent(cmd) => Silent(cmd)'
    BY DEF Silent, Prompted
  <2>4. OutcomeSound(x.out, cmd, a, b, x.done /\ x.status \in Statuses)'
    BY <2>2, <2>3 DEF OutcomeSound
  <2> QED BY <2>4
<1>3. RecordSound'
  BY <1>2 DEF RecordSound
<1> QED BY <1>1, <1>3, CompletedKeeps

\* The process is gone, or the execution is given up after a Ctrl+C.
LEMMA GivenUpOutput ==
    ASSUME Prompted, PromptedOutput, WaitFindsDead \/ ReaderFails \/ CompleteCancelled
    PROVE  PromptedOutput'
<1> USE DEF Complete, Statuses
<1>0. x \in Execution
  BY TypesAre DEF Prompted, RecordTyped
<1>1. CASE WaitFindsDead
  <2>1. x'.out = x.out /\ x'.status = "error" /\ active' = 0
    BY <1>0, <1>1 DEF WaitFindsDead, Execution
  <2> QED BY <1>1, <2>1, UntoldKeeps DEF WaitFindsDead
<1>2. CASE ReaderFails /\ active # 0
  <2>1. x'.out = x.out /\ x'.status = "error" /\ active' = 0
    BY <1>0, <1>2 DEF ReaderFails, Execution
  <2> QED BY <1>2, <2>1, UntoldKeeps DEF ReaderFails
<1>3. CASE CompleteCancelled /\ active = canceller
  <2>1. x'.out = x.out /\ x'.status = "cancelled" /\ active' = 0
    BY <1>0, <1>3 DEF CompleteCancelled, Execution
  <2> QED BY <1>3, <2>1, UntoldKeeps DEF CompleteCancelled
<1>4. CASE (ReaderFails /\ active = 0) \/ (CompleteCancelled /\ active # canceller)
  <2>1. UNCHANGED <<setting, active, x, pty, frame, printed, cmd, at, prog, press, ran, ended, timedOut, reported, result, keys, step>>
    BY <1>4 DEF ReaderFails, CompleteCancelled
  <2> QED BY <2>1, CalmKeys, KeyIs DEF Prompted
<1> QED BY <1>1, <1>2, <1>3, <1>4

\* What carries nothing and has no mark is nothing, once a piece went before.
LEMMA CopiesStill ==
    ASSUME NEW p, NEW c, NEW s \in Seq(Tokens), NEW d \in Nat, d # 0, Copies(p, c, s, d, d), Plain(s)
    PROVE  s = <<>>
<1> SUFFICES ASSUME s # <<>> PROVE FALSE
  OBVIOUS
<1>1. 1 \in 1..Len(s)
  OBVIOUS
<1>2. PICK k, m \in Nat : d <= k /\ k <= m /\ m <= d /\ Moves(p, c, s[1], k, m)
  BY <1>1, CopiesAt
<1>3. k = d /\ m = d
  BY <1>2
<1>4. s[1] = <<"end", c>>
  BY <1>2, <1>3 DEF Moves
<1> QED BY <1>1, <1>4 DEF Plain

\* What was received by the time the wait ends is output of the command.
LEMMA AllReceived ==
    ASSUME Prompted, PromptedOutput, active # 0, x.endSeen, pty = <<>>, frame = <<>>
    PROVE  x.out \o x.buf \in Seq(Tokens) /\ Plain(x.out \o x.buf)
           /\ \E a, b \in Nat : Copies(printed[cmd], cmd, x.out \o x.buf, a, b)
<1> USE DEF PromptedOutput, StreamSound
<1>0. x.out \in Seq(Tokens) /\ x.buf \in Seq(Tokens) /\ x.prefix \in Seq(Tokens) /\ x.echo \in BOOLEAN
  BY TypesAre, ExecutionsAre DEF Prompted, RecordTyped
<1>1. x.phase # "wait"
  <2>1. \A m : m \notin 1..Len(pty)
    OBVIOUS
  <2> QED BY <2>1 DEF WaitSound
<1>2. Plain(x.out) /\ Plain(x.buf)
  BY <1>1 DEF FencesSound, CaptureSound, DrainSound, Captured, Drained
<1>3. PICK o, s, p : o = x.out /\ s = x.buf /\ p = printed[cmd]
  OBVIOUS
<1>4. o \in Seq(Tokens) /\ s \in Seq(Tokens) /\ Plain(o) /\ Plain(s)
  BY <1>0, <1>2, <1>3
<1>5. o \o s \in Seq(Tokens) /\ Plain(o \o s)
  BY <1>4, JoinedAre
<1>6. CASE x.phase = "capture"
  <2>1. PICK e \in Nat : Captured(x, cmd, p, e)
    BY <1>3, <1>6 DEF CaptureSound
  <2>2. PICK b \in Nat, d \in Nat : Copies(p, cmd, o, 0, b) /\ Copies(p, cmd, x.prefix, b, d) /\ Copies(p, cmd, s, d, e)
    BY <1>3, <2>1 DEF Captured
  <2>3. CASE x.echo
    <3>1. o = <<>>
      BY <1>3, <2>1, <2>3 DEF Captured, HeldBack
    <3>2. o \o s = s
      BY <1>4, <3>1
    <3> QED BY <1>3, <1>5, <2>2, <3>2
  <2>4. CASE ~x.echo
    <3>1. x.prefix = <<>>
      BY <2>1, <2>4 DEF Captured
    <3>2. d = b
      <4>1. Copies(p, cmd, <<>>, b, d)
        BY <2>2, <3>1
      <4> QED BY <4>1, CopiesNothing
    <3>3. Copies(p, cmd, o \o s, 0, e)
      BY <1>4, <2>2, <3>2, CopiesJoin
    <3> QED BY <1>3, <1>5, <3>3
  <2> QED BY <1>0, <2>3, <2>4
<1>7. CASE x.phase = "drain"
  <2>1. PICK e \in Nat, f \in Nat, h \in Nat :
          Drained(x, cmd, p, e) /\ Copies(p, cmd, pty, e, f) /\ FrameSound(f, h)
    BY <1>3, <1>7 DEF DrainSound
  <2>2. PICK a \in Nat, b \in Nat, d \in Nat :
          /\ b <= Len(p) /\ (d = b \/ (b = Len(p) /\ d = b + 1))
          /\ Copies(p, cmd, o, a, b) /\ Copies(p, cmd, s, d, e)
    BY <1>3, <2>1 DEF Drained
  <2>3. CASE d = b
    <3>1. Copies(p, cmd, o \o s, a, e)
      BY <1>4, <2>2, <2>3, CopiesJoin
    <3> QED BY <1>3, <1>5, <3>1
  <2>4. CASE b = Len(p) /\ d = b + 1
    <3>1. f = e /\ h = f
      <4>1. Copies(p, cmd, <<>>, e, f) /\ Copies(p, cmd, <<>>, f, h)
        BY <1>3, <2>1 DEF FrameSound
      <4> QED BY <4>1, CopiesNothing
    <3>2. h <= Len(p) + 1
      BY <1>3, <2>1 DEF FrameSound
    <3>3. d <= e
      BY <1>4, <2>2, CopiesOrder
    <3>4. e = d /\ d # 0
      BY <2>4, <3>1, <3>2, <3>3
    <3>5. s = <<>>
      BY <1>4, <2>2, <3>4, CopiesStill
    <3>6. o \o s = o
      BY <1>4, <3>5
    <3> QED BY <1>3, <1>5, <2>2, <3>6
  <2> QED BY <2>2, <2>3, <2>4
<1> QED BY <1>1, <1>6, <1>7 DEF FencesSound

\* Two seconds after END.
LEMMA TimesOutOutput == ASSUME Prompted, PromptedOutput, WaitTimesOut PROVE PromptedOutput'
<1>1. /\ active # 0 /\ active = cmd /\ step = "waiting" /\ x.endSeen /\ pty = <<>> /\ frame = <<>>
      /\ UNCHANGED <<setting, step, cmd, printed, at, prog, press, ran, ended, reported, result, keys, pty, frame>>
      /\ timedOut' = timedOut \cup {cmd} /\ active' = 0
  BY NumbersAre DEF WaitTimesOut, Waiting, Complete, Prompted
<1>2. cmd \in ended
  BY <1>1 DEF Prompted, PowerShellInv, EndSound, Kept
<1>3. PICK o : o = x.out \o x.buf
  OBVIOUS
<1>4. o \in Seq(Tokens) /\ Plain(o) /\ \E a, b \in Nat : Copies(printed[cmd], cmd, o, a, b)
  BY <1>1, <1>3, AllReceived
<1>5. x'.out = o
  <2>1. x \in Execution
    BY TypesAre DEF Prompted, RecordTyped
  <2>2. PICK s : s = IF x.status = "cancelled" THEN x.status ELSE x.ended
    OBVIOUS
  <2>3. x' = [[x EXCEPT !.out = o, !.buf = <<>>, !.status = s] EXCEPT !.done = TRUE]
    BY <1>3, <2>2 DEF WaitTimesOut, Complete
  <2> QED BY <2>1, <2>3 DEF Execution
<1>6. PICK a \in Nat, b \in Nat : Copies(printed[cmd], cmd, o, a, b)
  BY <1>4
<1>7. Silent(cmd)' /\ cmd' \in timedOut'
  BY <1>1, <1>2 DEF Silent, Prompted
<1>8. Copies(printed[cmd], cmd, x.out, a, b)'
  BY <1>1, <1>5, <1>6
<1>9. Plain(x.out)'
  BY <1>4, <1>5
<1>10. OutcomeSound(x.out, cmd, a, b, x.done /\ x.status \in Statuses)'
  BY <1>7, <1>8, <1>9 DEF OutcomeSound
<1>11. RecordSound'
  BY <1>10 DEF RecordSound
<1>12. WiresSound'
  <2>1. Pressed' = Pressed
    BY <1>1 DEF Pressed
  <2> QED BY <1>1, <2>1 DEF PromptedOutput, WiresSound, Wired
<1> QED BY <1>1, <1>2, <1>11, <1>12, CompletedKeeps

\* Text is captured only once its start mark is known.
LEMMA AwaitStartPhase ==
    ASSUME NEW y \in Execution
    PROVE  AwaitStart(y).phase # "wait" => y.phase # "wait" \/ y.startMark
  BY DEF AwaitStart

\* It is waited for until it is found.
LEMMA CapturePhase ==
    ASSUME NEW y \in Execution
    PROVE  Capture(y).phase # "wait" => y.phase # "wait"
  BY DEF Capture

\* All phases in one reading.
LEMMA BytesMarks ==
    ASSUME x \in Execution, NEW bytes \in Seq(Tokens), ProcessExecutionBytes(bytes)
    PROVE  SameMarks(x, x') /\ (x'.phase # "wait" => x.phase # "wait" \/ x.startMark)
<1>1. PICK b : b = x.buf \o bytes
  OBVIOUS
<1>2. b \in Seq(Tokens)
  BY <1>1, ExecutionsAre
<1>3. PICK s : s = [x EXCEPT !.buf = b]
  OBVIOUS
<1>4. s \in Execution /\ SameMarks(x, s) /\ s.phase = x.phase
  BY <1>2, <1>3 DEF SameMarks, Execution
<1>5. PICK t : t = AwaitStart(s)
  OBVIOUS
<1>6. t \in Execution /\ SameMarks(s, t) /\ (t.phase # "wait" => s.phase # "wait" \/ s.startMark)
  BY <1>4, <1>5, AwaitStartTyped, AwaitStartPhase, MarksKept
<1>7. PICK u : u = Capture(t)
  OBVIOUS
<1>8. u \in Execution /\ SameMarks(t, u) /\ (u.phase # "wait" => t.phase # "wait")
  BY <1>6, <1>7, CaptureTyped, CapturePhase, MarksKept
<1>9. PICK y : y = Drain(u)
  OBVIOUS
<1>10. y \in Execution /\ SameMarks(u, y) /\ y.phase = u.phase
  BY <1>8, <1>9, DrainTyped, DrainEnd, MarksKept
<1>11. IF y.done THEN Complete(y) ELSE x' = y /\ active' = active
  BY <1>1, <1>3, <1>5, <1>7, <1>9 DEF ProcessExecutionBytes
<1>12. x' = [y EXCEPT !.done = TRUE] \/ x' = y
  BY <1>11 DEF Complete
<1>13. SameMarks(y, x') /\ x'.phase = y.phase
  BY <1>10, <1>12 DEF SameMarks, Execution
<1> QED BY <1>4, <1>6, <1>8, <1>10, <1>13 DEF SameMarks

\* What is read leaves less on its way.
LEMMA ReceiveWires ==
    ASSUME Prompted, WiresSound, NEW n \in 1..Len(pty \o frame), Receive(n)
    PROVE  WiresSound'
<1>1. pty \in Seq(Tokens) /\ frame \in Seq(Tokens)
  BY TypesAre DEF Prompted, WiresTyped
<1>2. n \in Nat /\ Len(pty) \in Nat
  BY <1>1
<1>3. Within(pty', pty)
  BY <1>1, <1>2, RestIs DEF Receive
<1>4. Within(frame', frame) /\ (frame = <<>> => frame' = <<>>)
  <2>1. CASE n > Len(pty)
    <3>1. PICK k \in Nat : k = n - Len(pty)
      BY <1>2, <2>1
    <3>2. frame' = Rest(frame, k)
      BY <2>1, <3>1 DEF Receive
    <3>3. Within(Rest(frame, k), frame) /\ (k >= Len(frame) => Rest(frame, k) = <<>>)
      BY <1>1, RestIs
    <3>4. frame = <<>> => k >= Len(frame)
      BY <3>1
    <3> QED BY <3>2, <3>3, <3>4
  <2>2. CASE ~(n > Len(pty))
    BY <1>1, <2>2, WithinParts DEF Receive
  <2> QED BY <2>1, <2>2
<1>5. Wired(pty') /\ Wired(frame')
  BY <1>3, <1>4, WithinIs DEF WiresSound
<1>6. Pressed' = Pressed /\ at' = at
  BY DEF Pressed, Receive
<1>7. Wired(pty)' /\ Wired(frame)'
  BY <1>5, <1>6 DEF Wired
<1> QED BY <1>4, <1>6, <1>7 DEF WiresSound

\* The reader reads.
LEMMA ReceiveOutput ==
    ASSUME Prompted, PromptedOutput, NEW n \in 1..Len(pty \o frame), Receive(n), Prompted'
    PROVE  PromptedOutput'
<1>1. UNCHANGED <<setting, step, cmd, printed, at, prog, press, ran, ended, timedOut, reported, result, keys>>
  BY DEF Receive
<1>2. WiresSound'
  BY ReceiveWires DEF PromptedOutput
<1>3. CASE active = 0
  <2>1. active' = 0 /\ x' = x
    BY <1>3 DEF Receive
  <2>2. ASSUME Kept' PROVE RecordSound'
    <3>1. Kept /\ RecordSound
      BY <1>1, <2>2 DEF Kept, PromptedOutput
    <3>2. Silent(cmd) => Silent(cmd)'
      BY <1>1 DEF Silent, Prompted
    <3> QED BY <1>1, <2>1, <3>1, <3>2, RecordKept DEF Prompted
  <2>3. RecordSound'
    BY <2>2 DEF RecordSound
  <2> QED BY <1>1, <1>2, <2>1, <2>3, CompletedKeeps
<1>4. CASE active # 0
  <2>1. PICK bytes : bytes = SubSeq(pty \o frame, 1, n)
    OBVIOUS
  <2>2. bytes \in Seq(Tokens)
    BY <2>1, TypesAre DEF Prompted, WiresTyped
  <2>3. ProcessExecutionBytes(bytes)
    BY <1>4, <2>1 DEF Receive
  <2>4. x \in Execution /\ ~x.done /\ Kept
    BY <1>4, TypesAre DEF Prompted, RecordTyped, Common, ClientSound
  <2>5. /\ SameEnd(x, x') /\ (x'.phase = "drain" => x.phase = "drain" \/ x.endMark)
        /\ x'.done => x.phase = "drain" \/ x.endMark
    BY <1>4, <2>2, <2>3, <2>4, BytesEnd
  <2>6. SameMarks(x, x') /\ (x'.phase # "wait" => x.phase # "wait" \/ x.startMark)
    BY <2>2, <2>3, <2>4, BytesMarks
  <2>7. FencesSound
    BY <1>4 DEF PromptedOutput, StreamSound
  <2>8. Outcome
    <3>1. CASE x.phase = "wait"
      BY <1>4, <3>1, ReceiveWaits DEF PromptedOutput, StreamSound
    <3>2. CASE x.phase = "capture"
      BY <1>4, <3>2, ReceiveCaptures DEF PromptedOutput, StreamSound
    <3>3. CASE x.phase = "drain"
      BY <1>4, <3>3, ReceiveDrains DEF PromptedOutput, StreamSound
    <3> QED BY <2>7, <3>1, <3>2, <3>3 DEF FencesSound
  <2>9. CASE active' = active
    <3>1. FencesSound'
      BY <1>1, <1>4, <2>5, <2>6, <2>7, <2>8, <2>9 DEF FencesSound, SameEnd, SameMarks, Outcome
    <3>2. StreamSound'
      BY <1>4, <2>8, <2>9, <3>1 DEF StreamSound, Outcome
    <3>3. PrintedSound'
      BY <1>1 DEF PrintedSound, PromptedOutput
    <3>4. RecordSound'
      BY <1>4, <2>9, <3>2, <3>3, RecordOpens
    <3>5. ReportedSound'
      <4>1. \A c : Silent(c) => Silent(c)'
        BY <1>1 DEF Silent, Prompted
      <4>2. \A c \in Commands : Told(c)' => Told(c)
        BY <1>1 DEF Told
      <4> QED BY <1>1, <4>1, <4>2, ReportedKept DEF Prompted, PromptedOutput
    <3>6. EndsOnce'
      <4>1. Pressed' = Pressed
        BY <1>1 DEF Pressed
      <4> QED BY <1>1, <4>1 DEF EndsOnce, Runs, PromptedOutput
    <3> QED BY <1>2, <3>2, <3>3, <3>4, <3>5, <3>6 DEF PromptedOutput
  <2>10. CASE active' = 0 /\ active' # active
    <3>1. Finished(x')
      BY <2>8, <2>10 DEF Outcome
    <3>2. PICK a \in Nat : MayLose(printed[cmd], cmd, a) /\ Copies(printed[cmd], cmd, x'.out, a, Len(printed[cmd]))
      BY <3>1 DEF Finished
    <3>3. Plain(x'.out) /\ x'.done
      BY <3>1 DEF Finished
    <3>4. Silent(cmd)
      <4>1. cmd \in ended
        BY <2>4, <2>5, <3>3 DEF Prompted, PowerShellInv, EndSound
      <4> QED BY <4>1 DEF Silent, Prompted
    <3>5. Len(printed[cmd]) \in Nat
      <4>1. cmd \in Commands
        BY <2>4, NumbersAre DEF Prompted, Common, ClientSound, Kept
      <4> QED BY <4>1, OwnPieces DEF Prompted, PiecesOf, PromptedOutput
    <3>6. Copies(printed[cmd], cmd, x.out, a, Len(printed[cmd]))' /\ Plain(x.out)'
      BY <1>1, <3>2, <3>3
    <3>7. MayLose(printed[cmd], cmd, a)' /\ Silent(cmd)'
      <4>1. MayLose(printed[cmd], cmd, a)'
        BY <1>1, <3>2 DEF MayLose
      <4>2. Silent(cmd)'
        BY <1>1, <3>4 DEF Silent, Prompted
      <4> QED BY <4>1, <4>2
    <3>8. PICK b \in Nat : b = Len(printed[cmd])
      BY <3>5
    <3>9. OutcomeSound(x.out, cmd, a, b, x.done /\ x.status \in Statuses)'
      BY <1>1, <3>5, <3>6, <3>7, <3>8 DEF OutcomeSound
    <3>10. RecordSound'
      BY <3>9 DEF RecordSound
    <3> QED BY <1>1, <1>2, <2>10, <3>10, CompletedKeeps
  <2> QED BY <2>8, <2>9, <2>10 DEF Outcome
<1> QED BY <1>3, <1>4

\* What an open execution does not change of the others.
LEMMA MovesOn ==
    ASSUME Prompted, PromptedOutput, Prompted', PrintedSound', EndsOnce', WiresSound', StreamSound',
           UNCHANGED <<setting, active, cmd, step, reported, result, timedOut>>, ended \subseteq ended', active = 0 => x' = x,
           \A c \in Commands : printed'[c] = printed[c] \/ Grows(c)
    PROVE  PromptedOutput'
<1> USE DEF PromptedOutput
<1>1. \A c : Silent(c) => Silent(c)'
  BY DEF Silent, Prompted
<1>2. ReportedSound'
  <2>1. \A c \in Commands : Told(c)' => Told(c)
    BY DEF Told
  <2> QED BY <1>1, <2>1, ReportedKept DEF Prompted
<1>3. CASE active = 0
  <2>1. CASE ~Kept'
    <3>1. RecordSound'
      BY <2>1 DEF RecordSound
    <3> QED BY <1>2, <3>1
  <2>2. CASE Kept'
    <3>1. Kept /\ cmd \in Commands
      BY <2>2, NumbersAre DEF Kept, Prompted, Common, ClientSound
    <3>2. RecordSound'
      BY <1>1, <1>3, <3>1, RecordKept DEF Prompted
    <3> QED BY <1>2, <3>2
  <2> QED BY <2>1, <2>2
<1>4. CASE active # 0
  <2>1. active' # 0
    BY <1>4
  <2>2. RecordSound'
    BY <2>1, RecordOpens
  <2> QED BY <1>2, <2>2
<1> QED BY <1>3, <1>4

\* A step of the dialogue about a line: it writes nothing.
LEMMA WorkOutput ==
    ASSUME Prompted, PromptedOutput, Prompted', at \notin {"prompt", "dead"}, SameText,
           UNCHANGED <<active, step, prog, press, ran, timedOut, reported, result>>, active = 0 => x' = x,
           ended \subseteq ended', ended' \subseteq ended \cup {press},
           \A i \in 1..Len(keys') : \E j \in 1..Len(keys) : keys'[i] = keys[j],
           at' \in Under => at \in Under, at' = "running" => at = "running",
           at' \in Under \cup {"running"} => ended' = ended,
           active # 0 => FencesSound'
    PROVE  PromptedOutput'
<1>1. UNCHANGED <<cmd, printed, pty, frame, setting>>
  BY DEF SameText
<1>2. Pressed' = Pressed /\ Pressed \in Nat
  BY <1>1, NumbersAre DEF Pressed, Prompted
<1>3. PrintedSound'
  BY <1>1 DEF PromptedOutput, PrintedSound
<1>4. EndsOnce'
  <2>1. press \in 1..Pressed
    BY NumbersAre DEF Prompted, PowerShellInv, PressSound, Under, Ran
  <2>2. ended' \subseteq 1..Pressed' /\ timedOut' \subseteq ended'
    BY <1>2, <2>1 DEF PromptedOutput, EndsOnce
  <2>3. \A i \in 1..Len(keys') : keys'[i][1] # "run"
    BY AtWork
  <2>4. at' \in Under \cup {"running"} => press' \notin ended'
    BY DEF PromptedOutput, EndsOnce
  <2> QED BY <2>2, <2>3, <2>4 DEF EndsOnce, Runs
<1>5. WiresSound'
  BY <1>1, <1>2 DEF PromptedOutput, WiresSound, Wired
<1>6. StreamSound'
  BY StreamRest DEF PromptedOutput
<1> QED BY <1>1, <1>3, <1>4, <1>5, <1>6, MovesOn

\* BEGIN and END are told on the control pipe.
LEMMA HandleOutput ==
    ASSUME Prompted, PromptedOutput, Prompted', HandleBegin \/ HandleBeginFence \/ HandleEnd \/ HandleEndFence
    PROVE  PromptedOutput'
<1>1. /\ UNCHANGED <<setting, active, step, cmd, printed, prog, press, ran, ended, timedOut, reported, result, keys, pty, frame>>
      /\ at \in {"beginning", "fencing", "ending", "closingfence"}
  BY DEF HandleBegin, HandleBeginFence, HandleEnd, HandleEndFence
<1>2. x \in Execution
  BY TypesAre DEF Prompted, RecordTyped
<1>3. \/ x' = x /\ at' = "prompt"
      \/ active # 0 /\ at = "beginning" /\ at' = "fencing" /\ x' = [x EXCEPT !.id = press]
      \/ active # 0 /\ at = "fencing" /\ at' = "accepting" /\ x.id = press /\ x' = [x EXCEPT !.startMark = TRUE]
      \/ active # 0 /\ at = "ending" /\ at' = "closingfence" /\ x.id = press /\ \E how : x' = [x EXCEPT !.endSeen = TRUE, !.ended = how]
      \/ active # 0 /\ at = "closingfence" /\ at' = "prompting" /\ x.id = press /\ x' = [x EXCEPT !.endMark = TRUE]
  BY DEF HandleBegin, HandleBeginFence, HandleEnd, HandleEndFence, Refused
<1>4. active # 0 => press = cmd /\ step = "waiting" /\ FencesSound
  BY <1>1, AtWork DEF PromptedOutput, StreamSound
<1>5. /\ x'.phase = x.phase /\ x'.out = x.out /\ x'.prefix = x.prefix /\ x'.echo = x.echo /\ x'.buf = x.buf
      /\ (x.startMark => x'.startMark) /\ (x.endMark => x'.endMark) /\ (x'.endSeen => x.endSeen \/ at = "ending")
      /\ x'.id \in {x.id, press} /\ (at # "beginning" => x'.id = x.id)
      /\ (x'.startMark => x.startMark \/ x'.id = press) /\ (at' = "accepting" => x'.startMark /\ x'.id = press)
      /\ (at' = "prompting" => x'.endMark) /\ (at' = "fencing" => x'.id = press)
      /\ (x'.startMark /\ ~x.startMark => at = "fencing")
  BY <1>2, <1>3 DEF Execution
<1>6. /\ at' \in {"prompt", "fencing", "accepting", "closingfence", "prompting"}
      /\ (at' \in Ran => at \in Ran) /\ (at' \in Under => at \in Under)
      /\ ("ending" \in Ran) /\ (at' = "fencing" => at = "beginning") /\ (at' = "accepting" => at = "fencing")
  BY <1>1, <1>3 DEF Ran, Under
<1>7. SameText
  <2>1. Started => Started'
    BY <1>1, <1>6 DEF Started, Runs
  <2> QED BY <1>1, <1>5, <1>6, <2>1 DEF SameText
<1>8. ASSUME active # 0 PROVE FencesSound'
  <2>1. FencesSound /\ press = cmd
    BY <1>4, <1>8
  <2>2. x'.id \in {0, cmd} /\ cmd \notin timedOut
    BY <1>5, <2>1 DEF FencesSound
  <2>3. x'.phase # "wait" \/ x'.startMark => x'.id = cmd
    BY <1>5, <2>1 DEF FencesSound
  <2>4. at' \in {"fencing", "accepting"} \cup Ran => x'.id = cmd
    BY <1>5, <1>6, <2>1 DEF FencesSound, Ran
  <2>5. at' \in {"accepting"} \cup Ran => x'.startMark
    BY <1>5, <1>6, <2>1 DEF FencesSound, Ran
  <2> QED BY <1>1, <1>5, <2>1, <2>2, <2>3, <2>4, <2>5 DEF FencesSound
<1>9. active = 0 => x' = x
  BY <1>3
<1>10. at' # "running" /\ ended' = ended
  BY <1>1, <1>6
<1>11. \A i \in 1..Len(keys') : \E j \in 1..Len(keys) : keys'[i] = keys[j]
  BY <1>1, SameKeys DEF Prompted
<1>12. at \notin {"prompt", "dead"}
  BY <1>1
<1> QED BY <1>1, <1>6, <1>7, <1>8, <1>9, <1>10, <1>11, <1>12, WorkOutput

\* The line ends, by itself or by Ctrl+C.
LEMMA EndsOutput ==
    ASSUME Prompted, PromptedOutput, Prompted', Signal \/ \E how \in {"ok", "failed"} : LineEnds(how)
    PROVE  PromptedOutput'
<1>1. /\ UNCHANGED <<setting, active, x, step, cmd, printed, prog, press, ran, timedOut, reported, result, pty, frame>>
      /\ at = "running" /\ ((at' = at /\ ended' = ended) \/ (at' = "ending" /\ ended' = ended \cup {press}))
  BY DEF Signal, LineEnds
<1>2. \A i \in 1..Len(keys') : \E j \in 1..Len(keys) : keys'[i] = keys[j]
  <2>1. DOMAIN keys = 1..Len(keys)
    BY KeyIs DEF Prompted
  <2>2. CASE Signal
    <3>1. PICK i \in 1..Len(keys) : keys' = Before(keys, i) \o After(keys, i)
      BY <2>1, <2>2 DEF Signal
    <3> QED BY <3>1, SignalDrops DEF Prompted
  <2>3. CASE ~Signal
    <3>1. keys' = keys
      BY <2>3 DEF LineEnds
    <3> QED BY <3>1, SameKeys DEF Prompted
  <2> QED BY <2>2, <2>3
<1>3. SameText
  <2>1. Started => Started'
    <3>1. \A i \in 1..Len(keys') : keys'[i][1] # "run"
      BY <1>1, <1>2, AtWork
    <3> QED BY <1>1, <3>1 DEF Started, Runs, Under
  <2> QED BY <1>1, <2>1 DEF SameText, Ran
<1>4. ASSUME active # 0 PROVE FencesSound'
  BY <1>1, <1>4 DEF FencesSound, Ran, PromptedOutput, StreamSound
<1>5. /\ at \notin {"prompt", "dead"} /\ (at' \in Under => at \in Under) /\ (at' = "running" => at = "running")
      /\ (at' \in Under \cup {"running"} => ended' = ended) /\ ended \subseteq ended' /\ ended' \subseteq ended \cup {press}
      /\ (active = 0 => x' = x)
  BY <1>1 DEF Under
<1> QED BY <1>1, <1>2, <1>3, <1>4, <1>5, WorkOutput

\* A step of the shell or of its death: the record stays as it is.
ShellStep ==
    /\ UNCHANGED <<setting, active, x, cmd, step, reported, result, timedOut>>
    /\ ended' = ended /\ ran' \in [Commands -> Nat] /\ \A c \in Commands : ran[c] <= ran'[c]

\* A step of the shell keeps what was reported, when it keeps what is on its way sound.
LEMMA ShellStepKeeps ==
    ASSUME Prompted, PromptedOutput, Prompted', ShellStep, PrintedSound', WiresSound', StreamSound',
           \A i \in 1..Len(keys') : keys'[i][1] = "run" => \E j \in 1..Len(keys) : keys'[i] = keys[j],
           at' \in Under \cup {"running"} => press' \notin ended,
           \A c \in Commands : printed'[c] = printed[c] \/ Grows(c)
    PROVE  PromptedOutput'
<1>1. Pressed' = Pressed
  BY DEF Pressed, ShellStep
<1>2. EndsOnce'
  BY <1>1, EndsRest DEF PromptedOutput, EndsOnce, Runs, ShellStep
<1> QED BY <1>2, MovesOn DEF ShellStep

\* What is held back is lost with the console.
LEMMA FrameLost ==
    ASSUME NEW b \in Nat, NEW h \in Nat, FrameSound(b, h), Len(printed[cmd]) \in Nat, frame \in Seq(Tokens),
           UNCHANGED <<printed, cmd, pty, x>>, frame' = <<>>, at' \notin Ran
    PROVE  FrameSound(b, b)'
<1>1. b <= h
  BY CopiesOrder DEF FrameSound
<1>2. Copies(printed[cmd], cmd, <<>>, b, b)
  BY CopiesNothing
<1>3. Copies(printed[cmd], cmd, frame, b, b)'
  BY <1>2
<1>4. Endless(frame)'
  BY DEF Endless
<1>5. h <= Len(printed[cmd]) + 1 /\ (~x.endMark => h <= Len(printed[cmd]) /\ \A i \in 1..Len(pty) : pty[i] # <<"end", cmd>>)
      /\ \A i, j \in 1..Len(pty) : pty[i] = <<"end", cmd>> /\ pty[j] = <<"end", cmd>> => i = j
  BY DEF FrameSound
<1> QED BY <1>1, <1>3, <1>4, <1>5 DEF FrameSound

\* Of the record nothing is lost that was on its way.
LEMMA LostStream ==
    ASSUME Prompted, PromptedOutput, active # 0, UNCHANGED <<setting, active, printed, cmd, step, pty, x, timedOut>>,
           frame' = <<>>, keys' = <<>>, at' = "dead"
    PROVE  StreamSound'
<1>1. FencesSound /\ (x.phase = "wait" => WaitSound) /\ (x.phase = "capture" => CaptureSound) /\ (x.phase = "drain" => DrainSound)
  BY DEF PromptedOutput, StreamSound
<1>2. at' \notin Ran /\ at' \notin Under
  BY DEF Ran, Under
<1>3. FencesSound'
  BY <1>1, <1>2 DEF FencesSound, Ran
<1>4. Started => Started'
  BY <1>2 DEF Started, Runs
<1>5. Len(printed[cmd]) \in Nat /\ frame \in Seq(Tokens)
  <2>1. cmd \in Commands
    BY DEF Prompted, Common, ClientSound, Kept
  <2> QED BY <2>1, TypesAre DEF Prompted, ResultTyped, WiresTyped
<1>6. ASSUME WaitSound PROVE WaitSound'
  <2>1. Fresh(<<>>, cmd) /\ frame' = <<>>
    BY DEF Fresh
  <2>2. CASE Fresh(pty, cmd) /\ Fresh(frame, cmd) /\ at \notin Ran /\ ~x.endSeen /\ printed[cmd] = <<>>
    BY <1>2, <1>6, <2>1, <2>2 DEF WaitSound
  <2>3. ASSUME Started, x.startMark, NEW m \in 1..Len(pty), pty[m] = <<"start", cmd>>, \A i \in 1..m - 1 : pty[i][2] # cmd,
               NEW b \in Nat, NEW h \in Nat, Copies(printed[cmd], cmd, SubSeq(pty, m + 1, Len(pty)), 0, b), FrameSound(b, h)
        PROVE  WaitSound'
    <3>1. FrameSound(b, b)'
      BY <1>2, <1>5, <2>3, FrameLost
    <3>2. Copies(printed[cmd], cmd, SubSeq(pty, m + 1, Len(pty)), 0, b)'
      BY <2>3
    <3>3. (/\ pty[m] = <<"start", cmd>> /\ \A i \in 1..m - 1 : pty[i][2] # cmd
           /\ \E c, d \in Nat : Copies(printed[cmd], cmd, SubSeq(pty, m + 1, Len(pty)), 0, c) /\ FrameSound(c, d))'
      BY <2>3, <3>1, <3>2
    <3>4. Started' /\ x'.startMark /\ m \in 1..Len(pty')
      BY <1>4, <2>3
    <3>5. (x.out = <<>> /\ x.prefix = <<>> /\ x.echo /\ Fresh(x.buf, cmd))'
      BY <1>6 DEF WaitSound
    <3> QED BY <3>3, <3>4, <3>5 DEF WaitSound
  <2> QED BY <1>6, <2>2, <2>3 DEF WaitSound
<1>7. ASSUME CaptureSound PROVE CaptureSound'
  <2>1. PICK e \in Nat, f \in Nat, h \in Nat :
        Captured(x, cmd, printed[cmd], e) /\ Copies(printed[cmd], cmd, pty, e, f) /\ FrameSound(f, h)
    BY <1>7 DEF CaptureSound
  <2>2. PICK v, p : v = x /\ p = printed[cmd]
    OBVIOUS
  <2>3. Captured(x, cmd, printed[cmd], e)'
    BY <2>1, <2>2, CapturedNext
  <2>4. Copies(printed[cmd], cmd, pty, e, f)' /\ FrameSound(f, f)'
    BY <1>2, <1>5, <2>1, FrameLost
  <2>5. Plain(x.buf)' /\ Started'
    BY <1>4, <1>7 DEF CaptureSound
  <2> QED BY <2>3, <2>4, <2>5 DEF CaptureSound
<1>8. ASSUME DrainSound PROVE DrainSound'
  <2>1. PICK e \in Nat, f \in Nat, h \in Nat :
        Drained(x, cmd, printed[cmd], e) /\ Copies(printed[cmd], cmd, pty, e, f) /\ FrameSound(f, h)
    BY <1>8 DEF DrainSound
  <2>2. PICK v, p : v = x /\ p = printed[cmd]
    OBVIOUS
  <2>3. Drained(x, cmd, printed[cmd], e)'
    BY <2>1, <2>2, DrainedNext
  <2>4. Copies(printed[cmd], cmd, pty, e, f)' /\ FrameSound(f, f)'
    BY <1>2, <1>5, <2>1, FrameLost
  <2>5. (Started /\ at \notin Ran /\ Endless(pty) /\ ~Has(x.buf, Prompt))'
    BY <1>2, <1>4, <1>8 DEF DrainSound
  <2> QED BY <2>3, <2>4, <2>5 DEF DrainSound
<1> QED BY <1>1, <1>3, <1>6, <1>7, <1>8 DEF StreamSound

\* The session is lost, or begins again.
LEMMA LossOutput ==
    ASSUME Prompted, PromptedOutput, Prompted', SessionLost \/ Restart
    PROVE  PromptedOutput'
<1>1. /\ UNCHANGED <<setting, active, x, cmd, step, reported, result, timedOut, ended, ran, printed>>
      /\ at' \notin Ran /\ at' \notin Under /\ at' # "running"
      /\ \/ at' = "dead" /\ keys' = <<>> /\ frame' = <<>> /\ pty' = pty
         \/ at' = "prompt" /\ keys' = keys /\ frame' = frame /\ pty' = <<>> /\ (active = 0 \/ step = "installed")
  BY DEF SessionLost, Restart, Lose, Ran, Under
<1>2. ShellStep
  BY <1>1, NumbersToo DEF ShellStep, Prompted
<1>3. PrintedSound'
  BY <1>1, PrintedRest DEF PromptedOutput
<1>4. Pressed' = Pressed
  BY <1>1 DEF Pressed
<1>5. WiresSound'
  <2>1. Wired(<<>>) /\ Wired(<<>>)'
    BY DEF Wired
  <2>2. (Wired(pty) /\ Wired(frame))'
    BY <1>1, <1>4, <2>1 DEF PromptedOutput, WiresSound, Wired
  <2> QED BY <1>1, <2>2 DEF WiresSound
<1>6. StreamSound'
  <2>1. CASE active = 0
    BY <1>1, <2>1 DEF StreamSound
  <2>2. CASE active # 0 /\ at' = "dead"
    BY <1>1, <2>2, LostStream
  <2>3. CASE active # 0 /\ at' = "prompt"
    <3>1. step = "installed" /\ pty' = <<>> /\ frame' = frame /\ keys' = keys
      BY <1>1, <2>3
    <3>2. ~Started /\ FencesSound /\ x.phase \in {"wait", "capture", "drain"}
      BY <2>3, <3>1 DEF Started, FencesSound, PromptedOutput, StreamSound
    <3>3. WaitSound /\ x.phase = "wait" /\ x.phase # "capture" /\ x.phase # "drain"
      BY <2>3, <3>2 DEF PromptedOutput, StreamSound, CaptureSound, DrainSound
    <3>4. FencesSound'
      BY <1>1, <2>3, <3>2 DEF FencesSound, Ran
    <3>5. Fresh(pty, cmd)'
      BY <3>1 DEF Fresh
    <3>6. (/\ x.out = <<>> /\ x.prefix = <<>> /\ x.echo /\ Fresh(x.buf, cmd)
           /\ Fresh(frame, cmd) /\ at \notin Ran /\ ~x.endSeen /\ printed[cmd] = <<>>)'
      BY <1>1, <3>1, <3>2, <3>3 DEF WaitSound
    <3>7. WaitSound'
      BY <3>5, <3>6 DEF WaitSound
    <3> QED BY <1>1, <3>3, <3>4, <3>7 DEF StreamSound
  <2> QED BY <1>1, <2>1, <2>2, <2>3
<1>7. \A i \in 1..Len(keys') : keys'[i][1] = "run" => \E j \in 1..Len(keys) : keys'[i] = keys[j]
  BY <1>1
<1> QED BY <1>1, <1>2, <1>3, <1>5, <1>6, <1>7, ShellStepKeeps

\* What stands behind a place goes on with what is added.
LEMMA BehindGrows ==
    ASSUME NEW s \in Seq(Tokens), NEW r \in Seq(Tokens), NEW m \in 1..Len(s)
    PROVE  SubSeq(s \o r, m + 1, Len(s \o r)) = SubSeq(s, m + 1, Len(s)) \o r
<1>1. PICK q : q = s \o r
  OBVIOUS
<1>2. PICK t : t = SubSeq(s, m + 1, Len(s))
  OBVIOUS
<1>3. /\ q \in Seq(Tokens) /\ Len(q) = Len(s) + Len(r) /\ Len(s) \in Nat /\ Len(r) \in Nat
      /\ (\A i \in 1..Len(s) : q[i] = s[i])
      /\ \A i \in 1..Len(s) + Len(r) : i > Len(s) => i - Len(s) \in 1..Len(r) /\ q[i] = r[i - Len(s)]
  BY <1>1, JoinIs
<1>4. t \in Seq(Tokens) /\ Len(t) = Len(s) - m /\ \A i \in 1..Len(s) - m : t[i] = s[m + i]
  BY <1>2, CutIs
<1>5. PICK u : u = SubSeq(q, m + 1, Len(q))
  OBVIOUS
<1>6. m \in 0..Len(q)
  BY <1>3
<1>7. u \in Seq(Tokens) /\ Len(u) = Len(q) - m /\ \A i \in 1..Len(q) - m : u[i] = q[m + i]
  BY <1>3, <1>5, <1>6, CutIs
<1>8. PICK w : w = t \o r
  OBVIOUS
<1>9. /\ w \in Seq(Tokens) /\ Len(w) = Len(t) + Len(r)
      /\ (\A i \in 1..Len(t) : w[i] = t[i])
      /\ \A i \in 1..Len(t) + Len(r) : i > Len(t) => i - Len(t) \in 1..Len(r) /\ w[i] = r[i - Len(t)]
  BY <1>4, <1>8, JoinIs
<1>10. Len(u) = Len(w)
  BY <1>3, <1>4, <1>7, <1>9
<1>11. ASSUME NEW i \in 1..Len(u) PROVE u[i] = w[i]
  <2>0. i \in 1..Len(q) - m
    BY <1>7
  <2>1. u[i] = q[m + i] /\ i \in Nat /\ Len(t) \in Nat
    BY <1>4, <1>7, <2>0
  <2>2. CASE i <= Len(t)
    <3>1. m + i \in 1..Len(s) /\ i \in 1..Len(t) /\ i \in 1..Len(s) - m
      BY <1>3, <1>4, <2>1, <2>2
    <3> QED BY <1>3, <1>4, <1>9, <2>1, <3>1
  <2>3. CASE i > Len(t)
    <3>1. /\ m + i \in 1..Len(s) + Len(r) /\ m + i > Len(s) /\ i \in 1..Len(t) + Len(r)
          /\ (m + i) - Len(s) = i - Len(t)
      BY <1>3, <1>4, <1>7, <2>1, <2>3
    <3> QED BY <1>3, <1>9, <2>1, <2>3, <3>1
  <2> QED BY <2>1, <2>2, <2>3
<1>12. u = w
  BY <1>7, <1>9, <1>10, <1>11, SeqEqual
<1> QED BY <1>1, <1>2, <1>5, <1>8, <1>12

\* What c has written is the same, or more and then nothing beyond h was told of.
Extends(p, q, h) ==
    p = q \/ (/\ Len(p) \in Nat /\ Len(q) \in Nat /\ Len(p) <= Len(q) /\ h <= Len(p)
              /\ \A i \in 1..Len(p) : q[i] = p[i])

\* What was told of the output is told of it still when a command writes more.
LEMMA CopiesExtend ==
    ASSUME NEW p, NEW q, NEW h \in Nat, Extends(p, q, h), NEW c, NEW s \in Seq(Tokens), NEW a, NEW b, Copies(p, c, s, a, b), b <= h
    PROVE  Copies(q, c, s, a, b)
<1>1. CASE p = q
  BY <1>1
<1>2. CASE p # q
  <2>1. Len(p) \in Nat /\ Len(q) \in Nat /\ Len(p) <= Len(q) /\ h <= Len(p) /\ \A i \in 1..Len(p) : q[i] = p[i]
    BY <1>2 DEF Extends
  <2>2. b <= Len(p)
    BY <2>1, CopiesOrder
  <2> QED BY <2>1, <2>2, CopiesStay
<1> QED BY <1>1, <1>2

\* And so is what the record has captured.
LEMMA CapturedExtend ==
    ASSUME NEW p, NEW q, NEW h \in Nat, Extends(p, q, h), NEW y \in Execution, NEW c, NEW e \in Nat, e <= h, Captured(y, c, p, e)
    PROVE  Captured(y, c, q, e)
<1>1. PICK b \in Nat, d \in Nat :
        d <= Len(p) /\ Copies(p, c, y.out, 0, b) /\ Copies(p, c, y.prefix, b, d) /\ Copies(p, c, y.buf, d, e)
  BY DEF Captured
<1>2. y.out \in Seq(Tokens) /\ y.prefix \in Seq(Tokens) /\ y.buf \in Seq(Tokens)
  BY DEF Execution
<1>3. b <= d /\ d <= e
  BY <1>1, <1>2, CopiesOrder
<1>4. b <= h /\ d <= h
  BY <1>3
<1>5. Copies(q, c, y.out, 0, b) /\ Copies(q, c, y.prefix, b, d) /\ Copies(q, c, y.buf, d, e)
  BY <1>1, <1>2, <1>4, CopiesExtend
<1>6. d <= Len(q)
  BY <1>1 DEF Extends
<1> QED BY <1>1, <1>5, <1>6 DEF Captured

\* r is added to the wire, and what is held back follows.
Flows(r, b) == \E d, k \in Nat : Copies(printed'[cmd'], cmd', r, b, d) /\ FrameSound(d, k)'
\* Nothing of the command was written yet.
Untouched == Fresh(pty, cmd) /\ Fresh(frame, cmd) /\ at \notin Ran /\ ~x.endSeen /\ printed[cmd] = <<>>
\* Text comes to the wire.
Streams(r) ==
    /\ active # 0 /\ pty' = pty \o r /\ UNCHANGED <<setting, active, cmd, x>> /\ (Started => Started')
    /\ (Untouched => Untouched') /\ (\A b, h \in Nat : FrameSound(b, h) => Flows(r, b))
    /\ \A b, h \in Nat : FrameSound(b, h) => Extends(printed[cmd], printed'[cmd], h)
    /\ DrainSound => printed'[cmd] = printed[cmd] /\ at' \notin Ran /\ Endless(r)

\* A record that waits for its start stays sound when the stream gets more.
LEMMA WaitGrows ==
    ASSUME TypeOK, WaitSound, NEW r \in Seq(Tokens), Streams(r)
    PROVE  WaitSound'
<1>1. (x.out = <<>> /\ x.prefix = <<>> /\ x.echo /\ Fresh(x.buf, cmd))'
  BY DEF WaitSound, Streams
<1>2. CASE Untouched
  <2>1. Untouched'
    BY <1>2 DEF Streams
  <2> QED BY <1>1, <2>1 DEF WaitSound, Untouched
<1>3. ASSUME Started, x.startMark, NEW m \in 1..Len(pty), pty[m] = <<"start", cmd>>, \A i \in 1..m - 1 : pty[i][2] # cmd,
             NEW b \in Nat, NEW h \in Nat, Copies(printed[cmd], cmd, SubSeq(pty, m + 1, Len(pty)), 0, b), FrameSound(b, h)
      PROVE  WaitSound'
  <2>1. PICK p, q, c, w, w2 : p = printed[cmd] /\ q = printed'[cmd] /\ c = cmd /\ w = pty /\ w2 = pty'
    OBVIOUS
  <2>2. w \in Seq(Tokens) /\ frame \in Seq(Tokens) /\ Len(w) \in Nat
    BY <2>1, TypesAre DEF WiresTyped
  <2>3. w2 = w \o r /\ cmd' = c /\ q = printed'[cmd'] /\ x' = x /\ Started' /\ Extends(p, q, h) /\ Flows(r, b)
    BY <1>3, <2>1 DEF Streams
  <2>4. PICK d \in Nat, k \in Nat : Copies(q, c, r, b, d) /\ FrameSound(d, k)'
    BY <2>3 DEF Flows
  <2>5. b <= h
    BY <1>3, <2>2, CopiesOrder DEF FrameSound
  <2>6. SubSeq(w, m + 1, Len(w)) \in Seq(Tokens) /\ Copies(p, c, SubSeq(w, m + 1, Len(w)), 0, b) /\ m \in 0..Len(w) /\ m \in 1..Len(w)
    <3>1. m \in 0..Len(w) /\ m \in 1..Len(w)
      BY <2>1, <2>2
    <3> QED BY <1>3, <2>1, <2>2, <3>1, CutIs
  <2>7. Copies(q, c, SubSeq(w, m + 1, Len(w)), 0, b)
    <3>1. PICK s : s = SubSeq(w, m + 1, Len(w))
      OBVIOUS
    <3>2. s \in Seq(Tokens) /\ Copies(p, c, s, 0, b)
      BY <2>6, <3>1
    <3>3. Copies(q, c, s, 0, b)
      BY <2>3, <2>5, <3>2, CopiesExtend
    <3> QED BY <3>1, <3>3
  <2>8. Copies(q, c, SubSeq(w, m + 1, Len(w)) \o r, 0, d)
    BY <2>4, <2>6, <2>7, CopiesJoin
  <2>9. Copies(q, c, SubSeq(w2, m + 1, Len(w2)), 0, d)
    BY <2>2, <2>3, <2>6, <2>8, BehindGrows
  <2>10. m \in 1..Len(w2) /\ \A i \in 1..m : w2[i] = w[i]
    BY <2>2, <2>3, <2>6, JoinIs
  <2>11. (/\ pty[m] = <<"start", cmd>> /\ \A i \in 1..m - 1 : pty[i][2] # cmd
          /\ \E b1, h1 \in Nat : Copies(printed[cmd], cmd, SubSeq(pty, m + 1, Len(pty)), 0, b1) /\ FrameSound(b1, h1))'
    BY <1>3, <2>1, <2>3, <2>4, <2>9, <2>10
  <2>12. Started' /\ x'.startMark /\ m \in 1..Len(pty')
    BY <1>3, <2>1, <2>3, <2>10
  <2> QED BY <1>1, <2>11, <2>12 DEF WaitSound
<1> QED BY <1>2, <1>3 DEF WaitSound, Untouched

\* So does one that captures.
LEMMA CaptureGrows ==
    ASSUME TypeOK, CaptureSound, NEW r \in Seq(Tokens), Streams(r)
    PROVE  CaptureSound'
<1>1. PICK e \in Nat, f \in Nat, h \in Nat :
        Captured(x, cmd, printed[cmd], e) /\ Copies(printed[cmd], cmd, pty, e, f) /\ FrameSound(f, h)
  BY DEF CaptureSound
<1>2. PICK p, q, c, w, v : p = printed[cmd] /\ q = printed'[cmd] /\ c = cmd /\ w = pty /\ v = x
  OBVIOUS
<1>3. w \in Seq(Tokens) /\ frame \in Seq(Tokens) /\ v \in Execution
  BY <1>2, TypesAre DEF WiresTyped, RecordTyped
<1>4. pty' = w \o r /\ cmd' = c /\ q = printed'[cmd'] /\ x' = v /\ Extends(p, q, h) /\ Flows(r, f) /\ (Started => Started')
  BY <1>1, <1>2 DEF Streams
<1>5. PICK d \in Nat, k \in Nat : Copies(q, c, r, f, d) /\ FrameSound(d, k)'
  BY <1>4 DEF Flows
<1>6. e <= f /\ f <= h
  BY <1>1, <1>2, <1>3, CopiesOrder DEF FrameSound
<1>7. e <= h
  BY <1>6
<1>8. Captured(v, c, p, e) /\ Copies(p, c, w, e, f)
  BY <1>1, <1>2
<1>9. Captured(v, c, q, e) /\ Copies(q, c, w, e, f)
  BY <1>3, <1>4, <1>6, <1>7, <1>8, CapturedExtend, CopiesExtend
<1>10. Copies(q, c, w \o r, e, d)
  BY <1>3, <1>5, <1>9, CopiesJoin
<1>11. Captured(x, cmd, printed[cmd], e)'
  BY <1>2, <1>4, <1>9, CapturedNext
<1>12. Copies(printed[cmd], cmd, pty, e, d)'
  BY <1>4, <1>10
<1>13. Plain(x.buf)' /\ Started'
  BY <1>2, <1>4 DEF CaptureSound
<1> QED BY <1>5, <1>11, <1>12, <1>13 DEF CaptureSound

\* And one that drains, for then nothing of the command is added.
LEMMA DrainGrows ==
    ASSUME TypeOK, DrainSound, NEW r \in Seq(Tokens), Streams(r)
    PROVE  DrainSound'
<1>1. PICK e \in Nat, f \in Nat, h \in Nat :
        Drained(x, cmd, printed[cmd], e) /\ Copies(printed[cmd], cmd, pty, e, f) /\ FrameSound(f, h)
  BY DEF DrainSound
<1>2. PICK p, c, w, v : p = printed[cmd] /\ c = cmd /\ w = pty /\ v = x
  OBVIOUS
<1>3. w \in Seq(Tokens) /\ v \in Execution /\ Endless(w)
  BY <1>2, TypesAre DEF WiresTyped, RecordTyped, DrainSound
<1>4. /\ pty' = w \o r /\ cmd' = c /\ p = printed'[cmd'] /\ x' = v /\ setting' = setting /\ Flows(r, f) /\ (Started => Started')
      /\ at' \notin Ran /\ Endless(r)
  BY <1>1, <1>2 DEF Streams
<1>5. PICK d \in Nat, k \in Nat : Copies(p, c, r, f, d) /\ FrameSound(d, k)'
  BY <1>4 DEF Flows
<1>6. Drained(v, c, p, e) /\ Copies(p, c, w, e, f)
  BY <1>1, <1>2
<1>7. Copies(p, c, w \o r, e, d) /\ Endless(w \o r)
  BY <1>3, <1>4, <1>5, <1>6, CopiesJoin, JoinedAre
<1>8. Drained(x, cmd, printed[cmd], e)'
  BY <1>2, <1>4, <1>6, DrainedNext
<1>9. Copies(printed[cmd], cmd, pty, e, d)' /\ Endless(pty)'
  BY <1>4, <1>7
<1>10. (Started /\ at \notin Ran /\ ~Has(x.buf, Prompt))'
  BY <1>2, <1>4 DEF DrainSound
<1> QED BY <1>5, <1>8, <1>9, <1>10 DEF DrainSound

\* Text that comes keeps the stream sound.
LEMMA StreamGrows ==
    ASSUME TypeOK, StreamSound, NEW r \in Seq(Tokens), Streams(r), FencesSound'
    PROVE  StreamSound'
<1>1. active # 0 /\ x' = x /\ active' = active
  BY DEF Streams
<1> QED BY <1>1, WaitGrows, CaptureGrows, DrainGrows DEF StreamSound

\* What the record and the wires are made of.
LEMMA StreamIs ==
    ASSUME Prompted, PromptedOutput, active # 0
    PROVE  /\ FencesSound /\ cmd \in Commands /\ printed[cmd] \in Seq(Tokens) /\ Len(printed[cmd]) \in Nat
           /\ pty \in Seq(Tokens) /\ frame \in Seq(Tokens) /\ x \in Execution /\ <<"end", cmd>> \in Tokens /\ Prompt \in Tokens
<1>1. cmd \in Commands
  BY DEF Prompted, Common, ClientSound, Kept
<1>2. printed[cmd] \in Seq(Tokens) /\ pty \in Seq(Tokens) /\ frame \in Seq(Tokens) /\ x \in Execution
  BY <1>1, TypesAre DEF Prompted, ResultTyped, WiresTyped, RecordTyped
<1>3. <<"end", cmd>> \in Tokens /\ Prompt \in Tokens
  BY <1>1, CommandsAre DEF Tokens, Marks, Prompt
<1> QED BY <1>1, <1>2, <1>3 DEF PromptedOutput, StreamSound

\* Two tokens.
LEMMA TwoTokens == ASSUME NEW t \in Tokens, NEW u \in Tokens PROVE <<t>> \o <<u>> = <<t, u>>
<1>1. PICK s, r : s = <<t>> \o <<u>> /\ r = <<t, u>>
  OBVIOUS
<1>2. <<t>> \in Seq(Tokens) /\ <<u>> \in Seq(Tokens) /\ Len(<<t>>) = 1 /\ Len(<<u>>) = 1 /\ <<t>>[1] = t /\ <<u>>[1] = u
  OBVIOUS
<1>3. s \in Seq(Tokens) /\ Len(s) = 2 /\ s[1] = t /\ s[2] = u
  <2>1. 1 \in 1..1 /\ 1 + 1 = 2
    OBVIOUS
  <2> QED BY <1>1, <1>2, <2>1, JoinIs
<1>4. r \in Seq(Tokens) /\ Len(r) = 2 /\ r[1] = t /\ r[2] = u
  BY <1>1
<1>5. \A i \in 1..2 : i = 1 \/ i = 2
  OBVIOUS
<1>6. s = r
  BY <1>3, <1>4, <1>5, SeqEqual
<1> QED BY <1>1, <1>6

\* The prompt and the end mark, in whatever order.
LEMMA DrawFlows ==
    ASSUME Prompted, PromptedOutput, active # 0, DrawPrompt, press = cmd, NEW r \in Seq(Tokens),
           \/ r = <<<<"end", cmd>>>> /\ frame' = Append(frame, Prompt)
           \/ r = frame \o <<Prompt, <<"end", cmd>>>> /\ frame' = <<>>,
           pty' = pty \o r, NEW b \in Nat, NEW h \in Nat, FrameSound(b, h)
    PROVE  Flows(r, b)
<1>1. PICK p, c, w, f : p = printed[cmd] /\ c = cmd /\ w = pty /\ f = frame
  OBVIOUS
<1>2. PICK n : n = Len(p)
  OBVIOUS
<1>3. PICK t : t = <<"end", c>>
  OBVIOUS
<1>4. /\ w \in Seq(Tokens) /\ f \in Seq(Tokens) /\ n \in Nat /\ t \in Tokens /\ Prompt \in Tokens /\ x.endMark
      /\ x' = x /\ printed'[cmd'] = p /\ cmd' = c /\ pty' = w \o r /\ at' = "prompt"
  BY <1>1, <1>2, <1>3, StreamIs DEF DrawPrompt, FencesSound
<1>5. at \in Ran /\ at' \notin Ran
  BY DEF DrawPrompt, Ran
<1>6. /\ Copies(p, c, f, b, h) /\ Endless(f) /\ h = n /\ Never(w, t) /\ b <= n
  <2>1. Copies(p, c, f, b, h) /\ Endless(f) /\ h = n /\ Never(w, t)
    BY <1>1, <1>2, <1>3, <1>5 DEF FrameSound, Never
  <2> QED BY <1>4, <2>1, CopiesOrder
<1>7. Moves(p, c, t, b, b) /\ Moves(p, c, t, n + 1, n + 1) /\ Moves(p, c, Prompt, n, n + 1)
  BY <1>2, <1>3 DEF Moves, Prompt
<1>8. ASSUME NEW k \in Nat, Copies(p, c, frame', k, n + 1), Endless(frame'), Once(pty', t) PROVE FrameSound(k, n + 1)'
  <2>1. Copies(printed[cmd], cmd, frame, k, n + 1)' /\ Endless(frame)'
    BY <1>1, <1>4, <1>8
  <2>2. n + 1 <= Len(printed'[cmd']) + 1 /\ x'.endMark /\ at' \notin Ran
    BY <1>2, <1>4, <1>5
  <2>3. \A i, j \in 1..Len(pty') : pty'[i] = <<"end", cmd'>> /\ pty'[j] = <<"end", cmd'>> => i = j
    BY <1>3, <1>4, <1>8 DEF Once
  <2> QED BY <2>1, <2>2, <2>3 DEF FrameSound
<1>9. Once(<<t>>, t) /\ Never(<<Prompt>>, t) /\ Prompt # t
  BY <1>3 DEF Once, Never, Prompt
<1>10. CASE r = <<t>> /\ frame' = Append(f, Prompt)
  <2>1. Copies(p, c, r, b, b)
    BY <1>4, <1>7, <1>10, CopiesOne
  <2>2. Copies(p, c, frame', b, n + 1)
    <3>1. n + 1 \in Nat /\ n <= n + 1 /\ Copies(p, c, f, b, n)
      BY <1>4, <1>6
    <3>2. Copies(p, c, Append(f, Prompt), b, n + 1)
      BY <1>4, <1>7, <3>1, CopiesMore
    <3> QED BY <1>10, <3>2
  <2>3. Endless(frame')
    <3>1. <<Prompt>> \in Seq(Tokens) /\ Endless(<<Prompt>>)
      BY <1>4, FewTokens DEF Prompt
    <3>2. Endless(f \o <<Prompt>>)
      BY <1>4, <1>6, <3>1, JoinedAre
    <3>3. Append(f, Prompt) = f \o <<Prompt>>
      BY <1>4
    <3> QED BY <1>10, <3>2, <3>3
  <2>4. Once(pty', t)
    <3>1. <<t>> \in Seq(Tokens)
      BY <1>4
    <3> QED BY <1>4, <1>6, <1>9, <1>10, <3>1, OnceBehind
  <2>5. FrameSound(b, n + 1)'
    BY <1>8, <2>2, <2>3, <2>4
  <2>6. n + 1 \in Nat
    BY <1>4
  <2> QED BY <1>4, <2>1, <2>5, <2>6 DEF Flows
<1>11. CASE r = f \o <<Prompt, t>> /\ frame' = <<>>
  <2>1. PICK g : g = f \o <<Prompt>>
    OBVIOUS
  <2>2. g \in Seq(Tokens) /\ Copies(p, c, g, b, n + 1)
    BY <1>4, <1>6, <1>7, <2>1, CopiesMore
  <2>3. r = g \o <<t>>
    <3>1. <<Prompt>> \o <<t>> = <<Prompt, t>>
      BY <1>4, TwoTokens
    <3>2. r = f \o (<<Prompt>> \o <<t>>)
      BY <1>11, <3>1
    <3>3. <<Prompt>> \in Seq(Tokens) /\ <<t>> \in Seq(Tokens)
      BY <1>4
    <3> QED BY <1>4, <2>1, <3>2, <3>3, ConcatAssociative
  <2>4. n + 1 \in Nat
    BY <1>4
  <2>5. Copies(p, c, r, b, n + 1)
    BY <1>4, <1>7, <2>2, <2>3, <2>4, CopiesMore
  <2>6. Never(g, t)
    <3>1. Endless(g)
      <4>1. <<Prompt>> \in Seq(Tokens) /\ Endless(<<Prompt>>)
        BY <1>4, FewTokens DEF Prompt
      <4> QED BY <1>4, <1>6, <2>1, <4>1, JoinedAre
    <3> QED BY <1>3, <3>1 DEF Endless, Never
  <2>7. Once(r, t)
    <3>1. <<t>> \in Seq(Tokens)
      BY <1>4
    <3> QED BY <1>9, <2>2, <2>3, <2>6, <3>1, OnceBehind
  <2>8. Once(pty', t)
    BY <1>4, <1>6, <2>7, OnceBehind
  <2>9. Copies(p, c, frame', n + 1, n + 1) /\ Endless(frame')
    BY <1>11, <2>4, CopiesNothing, FewTokens
  <2>10. FrameSound(n + 1, n + 1)'
    BY <1>8, <2>4, <2>8, <2>9
  <2> QED BY <1>4, <2>4, <2>5, <2>10 DEF Flows
<1> QED BY <1>1, <1>3, <1>10, <1>11

\* What is added to the wires, of whatever commands.
LEMMA MoreWired ==
    ASSUME NEW s \in Seq(Tokens), NEW r \in Seq(Tokens), Wired(s), Wired(r), Pressed' = Pressed
    PROVE  Wired(s \o r)'
<1>1. Wired(s \o r)
  BY JoinedAre
<1> QED BY <1>1 DEF Wired

\* The prompt function draws.
LEMMA DrawWires ==
    ASSUME Prompted, WiresSound, DrawPrompt
    PROVE  /\ WiresSound'
           /\ \E r \in Seq(Tokens) : /\ pty' = pty \o r
                 /\ \/ r = <<<<"end", press>>>> /\ frame' = Append(frame, Prompt)
                    \/ r = frame \o <<Prompt, <<"end", press>>>> /\ frame' = <<>>
<1>1. PICK w, f, t : w = pty /\ f = frame /\ t = <<"end", press>>
  OBVIOUS
<1>2. press \in Commands /\ press <= Pressed /\ Pressed' = Pressed /\ 0 <= Pressed
  BY NumbersAre, CommandsAre DEF DrawPrompt, Prompted, PowerShellInv, PressSound, Ran, Pressed
<1>3. w \in Seq(Tokens) /\ f \in Seq(Tokens) /\ t \in Tokens /\ Prompt \in Tokens
  <2>1. w \in Seq(Tokens) /\ f \in Seq(Tokens)
    BY <1>1, TypesAre DEF Prompted, WiresTyped
  <2>2. t \in Tokens /\ Prompt \in Tokens
    BY <1>1, <1>2, CommandsAre DEF Tokens, Marks, Prompt
  <2> QED BY <2>1, <2>2
<1>4. Wired(w) /\ Wired(f) /\ at' = "prompt"
  BY <1>1 DEF WiresSound, DrawPrompt
<1>5. Wired(<<t>>) /\ Wired(<<Prompt>>)
  BY <1>1, <1>2, FewTokens DEF Prompt, Statuses
<1>6. at' \notin Under
  BY <1>4 DEF Under
<1>7. <<t>> \in Seq(Tokens) /\ <<Prompt>> \in Seq(Tokens)
  BY <1>3
<1>8. CASE pty' = Append(w, t) /\ frame' = Append(f, Prompt)
  <2>1. pty' = w \o <<t>> /\ frame' = f \o <<Prompt>>
    BY <1>3, <1>8, AppendIsConcat
  <2>2. (Wired(pty) /\ Wired(frame))'
    BY <1>2, <1>3, <1>4, <1>5, <1>7, <2>1, MoreWired
  <2> QED BY <1>1, <1>6, <1>7, <1>8, <2>1, <2>2 DEF WiresSound
<1>9. CASE pty' = (w \o f) \o <<Prompt, t>> /\ frame' = <<>>
  <2>1. PICK g : g = <<Prompt, t>>
    OBVIOUS
  <2>2. g = <<Prompt>> \o <<t>> /\ g \in Seq(Tokens)
    BY <1>3, <2>1, TwoTokens
  <2>3. Wired(g)
    BY <1>5, <1>7, <2>2, JoinedAre
  <2>4. PICK r : r = f \o g
    OBVIOUS
  <2>5. r \in Seq(Tokens) /\ Wired(r)
    <3>1. f \o g \in Seq(Tokens)
      BY <1>3, <2>2
    <3>2. Wired(f \o g)
      BY <1>3, <1>4, <2>2, <2>3, JoinedAre
    <3> QED BY <2>4, <3>1, <3>2
  <2>6. pty' = w \o r
    BY <1>3, <1>9, <2>1, <2>2, <2>4, ConcatAssociative
  <2>7. Wired(pty)'
    BY <1>2, <1>3, <1>4, <2>5, <2>6, MoreWired
  <2>8. Wired(frame)'
    BY <1>9 DEF Wired
  <2> QED BY <1>1, <1>6, <1>9, <2>1, <2>4, <2>5, <2>6, <2>7, <2>8 DEF WiresSound
<1> QED BY <1>1, <1>8, <1>9 DEF DrawPrompt

\* The prompt is painted.
LEMMA DrawOutput ==
    ASSUME Prompted, PromptedOutput, Prompted', DrawPrompt
    PROVE  PromptedOutput'
<1>1. /\ UNCHANGED <<setting, active, x, cmd, step, reported, result, timedOut, ended, ran, printed, keys, press>>
      /\ at = "prompting" /\ at' = "prompt" /\ at' \notin Ran /\ at' \notin Under /\ at' # "running" /\ at \in Ran
  BY DEF DrawPrompt, Ran, Under
<1>2. ShellStep
  BY <1>1, NumbersToo DEF ShellStep, Prompted
<1>3. PrintedSound'
  BY <1>1, PrintedRest DEF PromptedOutput
<1>4. PICK r \in Seq(Tokens) : /\ pty' = pty \o r
                 /\ \/ r = <<<<"end", press>>>> /\ frame' = Append(frame, Prompt)
                    \/ r = frame \o <<Prompt, <<"end", press>>>> /\ frame' = <<>>
  BY DrawWires DEF PromptedOutput
<1>5. WiresSound'
  BY DrawWires DEF PromptedOutput
<1>6. StreamSound'
  <2>1. CASE active = 0
    BY <1>1, <2>1 DEF StreamSound
  <2>2. CASE active # 0
    <3>1. press = cmd
      BY <1>1, <2>2, AtWork
    <3>2. \A b, h \in Nat : FrameSound(b, h) => Flows(r, b)
      BY <1>4, <2>2, <3>1, DrawFlows
    <3>3. Started => Started'
      BY <1>1 DEF Started, Runs
    <3>4. ~Untouched /\ ~DrainSound
      BY <1>1 DEF Untouched, DrainSound
    <3>5. \A h : Extends(printed[cmd], printed'[cmd], h)
      BY <1>1 DEF Extends
    <3>6. Streams(r)
      BY <1>1, <1>4, <2>2, <3>2, <3>3, <3>4, <3>5 DEF Streams
    <3>7. FencesSound'
      BY <1>1, <2>2, StreamIs DEF FencesSound, Ran
    <3> QED BY <3>6, <3>7, StreamGrows DEF PromptedOutput, Prompted
  <2> QED BY <2>1, <2>2
<1>7. \A i \in 1..Len(keys') : keys'[i][1] = "run" => \E j \in 1..Len(keys) : keys'[i] = keys[j]
  BY <1>1
<1> QED BY <1>1, <1>2, <1>3, <1>5, <1>6, <1>7, ShellStepKeeps

\* The next piece a command writes.
LEMMA PieceIs ==
    ASSUME TypeOK, NEW c \in Commands, Writes(c)
    PROVE  /\ Piece(c) \in Tokens /\ Piece(c)[1] \in Pieces /\ Piece(c)[2] = c
           /\ printed[c] \in Seq(Tokens) /\ Len(printed[c]) \in Nat
<1>1. setting \in Settings /\ printed[c] \in Seq(Tokens) /\ Len(printed[c]) \in Nat
  BY TypesAre DEF TypeOK, ResultTyped
<1>2. setting.output \in Seq(Pieces)
  BY <1>1, BoundsAssumption DEF BoundsAssumption
<1>3. Len(printed[c]) + 1 \in 1..Len(setting.output)
  BY <1>1, <1>2 DEF Writes
<1>4. setting.output[Len(printed[c]) + 1] \in Pieces
  BY <1>2, <1>3
<1>5. Piece(c) = <<setting.output[Len(printed[c]) + 1], c>>
  BY DEF Piece
<1>6. c \in 0..LastCommand
  BY CommandsAre
<1> QED BY <1>1, <1>4, <1>5, <1>6 DEF Tokens, Texts

\* And what it has written then.
LEMMA WrittenIs ==
    ASSUME TypeOK, NEW c \in Commands, Writes(c), printed' = [printed EXCEPT ![c] = Append(@, Piece(c))]
    PROVE  \E p \in Seq(Tokens), q \in Seq(Tokens) :
              /\ p = printed[c] /\ q = printed'[c] /\ q = Append(p, Piece(c)) /\ Len(p) \in Nat /\ Len(q) = Len(p) + 1
              /\ (\A i \in 1..Len(p) : q[i] = p[i]) /\ q[Len(p) + 1] = Piece(c)
              /\ \A d \in Commands \ {c} : printed'[d] = printed[d]
              /\ \A i \in 1..Len(q) : i \in 1..Len(p) \/ i = Len(p) + 1
<1>1. PICK p, t : p = printed[c] /\ t = Piece(c)
  OBVIOUS
<1>2. p \in Seq(Tokens) /\ t \in Tokens /\ Len(p) \in Nat
  BY <1>1, PieceIs
<1>3. printed \in [Commands -> Seq(Tokens)]
  BY TypesAre DEF ResultTyped
<1>4. printed'[c] = Append(p, t) /\ \A d \in Commands \ {c} : printed'[d] = printed[d]
  BY <1>1, <1>3
<1>5. PICK q : q = Append(p, t)
  OBVIOUS
<1>6. q \in Seq(Tokens) /\ Len(q) = Len(p) + 1 /\ (\A i \in 1..Len(p) : q[i] = p[i]) /\ q[Len(p) + 1] = t
  BY <1>2, <1>5
<1>7. \A i \in 1..Len(q) : i \in 1..Len(p) \/ i = Len(p) + 1
  BY <1>2, <1>6
<1> QED BY <1>1, <1>2, <1>4, <1>5, <1>6, <1>7

\* The pieces stay those of their commands.
LEMMA WrittenSound ==
    ASSUME TypeOK, PrintedSound, NEW c \in Commands, Writes(c), printed' = [printed EXCEPT ![c] = Append(@, Piece(c))],
           ran[c] > 0, UNCHANGED <<ran, at, prog, press>>
    PROVE  PrintedSound'
<1>1. PICK p \in Seq(Tokens), q \in Seq(Tokens) :
              /\ p = printed[c] /\ q = printed'[c] /\ q = Append(p, Piece(c)) /\ Len(p) \in Nat /\ Len(q) = Len(p) + 1
              /\ (\A i \in 1..Len(p) : q[i] = p[i]) /\ q[Len(p) + 1] = Piece(c)
              /\ \A d \in Commands \ {c} : printed'[d] = printed[d]
              /\ \A i \in 1..Len(q) : i \in 1..Len(p) \/ i = Len(p) + 1
  BY WrittenIs
<1>2. Piece(c)[1] \in Pieces /\ Piece(c)[2] = c
  BY PieceIs
<1>3. \A i \in 1..Len(q) : q[i][1] \in Pieces /\ q[i][2] = c
  <2>1. \A i \in 1..Len(p) : p[i][1] \in Pieces /\ p[i][2] = c
    BY <1>1 DEF PrintedSound
  <2> QED BY <1>1, <1>2, <2>1
<1>4. \A d \in Commands : \A i \in 1..Len(printed'[d]) : printed'[d][i][1] \in Pieces /\ printed'[d][i][2] = d
  BY <1>1, <1>3 DEF PrintedSound
<1>5. \A d \in Commands : ran'[d] = 0 => printed'[d] = <<>>
  <2>1. \A d \in Commands : ran'[d] = 0 => d # c
    OBVIOUS
  <2> QED BY <1>1, <2>1 DEF PrintedSound
<1> QED BY <1>4, <1>5 DEF PrintedSound

\* A piece is painted.
LEMMA WriteFlows ==
    ASSUME Prompted, PromptedOutput, active # 0, at = "running", Writes(cmd), UNCHANGED <<at, x, cmd, pty>>,
           printed' = [printed EXCEPT ![cmd] = Append(@, Piece(cmd))], frame' = Append(frame, Piece(cmd)),
           NEW b \in Nat, NEW h \in Nat, FrameSound(b, h)
    PROVE  Flows(<<>>, b) /\ Extends(printed[cmd], printed'[cmd], h)
<1>1. PICK c, f, t : c = cmd /\ f = frame /\ t = Piece(cmd)
  OBVIOUS
<1>2. c \in Commands /\ f \in Seq(Tokens) /\ at \in Ran /\ c = cmd /\ c = cmd'
  BY <1>1, StreamIs DEF Ran
<1>3. PICK p \in Seq(Tokens), q \in Seq(Tokens) :
              /\ p = printed[c] /\ q = printed'[c] /\ Len(p) \in Nat /\ Len(q) = Len(p) + 1
              /\ (\A i \in 1..Len(p) : q[i] = p[i]) /\ q[Len(p) + 1] = t
  <2>1. Writes(c) /\ printed' = [printed EXCEPT ![c] = Append(@, Piece(c))] /\ t = Piece(c) /\ TypeOK
    BY <1>1 DEF Prompted
  <2> QED BY <1>2, <2>1, WrittenIs
<1>4. t \in Tokens /\ t[1] \in Pieces /\ t[2] = c /\ t[1] # "end"
  <2>1. t \in Tokens /\ t[1] \in Pieces /\ t[2] = c
    BY <1>1, <1>2, PieceIs DEF Prompted
  <2> QED BY <2>1 DEF Pieces
<1>5. Copies(p, c, f, b, h) /\ Endless(f) /\ h = Len(p) /\ Never(pty, <<"end", c>>)
  BY <1>1, <1>2, <1>3 DEF FrameSound, Never
<1>6. Extends(p, q, h)
  BY <1>3, <1>5 DEF Extends
<1>7. Copies(q, c, f, b, h)
  BY <1>2, <1>5, <1>6, CopiesExtend
<1>8. Moves(q, c, t, h, h + 1)
  BY <1>3, <1>4, <1>5 DEF Moves
<1>9. h + 1 \in Nat /\ h <= h + 1
  OBVIOUS
<1>10. Copies(q, c, Append(f, t), b, h + 1)
  BY <1>2, <1>4, <1>7, <1>8, <1>9, CopiesMore
<1>11. Endless(Append(f, t))
  <2>1. <<t>> \in Seq(Tokens) /\ Endless(<<t>>)
    BY <1>4, FewTokens
  <2>2. Endless(f \o <<t>>)
    BY <1>2, <1>5, <2>1, JoinedAre
  <2> QED BY <1>2, <1>4, <2>2, AppendIsConcat
<1>12. FrameSound(b, h + 1)'
  <2>1. Copies(printed[cmd], cmd, frame, b, h + 1)' /\ Endless(frame)'
    BY <1>1, <1>2, <1>3, <1>10, <1>11
  <2>2. h + 1 <= Len(printed'[cmd']) + 1 /\ h + 1 = Len(printed'[cmd'])
    BY <1>2, <1>3, <1>5
  <2>3. h + 1 <= Len(printed'[cmd'])
    BY <2>2
  <2>4. \A i \in 1..Len(pty') : pty'[i] # <<"end", cmd'>>
    BY <1>2, <1>5 DEF Never
  <2> QED BY <2>1, <2>2, <2>3, <2>4 DEF FrameSound
<1>13. Copies(q, c, <<>>, b, b)
  BY CopiesNothing
<1> QED BY <1>2, <1>3, <1>6, <1>9, <1>12, <1>13 DEF Flows

\* The program writes its next piece.
LEMMA WriteOutput ==
    ASSUME Prompted, PromptedOutput, Prompted', WritePiece
    PROVE  PromptedOutput'
<1>1. /\ UNCHANGED <<setting, active, x, cmd, step, reported, result, timedOut, ended, ran, keys, press, prog, at, pty>>
      /\ at = "running" /\ prog # 0 /\ Writes(prog) /\ at \in Ran /\ at \notin Under
      /\ printed' = [printed EXCEPT ![prog] = Append(@, Piece(prog))] /\ frame' = Append(frame, Piece(prog))
  BY DEF WritePiece, Ran, Under
<1>2. ShellStep
  BY <1>1, NumbersToo DEF ShellStep, Prompted
<1>3. PICK c : c = prog
  OBVIOUS
<1>4. c = press /\ ran[c] > 0 /\ c \notin ended
  BY <1>1, <1>3 DEF PromptedOutput, PrintedSound, EndsOnce
<1>5. c \in Commands
  BY <1>1, <1>4, AtWork
<1>6. PrintedSound'
  BY <1>1, <1>3, <1>4, <1>5, WrittenSound DEF PromptedOutput, Prompted
<1>7. PICK p \in Seq(Tokens), q \in Seq(Tokens) :
              /\ p = printed[c] /\ q = printed'[c] /\ Len(p) \in Nat /\ Len(q) = Len(p) + 1
              /\ (\A i \in 1..Len(p) : q[i] = p[i])
              /\ \A d \in Commands \ {c} : printed'[d] = printed[d]
  BY <1>1, <1>3, <1>5, WrittenIs DEF Prompted
<1>8. \A d \in Commands : printed'[d] = printed[d] \/ Grows(d)
  <2>1. ~Silent(c)
    BY <1>4 DEF Silent, Prompted
  <2>2. Grows(c)
    BY <1>7, <2>1 DEF Grows
  <2> QED BY <1>7, <2>2
<1>9. WiresSound'
  <2>1. Piece(c) \in Tokens /\ Piece(c)[1] \in Pieces /\ Piece(c)[2] = c
    BY <1>1, <1>3, <1>5, PieceIs DEF Prompted
  <2>2. c <= Pressed /\ Pressed' = Pressed
    BY <1>1, <1>4, NumbersAre DEF Prompted, PowerShellInv, PressSound, Pressed
  <2>3. PICK t, f : t = Piece(c) /\ f = frame
    OBVIOUS
  <2>4. f \in Seq(Tokens) /\ <<t>> \in Seq(Tokens) /\ t \in Tokens
    BY <2>1, <2>3, TypesAre DEF Prompted, WiresTyped
  <2>5. Wired(<<t>>)
    BY <2>1, <2>2, <2>3, FewTokens DEF Pieces, Statuses
  <2>6. Wired(f)
    BY <2>3 DEF PromptedOutput, WiresSound
  <2>7. frame' = f \o <<t>>
    BY <1>1, <1>3, <2>3, <2>4, AppendIsConcat
  <2>8. Wired(frame)'
    BY <2>2, <2>4, <2>5, <2>6, <2>7, MoreWired
  <2>9. Wired(pty)'
    BY <1>1, <2>2 DEF PromptedOutput, WiresSound, Wired
  <2> QED BY <1>1, <2>8, <2>9 DEF WiresSound
<1>10. StreamSound'
  <2>1. CASE active = 0
    BY <1>1, <2>1 DEF StreamSound
  <2>2. CASE active # 0
    <3>1. c = cmd
      BY <1>1, <1>4, <2>2, AtWork
    <3>2. PICK r : r = <<>>
      OBVIOUS
    <3>3. r \in Seq(Tokens) /\ pty' = pty \o r
      <4>1. pty \in Seq(Tokens)
        BY <2>2, StreamIs
      <4> QED BY <1>1, <3>2, <4>1
    <3>4. \A b, h \in Nat : FrameSound(b, h) => Flows(r, b) /\ Extends(printed[cmd], printed'[cmd], h)
      BY <1>1, <1>3, <2>2, <3>1, <3>2, WriteFlows
    <3>5. Started => Started'
      BY <1>1 DEF Started, Runs
    <3>6. ~Untouched /\ ~DrainSound
      BY <1>1 DEF Untouched, DrainSound
    <3>7. Streams(r)
      BY <1>1, <2>2, <3>3, <3>4, <3>5, <3>6 DEF Streams
    <3>8. FencesSound'
      BY <1>1, <2>2, StreamIs DEF FencesSound, Ran
    <3> QED BY <3>3, <3>7, <3>8, StreamGrows DEF PromptedOutput, Prompted
  <2> QED BY <2>1, <2>2
<1>11. \A i \in 1..Len(keys') : keys'[i][1] = "run" => \E j \in 1..Len(keys) : keys'[i] = keys[j]
  BY <1>1
<1>12. at' \in Under \cup {"running"} => press' \notin ended
  BY <1>1, <1>3, <1>4
<1> QED BY <1>2, <1>6, <1>8, <1>9, <1>10, <1>11, <1>12, ShellStepKeeps

\* The console has painted all of it when the editor reads a key.
LEMMA PaintFlows ==
    ASSUME Prompted, PromptedOutput, active # 0, NEW r \in Seq(Tokens), r = frame, pty' = pty \o r, frame' = <<>>,
           at' \notin Ran, UNCHANGED <<cmd, printed, x>>, NEW b \in Nat, NEW h \in Nat, FrameSound(b, h)
    PROVE  Flows(r, b)
<1>1. PICK p, c, w, t : p = printed[cmd] /\ c = cmd /\ w = pty /\ t = <<"end", c>>
  OBVIOUS
<1>2. /\ w \in Seq(Tokens) /\ p = printed'[cmd'] /\ c = cmd' /\ pty' = w \o r
  BY <1>1, StreamIs
<1>3. Copies(p, c, r, b, h) /\ Endless(r) /\ h <= Len(p) + 1 /\ Once(w, t) /\ (~x.endMark => h <= Len(p) /\ Never(w, t))
  BY <1>1 DEF FrameSound, Once, Never
<1>4. Never(r, t)
  BY <1>1, <1>3 DEF Endless, Never
<1>5. Once(w \o r, t) /\ (Never(w, t) => Never(w \o r, t))
  <2>1. Once(w \o r, t)
    BY <1>2, <1>3, <1>4, OnceParts
  <2>2. (\A i \in 1..Len(w) : w[i] # t) /\ (\A i \in 1..Len(r) : r[i] # t) => \A i \in 1..Len(w \o r) : (w \o r)[i] # t
    BY <1>2, JoinedAre
  <2> QED BY <1>4, <2>1, <2>2 DEF Never
<1>6. Copies(p, c, <<>>, h, h) /\ Endless(<<>>)
  BY CopiesNothing, FewTokens
<1>7. FrameSound(h, h)'
  <2>1. Copies(printed[cmd], cmd, frame, h, h)' /\ Endless(frame)'
    BY <1>2, <1>6
  <2>2. h <= Len(printed'[cmd']) + 1 /\ (~x'.endMark => h <= Len(printed'[cmd']))
    BY <1>2, <1>3
  <2>3. ~x'.endMark => \A i \in 1..Len(pty') : pty'[i] # <<"end", cmd'>>
    BY <1>1, <1>2, <1>3, <1>5 DEF Never
  <2>4. \A i, j \in 1..Len(pty') : pty'[i] = <<"end", cmd'>> /\ pty'[j] = <<"end", cmd'>> => i = j
    BY <1>1, <1>2, <1>5 DEF Once
  <2> QED BY <2>1, <2>2, <2>3, <2>4 DEF FrameSound
<1> QED BY <1>2, <1>3, <1>7 DEF Flows

\* A key is read by the editor, which paints what it was late with.
LEMMA ReadKeyOutput ==
    ASSUME Prompted, PromptedOutput, Prompted', ReadKey
    PROVE  PromptedOutput'
<1>1. /\ UNCHANGED <<setting, active, x, cmd, step, reported, result, timedOut, ended, ran, printed>>
      /\ at = "prompt" /\ at' \in {"prompt", "beginning"} /\ keys # <<>> /\ keys' = Tail(keys) /\ pty' = pty \o frame /\ frame' = <<>>
      /\ at' = "beginning" => Head(keys)[1] = "run" /\ press' = Head(keys)[2]
  BY DEF ReadKey
<1>2. at' \notin Ran /\ at' # "running" /\ at \notin Ran /\ at \notin Under /\ (at' \in Under => at' = "beginning")
  BY <1>1 DEF Ran, Under
<1>3. ShellStep
  BY <1>1, NumbersToo DEF ShellStep, Prompted
<1>4. PrintedSound'
  BY <1>1, <1>2, PrintedRest DEF PromptedOutput
<1>5. /\ 1 \in 1..Len(keys) /\ Head(keys) = keys[1] /\ \A i \in 1..Len(keys') : \E j \in 1..Len(keys) : keys'[i] = keys[j]
  BY <1>1, TailDrops DEF Drops, Prompted
<1>6. \A i \in 1..Len(keys') : keys'[i][1] = "run" => \E j \in 1..Len(keys) : keys'[i] = keys[j]
  BY <1>5
<1>7. at' \in Under \cup {"running"} => press' \notin ended
  BY <1>1, <1>2, <1>5 DEF PromptedOutput, EndsOnce, Runs
<1>8. PICK r, w : r = frame /\ w = pty
  OBVIOUS
<1>9. r \in Seq(Tokens) /\ w \in Seq(Tokens) /\ pty' = w \o r
  BY <1>1, <1>8, TypesAre DEF Prompted, WiresTyped
<1>10. WiresSound'
  <2>1. Pressed' = Pressed
    BY <1>1 DEF Pressed
  <2>2. Wired(w) /\ Wired(r)
    BY <1>8 DEF PromptedOutput, WiresSound
  <2>3. Wired(pty)'
    BY <1>9, <2>1, <2>2, MoreWired
  <2>4. Wired(frame)'
    BY <1>1 DEF Wired
  <2> QED BY <1>1, <2>3, <2>4 DEF WiresSound
<1>11. StreamSound'
  <2>1. CASE active = 0
    BY <1>1, <2>1 DEF StreamSound
  <2>2. CASE active # 0
    <3>1. \A b, h \in Nat : FrameSound(b, h) => Flows(r, b)
      BY <1>1, <1>2, <1>8, <1>9, <2>2, PaintFlows
    <3>2. Started => Started'
      <4>1. ASSUME Started PROVE Started'
        <5>1. step = "waiting" /\ \A i \in 1..Len(keys) : keys[i][1] # "run"
          BY <4>1 DEF Started, Runs
        <5>2. at' # "beginning"
          BY <1>1, <1>5, <5>1
        <5>3. \A i \in 1..Len(keys') : keys'[i][1] # "run"
          BY <1>5, <5>1
        <5> QED BY <1>1, <1>2, <5>1, <5>2, <5>3 DEF Started, Runs
      <4> QED BY <4>1
    <3>3. Untouched => Untouched'
      <4>1. ASSUME Untouched PROVE Untouched'
        <5>1. Fresh(w \o r, cmd)
          <6>1. Fresh(w, cmd) /\ Fresh(r, cmd)
            BY <1>8, <4>1 DEF Untouched
          <6> QED BY <1>9, <6>1, JoinedAre
        <5>2. Fresh(pty, cmd)' /\ Fresh(frame, cmd)'
          BY <1>1, <1>9, <5>1 DEF Fresh
        <5> QED BY <1>1, <1>2, <4>1, <5>2 DEF Untouched
      <4> QED BY <4>1
    <3>4. DrainSound => Endless(r)
      <4>1. \A b, h : FrameSound(b, h) => Endless(frame)
        BY DEF FrameSound
      <4> QED BY <1>8, <4>1 DEF DrainSound
    <3>5. \A h : Extends(printed[cmd], printed'[cmd], h)
      BY <1>1 DEF Extends
    <3>6. Streams(r)
      BY <1>1, <1>2, <1>8, <1>9, <2>2, <3>1, <3>2, <3>3, <3>4, <3>5 DEF Streams
    <3>7. FencesSound'
      <4>1. at' \notin {"fencing", "accepting"} \cup Ran /\ at' # "prompting" /\ at' \notin {"accepting"} \cup Ran
        BY <1>1, <1>2
      <4> QED BY <1>1, <2>2, <4>1, StreamIs DEF FencesSound
    <3> QED BY <1>9, <3>6, <3>7, StreamGrows DEF PromptedOutput, Prompted
  <2> QED BY <2>1, <2>2
<1> QED BY <1>1, <1>3, <1>4, <1>6, <1>7, <1>10, <1>11, ShellStepKeeps

\* The start mark stands behind all the wire carries, and before all the
\* command will write.
LEMMA AcceptWaits ==
    ASSUME Prompted, PromptedOutput, active # 0, NEW drawn \in Seq(Tokens), drawn \in {<<>>, <<<<"echo", cmd>>>>},
           at = "accepting", at' = "running", pty' = Append(pty, <<"start", cmd>>), frame' = drawn,
           UNCHANGED <<cmd, printed, x, step, keys, active, timedOut>>
    PROVE  StreamSound'
<1>1. FencesSound /\ at \in Under /\ at \notin Ran /\ at' \in Ran /\ at' \notin Under
  BY StreamIs DEF Ran, Under
<1>2. ~Started
  BY <1>1 DEF Started
<1>3. WaitSound /\ x.phase = "wait" /\ x.startMark /\ x.id = cmd
  BY <1>1, <1>2 DEF PromptedOutput, StreamSound, CaptureSound, DrainSound, FencesSound
<1>4. Fresh(pty, cmd) /\ printed[cmd] = <<>>
  BY <1>2, <1>3 DEF WaitSound
<1>5. PICK c, w, t : c = cmd /\ w = pty /\ t = <<"start", cmd>>
  OBVIOUS
<1>6. w \in Seq(Tokens) /\ t \in Tokens /\ c \in Commands /\ t = <<"start", c>>
  BY <1>5, StreamIs, CommandsAre DEF Tokens, Marks
<1>7. PICK q, m : q = Append(w, t) /\ m = Len(w) + 1
  OBVIOUS
<1>8. q \in Seq(Tokens) /\ Len(q) = m /\ m \in Nat /\ q[m] = t /\ (\A i \in 1..m - 1 : i \in 1..Len(w) /\ q[i] = w[i]) /\ m \in 1..Len(q)
  BY <1>6, <1>7
<1>9. \A i \in 1..m - 1 : q[i][2] # c
  BY <1>4, <1>5, <1>8 DEF Fresh
<1>10. Never(q, <<"end", c>>)
  <2>1. \A i \in 1..m : i = m \/ i \in 1..m - 1
    BY <1>8
  <2>2. t # <<"end", c>>
    BY <1>6
  <2>3. <<"end", c>>[2] = c
    OBVIOUS
  <2>4. ASSUME NEW i \in 1..Len(q) PROVE q[i] # <<"end", c>>
    <3>1. i \in 1..m
      BY <1>8
    <3>2. CASE i = m
      BY <1>8, <2>2, <3>2
    <3>3. CASE i \in 1..m - 1
      BY <1>9, <2>3, <3>3
    <3> QED BY <2>1, <3>1, <3>2, <3>3
  <2> QED BY <2>4 DEF Never
<1>11. SubSeq(q, m + 1, Len(q)) = <<>>
  BY <1>8
<1>12. Copies(<<>>, c, drawn, 0, 0) /\ Copies(<<>>, c, <<>>, 0, 0) /\ Endless(drawn)
  <2>1. Moves(<<>>, c, <<"echo", c>>, 0, 0)
    BY DEF Moves
  <2>2. Copies(<<>>, c, <<<<"echo", c>>>>, 0, 0)
    BY <2>1, CopiesOne
  <2>3. Copies(<<>>, c, <<>>, 0, 0)
    BY CopiesNothing
  <2>4. Endless(<<>>) /\ Endless(<<<<"echo", c>>>>)
    BY FewTokens
  <2> QED BY <1>5, <2>2, <2>3, <2>4
<1>13. FrameSound(0, 0)'
  <2>1. Copies(printed[cmd], cmd, frame, 0, 0)' /\ Endless(frame)'
    BY <1>4, <1>5, <1>12
  <2>2. Len(printed'[cmd']) = 0
    BY <1>4
  <2>3. \A i \in 1..Len(pty') : pty'[i] # <<"end", cmd'>>
    BY <1>5, <1>7, <1>10 DEF Never
  <2>4. 0 <= Len(printed'[cmd']) + 1 /\ 0 = Len(printed'[cmd']) /\ 0 <= Len(printed'[cmd'])
    BY <2>2
  <2>5. \A i, j \in 1..Len(pty') : pty'[i] = <<"end", cmd'>> /\ pty'[j] = <<"end", cmd'>> => i = j
    BY <2>3
  <2> QED BY <2>1, <2>3, <2>4, <2>5 DEF FrameSound
<1>14. Started'
  <2>1. step = "waiting" /\ \A i \in 1..Len(keys) : keys[i][1] # "run"
    BY AtWork
  <2> QED BY <1>1, <2>1 DEF Started, Runs
<1>15. WaitSound'
  <2>1. (x.out = <<>> /\ x.prefix = <<>> /\ x.echo /\ Fresh(x.buf, cmd))'
    BY <1>3 DEF WaitSound
  <2>2. Copies(printed[cmd], cmd, SubSeq(pty, m + 1, Len(pty)), 0, 0)'
    BY <1>4, <1>5, <1>7, <1>11, <1>12
  <2>3. (/\ pty[m] = <<"start", cmd>> /\ \A i \in 1..m - 1 : pty[i][2] # cmd
         /\ \E b, h \in Nat : Copies(printed[cmd], cmd, SubSeq(pty, m + 1, Len(pty)), 0, b) /\ FrameSound(b, h))'
    BY <1>5, <1>7, <1>8, <1>9, <1>13, <2>2
  <2>4. m \in 1..Len(pty') /\ x'.startMark
    BY <1>3, <1>5, <1>7, <1>8
  <2> QED BY <1>14, <2>1, <2>3, <2>4 DEF WaitSound
<1>16. FencesSound'
  <2>1. at' # "prompting" /\ cmd' = cmd /\ x' = x
    OBVIOUS
  <2>2. (cmd \notin timedOut)'
    BY <1>1 DEF FencesSound
  <2> QED BY <1>1, <1>3, <2>1, <2>2 DEF FencesSound
<1> QED BY <1>3, <1>15, <1>16 DEF StreamSound

\* The line is accepted.
LEMMA AcceptOutput ==
    ASSUME Prompted, PromptedOutput, Prompted', NEW drawn, drawn \in {<<>>, <<<<"echo", line>>>>}, AcceptLine(drawn)
    PROVE  PromptedOutput'
<1>1. /\ UNCHANGED <<setting, active, x, cmd, step, reported, result, timedOut, ended, printed, keys, press>>
      /\ at = "accepting" /\ at' = "running" /\ at \in Under /\ at' \notin Under /\ prog' = line
      /\ ran' = IF line = 0 THEN ran ELSE [ran EXCEPT ![line] = @ + 1]
      /\ pty' = Append(pty, <<"start", press>>) /\ frame' = frame \o drawn /\ (drawn # <<>> => line # 0)
  BY DEF AcceptLine, Run, Under
<1>2. press \in Commands /\ press <= Pressed /\ Pressed' = Pressed /\ line \in {0, press}
  <2>1. press \in 1..Pressed /\ line \in {0, press}
    BY <1>1 DEF Prompted, PowerShellInv, PressSound
  <2>2. press <= Pressed
    BY <2>1, NumbersAre DEF Pressed, Prompted
  <2>3. press \in Commands
    BY <1>1, AtWork
  <2> QED BY <1>1, <2>1, <2>2, <2>3 DEF Pressed
<1>3. ran \in [Commands -> Nat] /\ line \in 0..LastCommand
  BY NumbersToo, NumbersAre DEF Prompted
<1>4. ran' \in [Commands -> Nat] /\ (\A c \in Commands : ran[c] <= ran'[c]) /\ (prog' # 0 => ran'[prog'] > 0 /\ prog' = press)
  <2>1. CASE line = 0
    BY <1>1, <1>3, <2>1
  <2>2. CASE line # 0
    <3>1. line = press /\ line \in Commands /\ ran' = [ran EXCEPT ![line] = @ + 1]
      BY <1>1, <1>2, <2>2
    <3>2. ran' \in [Commands -> Nat] /\ \A c \in Commands : ran'[c] = ran[c] \/ (c = line /\ ran'[c] = ran[c] + 1)
      BY <1>3, <3>1
    <3>3. ran'[line] = ran[line] + 1
      BY <1>3, <3>1
    <3> QED BY <1>1, <1>3, <3>1, <3>2, <3>3
  <2> QED BY <2>1, <2>2
<1>5. ShellStep
  BY <1>1, <1>4 DEF ShellStep
<1>6. PrintedSound'
  <2>1. \A c \in Commands : ran'[c] = 0 => ran[c] = 0
    BY <1>3, <1>4
  <2> QED BY <1>1, <1>4, <2>1 DEF PromptedOutput, PrintedSound
<1>7. frame = <<>> /\ Wired(pty)
  BY <1>1 DEF PromptedOutput, WiresSound
<1>8. frame' = drawn /\ drawn \in Seq(Tokens)
  <2>1. CASE drawn = <<>>
    BY <1>1, <1>7, <2>1
  <2>2. CASE drawn # <<>>
    <3>1. <<"echo", line>> \in Tokens
      BY <1>3 DEF Tokens, Texts
    <3>2. drawn = <<<<"echo", line>>>> /\ frame' = <<>> \o drawn
      BY <1>1, <1>7, <2>2
    <3>3. PICK t : t = <<"echo", line>>
      OBVIOUS
    <3>4. t \in Tokens /\ drawn = <<t>>
      BY <3>1, <3>2, <3>3
    <3>5. drawn \in Seq(Tokens)
      BY <3>4
    <3> QED BY <3>2, <3>5
  <2> QED BY <2>1, <2>2
<1>9. PICK w, t : w = pty /\ t = <<"start", press>>
  OBVIOUS
<1>10. w \in Seq(Tokens) /\ t \in Tokens /\ <<t>> \in Seq(Tokens) /\ pty' = w \o <<t>>
  <2>1. w \in Seq(Tokens)
    BY <1>9, TypesAre DEF Prompted, WiresTyped
  <2>2. t \in Tokens
    BY <1>2, <1>9, CommandsAre DEF Tokens, Marks
  <2>3. <<t>> \in Seq(Tokens) /\ Append(w, t) = w \o <<t>>
    BY <2>1, <2>2, AppendIsConcat
  <2> QED BY <1>1, <1>9, <2>1, <2>2, <2>3
<1>11. WiresSound'
  <2>1. Wired(<<t>>)
    BY <1>2, <1>9, FewTokens DEF Statuses
  <2>2. Wired(pty)'
    BY <1>2, <1>7, <1>9, <1>10, <2>1, MoreWired
  <2>3. Wired(<<>>)
    BY FewTokens
  <2>4. drawn # <<>> => drawn = <<<<"echo", press>>>>
    BY <1>1, <1>2
  <2>5. Wired(<<<<"echo", press>>>>)
    BY <1>2, FewTokens DEF Statuses
  <2>6. Wired(drawn)
    BY <2>3, <2>4, <2>5
  <2>7. Wired(frame)'
    BY <1>2, <1>8, <2>6 DEF Wired
  <2> QED BY <1>1, <2>2, <2>7 DEF WiresSound
<1>12. StreamSound'
  <2>1. CASE active = 0
    BY <1>1, <2>1 DEF StreamSound
  <2>2. CASE active # 0
    <3>1. press = cmd
      BY <1>1, <2>2, AtWork
    <3>2. drawn \in {<<>>, <<<<"echo", cmd>>>>} /\ pty' = Append(pty, <<"start", cmd>>)
      BY <1>1, <1>2, <3>1
    <3> QED BY <1>1, <1>8, <2>2, <3>2, AcceptWaits
  <2> QED BY <2>1, <2>2
<1>13. \A i \in 1..Len(keys') : keys'[i][1] = "run" => \E j \in 1..Len(keys) : keys'[i] = keys[j]
  BY <1>1
<1>14. at' \in Under \cup {"running"} => press' \notin ended
  BY <1>1 DEF PromptedOutput, EndsOnce
<1> QED BY <1>1, <1>5, <1>6, <1>11, <1>12, <1>13, <1>14, ShellStepKeeps

\* Every step of the PowerShell session keeps what is true of its output.
LEMMA PowerShellOutput ==
    ASSUME Prompted, PromptedOutput, PowerShellNext, Prompted'
    PROVE  PromptedOutput'
<1> USE InstallOutput, ReturnOutput, GivenUpOutput, TimesOutOutput, ReceiveOutput, HandleOutput, EndsOutput, LossOutput,
        DrawOutput, WriteOutput, ReadKeyOutput, AcceptOutput, QuietKeeps, PressRunOutput
<1>1. CASE Host
  BY <1>1 DEF Host
<1>2. CASE Shell
  BY <1>2 DEF Shell
<1>3. CASE \E n \in 1..Len(pty \o frame) : Receive(n)
  BY <1>3
<1>4. CASE WaitTimesOut \/ Abandon \/ WritePiece \/ Signal \/ Flag \/ SessionLost
  BY <1>4
<1>5. CASE \E how \in {"ok", "failed"} : LineEnds(how)
  BY <1>5
<1> QED BY <1>1, <1>2, <1>3, <1>4, <1>5 DEF PowerShellNext

-----------------------------------------------------------------------------
(* What is kept true of the output of the Linux session.                     *)

\* What is true of the output of the Linux session.
RemoteOutput == PrintedSound /\ ReportedSound /\ RecordSound /\ LinuxStreamSound /\ timedOut = {}

\* The output of a record that is open is that of its command.
LEMMA RemoteOpen == Remote /\ PrintedSound /\ LinuxStreamSound /\ active # 0 => RecordSound
<1> SUFFICES ASSUME Remote, PrintedSound, LinuxStreamSound, active # 0
             PROVE  \E a, b \in Nat : OutcomeSound(x.out, cmd, a, b, x.done /\ x.status \in Statuses)
  BY DEF RecordSound
<1>1. ~x.done /\ cmd \in Commands
  BY DEF Remote, Common, ClientSound, Kept
<1>2. Len(printed[cmd]) \in Nat
  BY <1>1, OwnPieces DEF Remote, PiecesOf
<1>3. \E a, b \in Nat : Copies(printed[cmd], cmd, x.out, a, b) /\ b <= Len(printed[cmd])
  <2>1. CASE x.phase = "begin"
    <3>1. x.out = <<>>
      BY <2>1 DEF LinuxStreamSound, BeginSound
    <3>2. Copies(printed[cmd], cmd, x.out, 0, 0)
      BY <3>1, CopiesNothing
    <3> QED BY <1>2, <3>2
  <2>2. CASE x.phase = "capture"
    BY <2>2 DEF LinuxStreamSound, PassSound
  <2>3. CASE x.phase = "prompt"
    BY <1>2, <2>3 DEF LinuxStreamSound
  <2> QED BY <2>1, <2>2, <2>3 DEF Remote, LinuxInv, PhaseSound
<1>4. Plain(x.out)
  BY DEF LinuxStreamSound
<1> QED BY <1>1, <1>3, <1>4 DEF OutcomeSound

\* As RemoteOpen, of the next state.
LEMMA RemoteOpens == ASSUME Remote', PrintedSound', LinuxStreamSound', active' # 0 PROVE RecordSound'
<1>1. Remote' /\ PrintedSound' /\ LinuxStreamSound' /\ (active # 0)'
  OBVIOUS
<1> QED BY <1>1, RemoteOpen, PTL

\* What a step has to show.
LEMMA RemoteMoves ==
    ASSUME Remote, RemoteOutput, Remote', PrintedSound', LinuxStreamSound', UNCHANGED <<setting, reported, timedOut>>,
           \A c \in Commands : Silent(c) => Silent(c)', \A c \in Commands : Told(c)' => Told(c),
           \A c \in Commands : printed'[c] = printed[c] \/ Grows(c),
           active' # 0 \/ RecordSound' \/ (UNCHANGED <<x, cmd>> /\ (Kept' => Kept))
    PROVE  RemoteOutput'
<1> USE DEF RemoteOutput
<1>1. ReportedSound'
  BY ReportedKept DEF Remote
<1>2. CASE active' # 0
  BY <1>1, <1>2, RemoteOpens
<1>3. CASE RecordSound'
  BY <1>1, <1>3
<1>4. CASE UNCHANGED <<x, cmd>> /\ (Kept' => Kept)
  <2>1. CASE ~Kept'
    BY <1>1, <2>1 DEF RecordSound
  <2>2. CASE Kept'
    <3>1. Kept /\ cmd \in Commands
      BY <1>4, <2>2 DEF Kept, Remote, Common, ClientSound
    <3>2. RecordSound'
      BY <1>4, <3>1, RecordKept DEF Remote
    <3> QED BY <1>1, <3>2
  <2> QED BY <2>1, <2>2
<1> QED BY <1>2, <1>3, <1>4

\* Nothing tells what ended to write again.
LEMMA SilentStays ==
    ASSUME Remote, setting' = setting, Pressed \in Nat, Pressed' \in Nat, Pressed <= Pressed', NEW c \in Commands, Silent(c),
           at' = "running" => prog' # c, at' = "prompt" => press' # c,
           \A i \in 1..Len(keys') : keys'[i][1] \in Orders =>
              (\E j \in 1..Len(keys) : keys'[i] = keys[j]) \/ Pressed < keys'[i][2]
    PROVE  Silent(c)'
<1>1. c <= Pressed /\ c \in Nat /\ \A j \in 1..Len(keys) : keys[j][1] \in Orders => keys[j][2] # c
  BY CommandsAre DEF Silent, Remote
<1>2. c <= Pressed'
  BY <1>1
<1>3. ASSUME NEW i \in 1..Len(keys'), keys'[i][1] \in Orders PROVE keys'[i][2] # c
  <2>1. CASE \E j \in 1..Len(keys) : keys'[i] = keys[j]
    BY <1>1, <1>3, <2>1
  <2>2. CASE Pressed < keys'[i][2]
    BY <1>1, <2>2
  <2> QED BY <1>3, <2>1, <2>2
<1> QED BY <1>2, <1>3 DEF Silent, Remote

\* A step that neither writes nor reads what was written.
Still ==
    /\ UNCHANGED <<setting, active, x, cmd, pty, printed, prog, press, ran, reported, result, timedOut>> /\ at' \in {at, "dead"}
    /\ Pressed \in Nat /\ Pressed' \in Nat /\ Pressed <= Pressed' /\ (Kept' => Kept)
    /\ \A i \in 1..Len(keys') : keys'[i][1] \in Orders =>
          (\E j \in 1..Len(keys) : keys'[i] = keys[j]) \/ Pressed < keys'[i][2]

\* A step that neither writes nor reads what was written keeps the output sound.
LEMMA StillKeeps == ASSUME Remote, RemoteOutput, Remote', Still PROVE RemoteOutput'
<1> USE DEF Still
<1>1. at' \in {"prompt", "running"} => at' = at
  OBVIOUS
<1>2. ASSUME NEW c \in Commands, Silent(c) PROVE Silent(c)'
  <2>1. (at' = "running" => prog' # c) /\ (at' = "prompt" => press' # c)
    BY <1>1, <1>2 DEF Silent, Remote
  <2> QED BY <1>2, <2>1, SilentStays
<1>3. PrintedSound'
  BY <1>1, PrintedRest DEF RemoteOutput
<1>4. ASSUME active # 0 PROVE (Plain(x.out) /\ Endless(pty))' /\ (x.phase = "begin" => BeginSound') /\ (x.phase = "capture" => PassSound')
        /\ (x.phase = "prompt" => (Copies(printed[cmd], cmd, x.out, 0, Len(printed[cmd])) /\ Silent(cmd))')
  <2>1. \A h : Reaches(h) => Reaches(h)'
    BY <1>1 DEF Reaches
  <2>2. (Plain(x.out) /\ Endless(pty))'
    BY <1>4 DEF RemoteOutput, LinuxStreamSound
  <2>3. ASSUME x.phase = "begin" PROVE BeginSound'
    <3>1. BeginSound
      BY <1>4, <2>3 DEF RemoteOutput, LinuxStreamSound
    <3>2. CASE (\A i \in 1..Len(pty) : pty[i] # BeginMark) /\ printed[cmd] = <<>>
      BY <3>1, <3>2 DEF BeginSound, BeginMark
    <3>3. ASSUME NEW m \in 1..Len(pty), pty[m] = BeginMark, \A i \in 1..m - 1 : pty[i] = PromptMark,
                 NEW h \in Nat, Copies(printed[cmd], cmd, SubSeq(pty, m + 1, Len(pty)), 0, h), Reaches(h)
          PROVE  BeginSound'
      <4>1. (/\ pty[m] = BeginMark /\ \A i \in 1..m - 1 : pty[i] = PromptMark
             /\ \E k \in Nat : Copies(printed[cmd], cmd, SubSeq(pty, m + 1, Len(pty)), 0, k) /\ Reaches(k))'
        BY <2>1, <3>3 DEF BeginMark, PromptMark
      <4>2. x'.out = <<>> /\ m \in 1..Len(pty')
        BY <3>1 DEF BeginSound
      <4> QED BY <4>1, <4>2 DEF BeginSound
    <3> QED BY <3>1, <3>2, <3>3 DEF BeginSound
  <2>4. x.phase = "capture" => PassSound'
    BY <1>4, <2>1 DEF RemoteOutput, LinuxStreamSound, PassSound
  <2>5. x.phase = "prompt" => (Copies(printed[cmd], cmd, x.out, 0, Len(printed[cmd])) /\ Silent(cmd))'
    <3>1. cmd \in Commands
      BY <1>4 DEF Remote, Common, ClientSound, Kept
    <3>2. Silent(cmd) => Silent(cmd)'
      BY <1>2, <3>1 DEF Silent, Remote
    <3> QED BY <1>4, <3>2 DEF RemoteOutput, LinuxStreamSound
  <2> QED BY <2>2, <2>3, <2>4, <2>5
<1>5. LinuxStreamSound'
  BY <1>4 DEF LinuxStreamSound
<1>6. \A c \in Commands : Told(c)' => Told(c)
  BY DEF Told
<1> QED BY <1>2, <1>3, <1>5, <1>6, RemoteMoves

\* Steps that do not touch the output.
LEMMA StillOutput ==
    ASSUME Remote, RemoteOutput, Remote',
           PrepareLinux \/ SendEnter \/ Flag \/ SendCtrlC \/ SendCtrlCRaises \/ CloseEnds \/ ChannelLost
    PROVE  RemoteOutput'
<1> USE DEF Remote
<1>1. Len(keys) \in Nat /\ cmd \in Nat /\ cmd >= 1
  BY KeyIs, NumbersAre
<1>2. CASE PrepareLinux
  <2>1. OneMore(<<"text", cmd>>)
    BY <1>2, OneSent DEF PrepareLinux
  <2>2. \A i \in 1..Len(keys') : keys'[i][1] \in Orders => \E j \in 1..Len(keys) : keys'[i] = keys[j]
    BY <2>1 DEF OneMore, Orders
  <2>3. Still
    BY <1>1, <1>2, <2>2 DEF PrepareLinux, Still, Pressed, Kept
  <2> QED BY <2>3, StillKeeps
<1>3. CASE SendEnter
  <2>1. TwoMore(<<"arm", cmd>>, <<"enter", cmd>>)
    BY <1>3, TwoSent DEF SendEnter
  <2>2. Pressed = cmd - 1 /\ Pressed' = cmd /\ Pressed < cmd
    BY <1>1, <1>3 DEF SendEnter, Pressed
  <2>3. \A i \in 1..Len(keys') : keys'[i][1] \in Orders =>
          (\E j \in 1..Len(keys) : keys'[i] = keys[j]) \/ Pressed < keys'[i][2]
    BY <2>1, <2>2 DEF TwoMore
  <2>4. Still
    BY <1>1, <1>3, <2>2, <2>3 DEF SendEnter, Still, Kept
  <2> QED BY <2>4, StillKeeps
<1>4. CASE SendCtrlC
  <2>1. PICK c : c = canceller
    OBVIOUS
  <2>2. OneMore(<<"^C", c>>)
    BY <1>4, <2>1, OneSent DEF SendCtrlC, SendInterrupt
  <2>3. \A i \in 1..Len(keys') : keys'[i][1] \in Orders => \E j \in 1..Len(keys) : keys'[i] = keys[j]
    BY <2>2 DEF OneMore, Orders
  <2>4. Still
    BY <1>1, <1>4, <2>3 DEF SendCtrlC, SendInterrupt, Still, Pressed, Kept
  <2> QED BY <2>4, StillKeeps
<1>5. CASE Flag \/ SendCtrlCRaises
  <2>1. Still
    BY <1>1, <1>5 DEF Flag, SendCtrlCRaises, Still, Pressed, Kept
  <2> QED BY <2>1, StillKeeps
<1>6. CASE CloseEnds \/ ChannelLost
  <2>1. keys' = <<>>
    BY <1>6 DEF CloseEnds, ChannelLost, Lose
  <2>2. \A i \in 1..Len(keys') : FALSE
    BY <2>1
  <2>3. Still
    BY <1>1, <1>6, <2>2 DEF CloseEnds, ChannelLost, Lose, Still, Pressed, Kept
  <2> QED BY <2>3, StillKeeps
<1> QED BY <1>2, <1>3, <1>4, <1>5, <1>6

\* The next command begins.
LEMMA RemoteReturn ==
    ASSUME Remote, RemoteOutput, Remote', Refuse \/ Leave \/ Abandon
    PROVE  RemoteOutput'
<1> USE DEF RemoteOutput
<1>1. PICK how \in Ends \cup {"unprepared"} :
        /\ NextCommand(how) /\ step # "idle"
        /\ \/ how \notin {"ok", "failed"} /\ reported' = reported
           \/ step = "waiting" /\ x.done /\ how = x.status /\ reported' = [reported EXCEPT ![cmd] = x.out]
  <2>1. x.status \in Ends /\ "error" \in Ends
    BY TypesAre, ExecutionsAre DEF RecordTyped, Ends, Remote
  <2> QED BY <2>1 DEF Refuse, Leave, Abandon
<1>2. /\ UNCHANGED <<setting, x, pty, frame, printed, at, prog, press, ran, ended, timedOut>>
      /\ active' = 0
  BY NumbersAre DEF Refuse, Leave, Abandon, Remote, Common, ClientSound, Kept
<1>3. /\ Pressed <= Pressed' /\ Pressed \in Nat /\ Pressed' \in Nat /\ cmd \in Commands /\ ~Kept'
      /\ result'[cmd] = how /\ \A c \in Commands : c # cmd => result'[c] = result[c]
  BY <1>1, <1>2, NextCommandIs DEF Remote, Common
<1>4. \A i \in 1..Len(keys') : keys'[i][1] \in Orders => \E j \in 1..Len(keys) : keys'[i] = keys[j]
  <2>1. CASE Refuse \/ Leave
    BY <2>1 DEF Refuse, Leave
  <2>2. CASE Abandon /\ ~Alive
    BY <2>2 DEF Abandon, Send
  <2>3. CASE Abandon /\ Alive
    <3>1. OneMore(<<"clear", 0>>)
      BY <2>3, OneSent DEF Abandon, Remote
    <3> QED BY <3>1 DEF OneMore, Orders
  <2> QED BY <2>1, <2>2, <2>3
<1>5. PrintedSound'
  BY <1>2 DEF PrintedSound
<1>6. RecordSound' /\ LinuxStreamSound'
  BY <1>2, <1>3 DEF RecordSound, LinuxStreamSound
<1>7. ASSUME NEW c \in Commands, Silent(c) PROVE Silent(c)'
  <2>1. (at' = "running" => prog' # c) /\ (at' = "prompt" => press' # c)
    BY <1>2, <1>7 DEF Silent, Remote
  <2> QED BY <1>2, <1>3, <1>4, <1>7, <2>1, SilentStays
<1>8. CASE how \notin {"ok", "failed"} /\ reported' = reported
  <2>1. \A c \in Commands : Told(c)' => Told(c)
    BY <1>3, <1>8 DEF Told
  <2> QED BY <1>2, <1>5, <1>6, <1>7, <1>8, <2>1, RemoteMoves
<1>9. CASE step = "waiting" /\ x.done /\ how = x.status /\ reported' = [reported EXCEPT ![cmd] = x.out]
  <2>1. ReportedSound'
    BY <1>2, <1>3, <1>7, <1>9, LeaveReports DEF Remote
  <2> QED BY <1>2, <1>5, <1>6, <2>1
<1> QED BY <1>1, <1>8, <1>9

\* The execution fails, or is forgotten: what was received stays its output.
LEMMA FailOutput ==
    ASSUME Remote, RemoteOutput, Remote', ReaderEnds \/ CloseBegins \/ StartAnew
    PROVE  RemoteOutput'
<1>1. /\ UNCHANGED <<setting, cmd, step, printed, ran, ended, timedOut, reported, result, keys>> /\ active' = 0
      /\ \/ UNCHANGED <<at, prog, press>>
         \/ at' = "prompt" /\ prog' = 0 /\ press' = 0
      /\ x' = x \/ x' = [x EXCEPT !.status = "error", !.done = TRUE]
  BY DEF ReaderEnds, CloseBegins, StartAnew, FailActive, Complete
<1>2. x'.out = x.out /\ (x' = x \/ x'.status \notin Statuses)
  BY <1>1, TypesAre DEF Remote, RecordTyped, Execution, Statuses
<1>3. Pressed' = Pressed /\ Pressed \in Nat
  BY <1>1, NumbersAre DEF Pressed, Remote
<1>4. ASSUME NEW c \in Commands, Silent(c) PROVE Silent(c)'
  <2>1. (at' = "running" => prog' # c) /\ (at' = "prompt" => press' # c)
    BY <1>1, <1>4, CommandsAre DEF Silent, Remote
  <2>2. \A i \in 1..Len(keys') : keys'[i][1] \in Orders => \E j \in 1..Len(keys) : keys'[i] = keys[j]
    BY <1>1
  <2> QED BY <1>1, <1>3, <1>4, <2>1, <2>2, SilentStays
<1>5. PrintedSound'
  BY <1>1, PrintedRest DEF RemoteOutput
<1>6. LinuxStreamSound'
  BY <1>1 DEF LinuxStreamSound
<1>7. \A c \in Commands : Told(c)' => Told(c)
  BY <1>1 DEF Told
<1>8. RecordSound' \/ (UNCHANGED <<x, cmd>> /\ (Kept' => Kept))
  <2>1. CASE x' = x
    BY <1>1, <2>1 DEF Kept
  <2>2. CASE x'.status \notin Statuses
    <3>1. CASE ~Kept
      BY <1>1, <3>1 DEF RecordSound, Kept
    <3>2. CASE Kept
      <4>1. PICK a \in Nat, b \in Nat : OutcomeSound(x.out, cmd, a, b, x.done /\ x.status \in Statuses)
        BY <3>2 DEF RemoteOutput, RecordSound
      <4>2. PICK s, c, p : s = x.out /\ c = cmd /\ p = printed[cmd]
        OBVIOUS
      <4>3. Copies(p, c, s, a, b) /\ Plain(s) /\ b <= Len(p)
        BY <4>1, <4>2 DEF OutcomeSound, RemoteOutput
      <4>4. s = x'.out /\ c = cmd' /\ p = printed'[cmd']
        BY <1>1, <1>2, <4>2
      <4>5. OutcomeSound(x.out, cmd, a, b, x.done /\ x.status \in Statuses)'
        BY <2>2, <4>3, <4>4 DEF OutcomeSound
      <4> QED BY <4>5 DEF RecordSound
    <3> QED BY <3>1, <3>2
  <2> QED BY <1>2, <2>1, <2>2
<1> QED BY <1>1, <1>4, <1>5, <1>6, <1>7, <1>8, RemoteMoves

\* BEGIN was not written, and nothing else.
Unbegun == (\A i \in 1..Len(pty) : pty[i] # BeginMark) /\ printed[cmd] = <<>>
\* bash writes r behind what is still to be read.
Adds(r) ==
    /\ active # 0 /\ pty' = pty \o r /\ UNCHANGED <<setting, active, cmd, x>> /\ Endless(r)
    /\ \A h \in Nat : Reaches(h) => Extends(printed[cmd], printed'[cmd], h)
    /\ \A h \in Nat : Reaches(h) => \E k \in Nat : Copies(printed'[cmd'], cmd', r, h, k) /\ Reaches(k)'
    /\ x.phase = "begin" /\ Unbegun => BeginSound'
    /\ x.phase = "prompt" => printed'[cmd] = printed[cmd] /\ Silent(cmd)'

\* What the reader has not read goes on.
LEMMA BeginGrows ==
    ASSUME TypeOK, BeginSound, x.phase = "begin", NEW r \in Seq(Tokens), Adds(r)
    PROVE  BeginSound'
<1>1. CASE Unbegun
  BY <1>1 DEF Adds
<1>2. ASSUME NEW m \in 1..Len(pty), pty[m] = BeginMark, \A i \in 1..m - 1 : pty[i] = PromptMark,
             NEW h \in Nat, Copies(printed[cmd], cmd, SubSeq(pty, m + 1, Len(pty)), 0, h), Reaches(h)
      PROVE  BeginSound'
  <2>1. PICK p, q, c, w, w2 : p = printed[cmd] /\ q = printed'[cmd] /\ c = cmd /\ w = pty /\ w2 = pty'
    OBVIOUS
  <2>2. w \in Seq(Tokens) /\ Len(w) \in Nat
    BY <2>1, TypesAre DEF WiresTyped
  <2>3. w2 = w \o r /\ cmd' = c /\ q = printed'[cmd'] /\ x' = x /\ Extends(p, q, h)
    BY <1>2, <2>1 DEF Adds
  <2>4. PICK k \in Nat : Copies(q, c, r, h, k) /\ Reaches(k)'
    BY <1>2, <2>1, <2>3 DEF Adds
  <2>5. m \in 0..Len(w) /\ m \in 1..Len(w) /\ Copies(p, c, SubSeq(w, m + 1, Len(w)), 0, h)
    BY <1>2, <2>1, <2>2
  <2>6. PICK s : s = SubSeq(w, m + 1, Len(w))
    OBVIOUS
  <2>7. s \in Seq(Tokens) /\ Copies(p, c, s, 0, h)
    BY <2>2, <2>5, <2>6, CutIs
  <2>8. h <= h
    OBVIOUS
  <2>9. Copies(q, c, s, 0, h)
    BY <2>3, <2>7, <2>8, CopiesExtend
  <2>10. Copies(q, c, s \o r, 0, k)
    BY <2>4, <2>7, <2>9, CopiesJoin
  <2>11. Copies(q, c, SubSeq(w2, m + 1, Len(w2)), 0, k)
    BY <2>2, <2>3, <2>5, <2>6, <2>10, BehindGrows
  <2>12. m \in 1..Len(w2) /\ \A i \in 1..m : w2[i] = w[i]
    BY <2>2, <2>3, <2>5, JoinIs
  <2>13. x'.out = <<>>
    BY <2>3 DEF BeginSound
  <2>14. (/\ pty[m] = BeginMark /\ \A i \in 1..m - 1 : pty[i] = PromptMark
          /\ \E n \in Nat : Copies(printed[cmd], cmd, SubSeq(pty, m + 1, Len(pty)), 0, n) /\ Reaches(n))'
    <3>1. w2[m] = BeginMark /\ \A i \in 1..m - 1 : w2[i] = PromptMark
      BY <1>2, <2>1, <2>12
    <3>2. Copies(printed'[cmd'], cmd', SubSeq(pty', m + 1, Len(pty')), 0, k) /\ Reaches(k)'
      BY <2>1, <2>3, <2>4, <2>11
    <3> QED BY <2>1, <3>1, <3>2 DEF BeginMark, PromptMark
  <2>15. m \in 1..Len(pty')
    BY <2>1, <2>12
  <2> QED BY <2>13, <2>14, <2>15 DEF BeginSound
<1> QED BY <1>1, <1>2 DEF BeginSound, Unbegun

\* And what it has read.
LEMMA PassGrows ==
    ASSUME TypeOK, PassSound, NEW r \in Seq(Tokens), Adds(r)
    PROVE  PassSound'
<1>1. PICK b \in Nat, h \in Nat :
        /\ b <= Len(printed[cmd]) /\ Copies(printed[cmd], cmd, x.out, 0, b)
        /\ Copies(printed[cmd], cmd, pty, b, h) /\ Reaches(h)
  BY DEF PassSound
<1>2. PICK p, q, c, w, s : p = printed[cmd] /\ q = printed'[cmd] /\ c = cmd /\ w = pty /\ s = x.out
  OBVIOUS
<1>3. w \in Seq(Tokens) /\ s \in Seq(Tokens)
  BY <1>2, TypesAre DEF WiresTyped, RecordTyped, Execution
<1>4. pty' = w \o r /\ cmd' = c /\ q = printed'[cmd'] /\ x' = x /\ Extends(p, q, h)
  BY <1>1, <1>2 DEF Adds
<1>5. PICK k \in Nat : Copies(q, c, r, h, k) /\ Reaches(k)'
  BY <1>1, <1>2, <1>4 DEF Adds
<1>6. b <= Len(p) /\ Copies(p, c, s, 0, b) /\ Copies(p, c, w, b, h)
  BY <1>1, <1>2
<1>7. b <= h /\ h <= h
  BY <1>3, <1>6, CopiesOrder
<1>8. Copies(q, c, s, 0, b) /\ Copies(q, c, w, b, h)
  BY <1>3, <1>4, <1>6, <1>7, CopiesExtend
<1>9. Copies(q, c, w \o r, b, k)
  BY <1>3, <1>5, <1>8, CopiesJoin
<1>10. b <= Len(q)
  BY <1>4, <1>6 DEF Extends
<1>11. (/\ b <= Len(printed[cmd]) /\ Copies(printed[cmd], cmd, x.out, 0, b)
        /\ Copies(printed[cmd], cmd, pty, b, k))'
  BY <1>2, <1>4, <1>8, <1>9, <1>10
<1> QED BY <1>5, <1>11 DEF PassSound

\* All of it.
LEMMA RemoteGrows ==
    ASSUME Remote, RemoteOutput, NEW r \in Seq(Tokens), Adds(r)
    PROVE  LinuxStreamSound'
<1> USE DEF RemoteOutput, LinuxStreamSound
<1>1. Plain(x'.out)
  BY DEF Adds
<1>2. Endless(pty)'
  <2>1. PICK w : w = pty
    OBVIOUS
  <2>2. w \in Seq(Tokens) /\ Endless(w) /\ Endless(r) /\ pty' = w \o r
    BY <2>1, TypesAre DEF Adds, Remote, WiresTyped
  <2>3. Endless(w \o r)
    BY <2>2, JoinedAre
  <2> QED BY <2>2, <2>3
<1>3. x'.phase = "begin" => BeginSound'
  BY BeginGrows DEF Adds, Remote
<1>4. x'.phase = "capture" => PassSound'
  BY PassGrows DEF Adds, Remote
<1>5. x'.phase = "prompt" => (Copies(printed[cmd], cmd, x.out, 0, Len(printed[cmd])) /\ Silent(cmd))'
  <2>1. ASSUME x'.phase = "prompt" PROVE Silent(cmd)'
    BY <2>1 DEF Adds
  <2>2. ASSUME x'.phase = "prompt" PROVE Copies(printed[cmd], cmd, x.out, 0, Len(printed[cmd]))'
    BY <2>2 DEF Adds
  <2> QED BY <2>1, <2>2
<1> QED BY <1>1, <1>2, <1>3, <1>4, <1>5

\* What bash and its programs do changes nothing else.
LEMMA WorksOutput ==
    ASSUME Remote, RemoteOutput, Remote', Works, PrintedSound', LinuxStreamSound', NEW n, Drops(n),
           \A c \in Commands : Silent(c) /\ at' = "running" => prog' # c,
           \A c \in Commands : Silent(c) /\ at' = "prompt" => press' # c,
           \A c \in Commands : printed'[c] = printed[c] \/ Grows(c)
    PROVE  RemoteOutput'
<1>1. /\ UNCHANGED <<setting, reported, timedOut, x, cmd, step, result>>
      /\ Pressed' = Pressed /\ Pressed \in Nat
  BY NumbersAre DEF Works, Remote, Pressed
<1>2. \A i \in 1..Len(keys') : keys'[i][1] \in Orders => \E j \in 1..Len(keys) : keys'[i] = keys[j]
  BY DEF Drops
<1>3. ASSUME NEW c \in Commands, Silent(c) PROVE Silent(c)'
  <2>1. (at' = "running" => prog' # c) /\ (at' = "prompt" => press' # c) /\ Pressed <= Pressed' /\ Pressed' \in Nat
    BY <1>1, <1>3
  <2> QED BY <1>1, <1>2, <1>3, <2>1, SilentStays
<1>4. \A c \in Commands : Told(c)' => Told(c)
  BY <1>1 DEF Told
<1>5. Kept' => Kept
  BY <1>1 DEF Kept
<1> QED BY <1>1, <1>3, <1>4, <1>5, RemoteMoves

\* Marks stand for more than was written.
LEMMA MarksAdded ==
    ASSUME NEW p, NEW c, Len(p) \in Nat, NEW h \in Nat, Len(p) <= h, NEW r, NEW how \in Statuses,
           r \in {<<PromptMark>>, <<StatusMark(how), PromptMark>>}
    PROVE  r \in Seq(Tokens) /\ Endless(r) /\ \E k \in Nat : Len(p) <= k /\ Copies(p, c, r, h, k)
<1>1. PICK t \in Tokens, u \in Tokens : t = StatusMark(how) /\ u = PromptMark
  BY MarksAre DEF Statuses
<1>2. t \in {<<"ok", 0>>, <<"failed", 0>>} /\ u = <<"prompt", 0>> /\ t[1] # "end" /\ u[1] # "end"
  BY <1>1 DEF StatusMark, PromptMark, Statuses
<1>3. \A k \in Nat : h <= k => Moves(p, c, t, k, k + 1) /\ Moves(p, c, u, k, k + 1)
  BY <1>2 DEF Moves
<1>4. <<t>> \in Seq(Tokens) /\ <<u>> \in Seq(Tokens) /\ Endless(<<t>>) /\ Endless(<<u>>)
  BY <1>2, FewTokens
<1>5. CASE r = <<u>>
  <2>1. h + 1 \in Nat /\ h <= h + 1 /\ h <= h
    OBVIOUS
  <2>2. Moves(p, c, u, h, h + 1)
    BY <1>3
  <2>3. Copies(p, c, <<u>>, h, h + 1)
    BY <2>1, <2>2, CopiesOne
  <2>4. Copies(p, c, r, h, h + 1) /\ Len(p) <= h + 1
    BY <1>5, <2>3
  <2> QED BY <1>4, <1>5, <2>1, <2>4
<1>6. CASE r = <<t, u>>
  <2>1. h + 1 \in Nat /\ h <= h + 1 /\ h <= h /\ h + 2 \in Nat /\ h + 1 <= h + 2 /\ (h + 1) + 1 = h + 2
    OBVIOUS
  <2>2. Moves(p, c, t, h, h + 1) /\ Moves(p, c, u, h + 1, h + 2)
    <3>1. Moves(p, c, u, h + 1, (h + 1) + 1)
      BY <1>3, <2>1
    <3> QED BY <1>3, <2>1, <3>1
  <2>3. Copies(p, c, <<t>>, h, h + 1)
    BY <2>1, <2>2, CopiesOne
  <2>4. Copies(p, c, <<t>> \o <<u>>, h, h + 2)
    BY <1>4, <2>1, <2>2, <2>3, CopiesMore
  <2>5. r = <<t>> \o <<u>>
    BY <1>6, TwoTokens
  <2>6. r \in Seq(Tokens) /\ Endless(r)
    <3>1. <<t>> \o <<u>> \in Seq(Tokens) /\ Endless(<<t>> \o <<u>>)
      BY <1>4, JoinedAre, JoinIs
    <3> QED BY <2>5, <3>1
  <2>7. Copies(p, c, r, h, h + 2) /\ Len(p) <= h + 2
    BY <2>4, <2>5
  <2> QED BY <2>1, <2>6, <2>7
<1> QED BY <1>1, <1>5, <1>6

\* What there is of a record that is open.
LEMMA RemoteIs ==
    ASSUME Remote, RemoteOutput, active # 0
    PROVE  /\ cmd \in Commands /\ printed[cmd] \in Seq(Tokens) /\ Len(printed[cmd]) \in Nat
           /\ pty \in Seq(Tokens) /\ Len(pty) \in Nat /\ x \in Execution
           /\ Begun /\ x.phase = "begin" => ~Unbegun
           /\ ~Begun => x.phase = "begin" /\ x.out = <<>> /\ Unbegun /\ OnlyPrompts
<1>1. cmd \in Commands
  BY DEF Remote, Common, ClientSound, Kept
<1>2. printed[cmd] \in Seq(Tokens) /\ pty \in Seq(Tokens) /\ x \in Execution
  BY <1>1, TypesAre DEF Remote, ResultTyped, WiresTyped, RecordTyped
<1>3. ASSUME ~Begun PROVE x.phase = "begin" /\ x.out = <<>> /\ Unbegun /\ OnlyPrompts
  <2>1. x.phase = "begin" /\ (\A i \in 1..Len(pty) : pty[i] # BeginMark) /\ OnlyPrompts
    BY <1>3 DEF Begun, Remote, LinuxInv, PhaseSound
  <2>2. BeginSound
    BY <2>1 DEF RemoteOutput, LinuxStreamSound
  <2> QED BY <2>1, <2>2 DEF BeginSound, Unbegun
<1>4. Begun /\ x.phase = "begin" => ~Unbegun
  BY DEF Begun, Unbegun
<1> QED BY <1>1, <1>2, <1>3, <1>4

\* What bash runs is what it was told to.
LEMMA RemotePrinted ==
    ASSUME Remote', PrintedSound, UNCHANGED printed, \A c \in Commands : ran'[c] = 0 => ran[c] = 0
    PROVE  PrintedSound'
<1>1. at' = "running" => prog' = press' /\ ran'[prog'] = 1
  BY DEF Remote, LinuxInv, BashSound
<1> QED BY <1>1 DEF PrintedSound

\* The end of a program, or another prompt.
LEMMA EndAdds ==
    ASSUME Remote, RemoteOutput, active # 0, UNCHANGED <<setting, active, cmd, x, printed>>, at' # "running",
           NEW how \in Statuses, NEW r \in {<<PromptMark>>, <<StatusMark(how), PromptMark>>}, pty' = pty \o r,
           x.phase = "prompt" => Silent(cmd)'
    PROVE  r \in Seq(Tokens) /\ Adds(r)
<1>1. PICK p, c, w : p = printed[cmd] /\ c = cmd /\ w = pty
  OBVIOUS
<1>2. Len(p) \in Nat /\ w \in Seq(Tokens) /\ pty' = w \o r /\ p = printed'[cmd'] /\ c = cmd'
  BY <1>1, RemoteIs
<1>3. r \in Seq(Tokens) /\ Endless(r)
  <2>1. Len(p) <= Len(p)
    BY <1>2
  <2> QED BY <1>2, <2>1, MarksAdded
<1>4. ASSUME NEW h \in Nat, Reaches(h) PROVE \E k \in Nat : Copies(printed'[cmd'], cmd', r, h, k) /\ Reaches(k)'
  <2>1. Len(p) <= h
    BY <1>1, <1>4 DEF Reaches
  <2>2. PICK k \in Nat : Len(p) <= k /\ Copies(p, c, r, h, k)
    BY <1>2, <2>1, MarksAdded
  <2>3. Reaches(k)'
    BY <1>2, <2>2 DEF Reaches
  <2> QED BY <1>2, <2>2, <2>3
<1>5. ASSUME x.phase = "begin", Unbegun PROVE BeginSound'
  <2>1. \A i \in 1..Len(w) : w[i] # BeginMark
    BY <1>1, <1>5 DEF Unbegun
  <2>2. \A i \in 1..Len(r) : r[i] # BeginMark
    <3>1. StatusMark(how) # BeginMark /\ PromptMark # BeginMark
      BY MarkKinds
    <3>2. PICK t, u : t = StatusMark(how) /\ u = PromptMark
      OBVIOUS
    <3>3. CASE r = <<u>>
      <4>1. \A i \in 1..Len(r) : r[i] = u
        BY <3>3
      <4> QED BY <3>1, <3>2, <4>1
    <3>4. CASE r = <<t, u>>
      <4>1. \A i \in 1..Len(r) : i = 1 \/ i = 2
        BY <3>4
      <4>2. r[1] = t /\ r[2] = u
        BY <3>4
      <4>3. \A i \in 1..Len(r) : r[i] = t \/ r[i] = u
        BY <4>1, <4>2
      <4> QED BY <3>1, <3>2, <4>3
    <3> QED BY <3>2, <3>3, <3>4
  <2>3. \A i \in 1..Len(w \o r) : (w \o r)[i] # BeginMark
    BY <1>2, <1>3, <2>1, <2>2, JoinedAre
  <2>4. x'.out = <<>>
    BY <1>5 DEF RemoteOutput, LinuxStreamSound, BeginSound
  <2>5. printed'[cmd'] = <<>>
    BY <1>5 DEF Unbegun
  <2>6. \A i \in 1..Len(pty') : pty'[i] # BeginMark
    BY <1>2, <2>3
  <2> QED BY <2>4, <2>5, <2>6 DEF BeginSound, BeginMark
<1>6. \A h \in Nat : Extends(printed[cmd], printed'[cmd], h)
  BY DEF Extends
<1> QED BY <1>2, <1>3, <1>4, <1>5, <1>6 DEF Adds

\* BEGIN is written.
LEMMA BeginAdded ==
    ASSUME Remote, RemoteOutput, active # 0, ~Begun, UNCHANGED <<setting, active, cmd, x, printed>>,
           NEW r \in Seq(Tokens), Endless(r), pty' = (pty \o <<BeginMark>>) \o r,
           NEW h \in Nat, Copies(printed[cmd], cmd, r, 0, h), Reaches(h)'
    PROVE  LinuxStreamSound'
<1>1. PICK p, c, w : p = printed[cmd] /\ c = cmd /\ w = pty
  OBVIOUS
<1>2. PICK t \in Tokens : t = BeginMark
  BY MarksAre
<1>3. w \in Seq(Tokens) /\ Len(w) \in Nat /\ x.phase = "begin" /\ x.out = <<>> /\ (\A i \in 1..Len(w) : w[i] = PromptMark)
  BY <1>1, RemoteIs DEF OnlyPrompts
<1>4. PICK s : s = w \o <<t>>
  OBVIOUS
<1>5. <<t>> \in Seq(Tokens) /\ Len(<<t>>) = 1 /\ <<t>>[1] = t
  OBVIOUS
<1>6. s \in Seq(Tokens) /\ Len(s) = Len(w) + 1 /\ (\A i \in 1..Len(w) : s[i] = w[i]) /\ s[Len(w) + 1] = t
  <2>1. 1 \in 1..Len(<<t>>)
    BY <1>5
  <2> QED BY <1>3, <1>4, <1>5, <2>1, JoinIs
<1>7. PICK m : m = Len(w) + 1
  OBVIOUS
<1>8. m \in 1..Len(s) /\ SubSeq(s, m + 1, Len(s)) = <<>>
  BY <1>3, <1>6, <1>7
<1>9. PICK u : u = s \o r
  OBVIOUS
<1>10. pty' = u
  BY <1>1, <1>2, <1>4, <1>9
<1>11. SubSeq(u, m + 1, Len(u)) = r
  <2>1. SubSeq(u, m + 1, Len(u)) = <<>> \o r
    BY <1>6, <1>8, <1>9, BehindGrows
  <2>2. <<>> \o r = r
    BY ConcatEmptySeq
  <2> QED BY <2>1, <2>2
<1>12. m \in 1..Len(u) /\ u[m] = t /\ \A i \in 1..m - 1 : u[i] = PromptMark
  <2>1. m \in 1..Len(u) /\ \A i \in 1..Len(s) : u[i] = s[i]
    BY <1>6, <1>8, <1>9, JoinIs
  <2>2. \A i \in 1..m - 1 : i \in 1..Len(w) /\ i \in 1..Len(s)
    BY <1>3, <1>6, <1>7
  <2> QED BY <1>3, <1>6, <1>7, <1>8, <2>1, <2>2
<1>13. Endless(u)
  <2>1. t[1] # "end" /\ PromptMark[1] # "end"
    BY <1>2, MarkKinds
  <2>2. Endless(w) /\ Endless(<<t>>)
    BY <1>3, <2>1, FewTokens DEF Endless
  <2>3. Endless(s)
    BY <1>3, <1>4, <1>5, <2>2, JoinedAre
  <2> QED BY <1>6, <1>9, <2>3, JoinedAre
<1>14. Copies(printed[cmd], cmd, SubSeq(pty, m + 1, Len(pty)), 0, h)'
  BY <1>1, <1>10, <1>11
<1>15. (pty[m] = BeginMark /\ \A i \in 1..m - 1 : pty[i] = PromptMark)'
  BY <1>2, <1>10, <1>12 DEF BeginMark, PromptMark
<1>16. BeginSound'
  <2>1. x'.out = <<>> /\ m \in 1..Len(pty')
    BY <1>3, <1>10, <1>12
  <2> QED BY <1>14, <1>15, <2>1 DEF BeginSound
<1>17. Plain(x.out)' /\ Endless(pty)'
  BY <1>10, <1>13 DEF RemoteOutput, LinuxStreamSound
<1> QED BY <1>3, <1>16, <1>17 DEF LinuxStreamSound

\* A prompt command whose line ran nothing writes all marks.
LEMMA CycleOutput ==
    ASSUME Remote, RemoteOutput, Remote', Works, at = "prompt", press # 0, PromptCycle("ok", FALSE), UNCHANGED <<printed, ran>>,
           NEW n, Drops(n)
    PROVE  RemoteOutput'
<1>1. at' = "prompt" /\ press' = 0
  BY DEF PromptCycle
<1>2. PrintedSound'
  BY RemotePrinted DEF RemoteOutput
<1>3. ASSUME active # 0 PROVE LinuxStreamSound'
  <2>1. ~Begun /\ Unbegun /\ pty \in Seq(Tokens)
    BY <1>3, PressedIs, RemoteIs
  <2>2. PICK b \in Tokens, s \in Tokens, u \in Tokens : b = BeginMark /\ s = StatusMark("ok") /\ u = PromptMark
    BY MarksAre
  <2>3. PICK w, r : w = pty /\ r = <<s, u>>
    OBVIOUS
  <2>4. PICK p, c : p = printed[cmd] /\ c = cmd
    OBVIOUS
  <2>5. "ok" \in Statuses /\ p = <<>> /\ Len(p) = 0 /\ 0 \in Nat /\ Len(p) \in Nat /\ Len(p) <= 0
    BY <2>1, <2>4 DEF Statuses, Unbegun
  <2>6. r \in {<<PromptMark>>, <<StatusMark("ok"), PromptMark>>}
    BY <2>2, <2>3
  <2>7. r \in Seq(Tokens) /\ Endless(r) /\ \E k \in Nat : Len(p) <= k /\ Copies(p, c, r, 0, k)
    BY <2>5, <2>6, MarksAdded
  <2>8. PICK h \in Nat : Len(p) <= h /\ Copies(p, c, r, 0, h)
    BY <2>7
  <2>9. pty' = w \o ((<<b>> \o <<s>>) \o <<u>>)
    BY <2>2, <2>3 DEF PromptCycle
  <2>10. pty' = (w \o <<b>>) \o r
    <3>1. <<b>> \in Seq(Tokens) /\ <<s>> \in Seq(Tokens) /\ <<u>> \in Seq(Tokens)
      OBVIOUS
    <3>2. (<<b>> \o <<s>>) \o <<u>> = <<b>> \o (<<s>> \o <<u>>)
      BY <3>1, ConcatAssociative
    <3>3. <<s>> \o <<u>> = r
      BY <2>3, TwoTokens
    <3>4. (w \o <<b>>) \o r = w \o (<<b>> \o r)
      BY <2>1, <2>3, <2>7, <3>1, ConcatAssociative
    <3> QED BY <2>9, <3>2, <3>3, <3>4
  <2>11. Reaches(h)'
    BY <1>1, <2>4, <2>8 DEF Reaches, Works
  <2>12. UNCHANGED <<setting, active, cmd, x, printed>>
    BY DEF Works
  <2>13. pty' = (pty \o <<BeginMark>>) \o r /\ Copies(printed[cmd], cmd, r, 0, h)
    BY <2>2, <2>3, <2>4, <2>8, <2>10
  <2> QED BY <1>3, <2>1, <2>7, <2>11, <2>12, <2>13, BeginAdded
<1>4. LinuxStreamSound'
  <2>1. active' = active
    BY DEF Works
  <2> QED BY <1>3, <2>1 DEF LinuxStreamSound
<1>5. \A c \in Commands : c # 0
  BY CommandsAre
<1> QED BY <1>1, <1>2, <1>4, <1>5, WorksOutput

\* A prompt comes, or a program ends.
LEMMA BashEndsOutput ==
    ASSUME Remote, RemoteOutput, Remote', Works, UNCHANGED <<printed, ran, prog>>, at' = "prompt", NEW n, Drops(n),
           NEW how \in Statuses, NEW r \in {<<PromptMark>>, <<StatusMark(how), PromptMark>>}, pty' = pty \o r,
           \A c \in Commands : Silent(c) => press' # c,
           active # 0 => x.phase # "prompt" \/ press' # cmd
    PROVE  RemoteOutput'
<1>1. PrintedSound'
  BY RemotePrinted DEF RemoteOutput
<1>2. /\ UNCHANGED <<setting, active, cmd, x, step>> /\ Pressed' = Pressed /\ Pressed \in Nat
  BY NumbersAre DEF Works, Remote, Pressed
<1>3. ASSUME active # 0, x.phase = "prompt" PROVE Silent(cmd)'
  <2>1. PICK c : c = cmd
    OBVIOUS
  <2>2. c \in Commands /\ Silent(c) /\ press' # c
    BY <1>3, <2>1, RemoteIs DEF RemoteOutput, LinuxStreamSound
  <2>3. \A i \in 1..Len(keys') : keys'[i][1] \in Orders => \E j \in 1..Len(keys) : keys'[i] = keys[j]
    BY DEF Drops
  <2>4. Silent(c)'
    BY <1>2, <2>2, <2>3, SilentStays
  <2>5. c = cmd'
    BY <1>2, <2>1
  <2> QED BY <1>2, <2>4, <2>5 DEF Silent
<1>4. LinuxStreamSound'
  <2>1. CASE active = 0
    BY <1>2, <2>1 DEF LinuxStreamSound
  <2>2. CASE active # 0
    <3>1. r \in Seq(Tokens) /\ Adds(r)
      BY <1>2, <1>3, <2>2, EndAdds
    <3> QED BY <3>1, RemoteGrows
  <2> QED BY <2>1, <2>2
<1>5. /\ \A c \in Commands : Silent(c) /\ at' = "running" => prog' # c
      /\ \A c \in Commands : Silent(c) /\ at' = "prompt" => press' # c
      /\ \A c \in Commands : printed'[c] = printed[c] \/ Grows(c)
  OBVIOUS
<1> QED BY <1>1, <1>4, <1>5, WorksOutput

\* bash reads text, or is armed.
LEMMA ReadTextOutput ==
    ASSUME Remote, RemoteOutput, Remote', ReadText
    PROVE  RemoteOutput'
<1>1. /\ Works /\ Drops(1) /\ 1 \in 1..Len(keys) /\ Head(keys) = keys[1] /\ keys[1][1] \in {"text", "clear", "arm"}
      /\ at = "prompt" /\ at' = "prompt" /\ UNCHANGED <<prog, ran, printed, ended>>
  BY TailDrops DEF ReadText, Works, Remote
<1>2. CASE keys[1][1] # "arm"
  <2>1. UNCHANGED <<press, pty>>
    BY <1>1, <1>2 DEF ReadText
  <2>2. \A i \in 1..Len(keys') : keys'[i][1] \in Orders => \E j \in 1..Len(keys) : keys'[i] = keys[j]
    BY <1>1 DEF Drops
  <2>3. UNCHANGED <<setting, active, x, cmd, step, reported, result, timedOut>> /\ Pressed' = Pressed /\ Pressed \in Nat
    BY <1>1, NumbersAre DEF Works, Remote, Pressed
  <2>4. Still
    BY <1>1, <2>1, <2>2, <2>3 DEF Still, Kept
  <2> QED BY <2>4, StillKeeps
<1>3. CASE keys[1][1] = "arm"
  <2>1. press' = keys[1][2] /\ pty' = Append(pty, PromptMark)
    BY <1>1, <1>3 DEF ReadText
  <2>2. pty' = pty \o <<PromptMark>>
    <3>1. pty \in Seq(Tokens) /\ PromptMark \in Tokens
      BY TypesAre, MarksAre DEF Remote, WiresTyped
    <3> QED BY <2>1, <3>1, AppendIsConcat
  <2>3. ASSUME NEW c \in Commands, Silent(c) PROVE press' # c
    BY <1>1, <1>3, <2>1, <2>3 DEF Silent, Remote, Orders
  <2>4. ASSUME active # 0 PROVE x.phase # "prompt"
    <3>1. ~NoOrder
      BY <1>1, <1>3 DEF NoOrder, Orders
    <3>2. ~Begun
      BY <2>4, <3>1 DEF Remote, LinuxInv, PhaseSound
    <3> QED BY <3>2 DEF Begun
  <2>5. "ok" \in Statuses
    BY DEF Statuses
  <2>6. PICK r : r = <<PromptMark>>
    OBVIOUS
  <2>7. r \in {<<PromptMark>>, <<StatusMark("ok"), PromptMark>>} /\ pty' = pty \o r
    BY <2>2, <2>6
  <2>8. /\ \A c \in Commands : Silent(c) => press' # c
        /\ active # 0 => x.phase # "prompt" \/ press' # cmd
    BY <2>3, <2>4
  <2> QED BY <1>1, <2>5, <2>7, <2>8, BashEndsOutput
<1> QED BY <1>2, <1>3

\* bash runs the line.
LEMMA RunOutput ==
    ASSUME Remote, RemoteOutput, Remote', Works, Drops(1), at = "prompt", at' = "running", press # 0,
           prog' = press, pty' = Append(pty, BeginMark), UNCHANGED printed, 1 \in 1..Len(keys), Is(keys[1], "enter", press),
           \A c \in Commands : ran'[c] = 0 => ran[c] = 0
    PROVE  RemoteOutput'
<1>1. PrintedSound'
  BY RemotePrinted DEF RemoteOutput
<1>2. ASSUME active # 0 PROVE LinuxStreamSound'
  <2>1. ~Begun /\ Unbegun /\ pty \in Seq(Tokens)
    BY <1>2, PressedIs, RemoteIs
  <2>2. PICK b \in Tokens, w \in Seq(Tokens) : b = BeginMark /\ w = pty
    BY <2>1, MarksAre
  <2>3. pty' = w \o <<b>>
    BY <2>2, AppendIsConcat
  <2>4. PICK v : v = w \o <<b>>
    OBVIOUS
  <2>5. v \in Seq(Tokens)
    BY <2>4
  <2>6. v \o <<>> = v
    BY <2>5, ConcatEmptySeq
  <2>7. <<>> \in Seq(Tokens)
    OBVIOUS
  <2>8. Endless(<<>>)
    BY FewTokens
  <2>9. pty' = (pty \o <<BeginMark>>) \o <<>>
    BY <2>2, <2>3, <2>4, <2>6
  <2>10. 0 \in Nat /\ Copies(printed[cmd], cmd, <<>>, 0, 0)
    BY CopiesNothing
  <2>11. UNCHANGED <<setting, active, cmd, x, printed>>
    BY DEF Works
  <2>12. printed'[cmd'] = <<>>
    BY <2>1, <2>11 DEF Unbegun
  <2>13. Reaches(0)'
    BY <2>12 DEF Reaches
  <2> QED BY <1>2, <2>1, <2>7, <2>8, <2>9, <2>10, <2>11, <2>13, BeginAdded
<1>3. LinuxStreamSound'
  <2>1. active' = active
    BY DEF Works
  <2> QED BY <1>2, <2>1 DEF LinuxStreamSound
<1>4. ASSUME NEW c \in Commands, Silent(c) PROVE prog' # c
  BY <1>4 DEF Silent, Remote, Orders, Is
<1> QED BY <1>1, <1>3, <1>4, WorksOutput

\* bash reads Enter.
LEMMA ReadEnterOutput ==
    ASSUME Remote, RemoteOutput, Remote', ReadEnter
    PROVE  RemoteOutput'
<1> USE DEF Remote, LinuxInv
<1>1. /\ Works /\ Drops(1) /\ 1 \in 1..Len(keys) /\ Head(keys) = keys[1] /\ keys[1][1] = "enter"
      /\ at = "prompt" /\ at' \in {"prompt", "running"} /\ line' = 0 /\ prog' = line
      /\ UNCHANGED <<printed, ended>>
  BY TailDrops DEF ReadEnter, Works, Run, PromptCycle
<1>2. press = keys[1][2]
  BY <1>1 DEF EnterSound
<1>3. MayEnter(press) /\ press \in Commands /\ press # 0
  <2>1. PICK c : c = keys[1][2]
    OBVIOUS
  <2>2. MayEnter(c)
    BY <1>1, <2>1 DEF EnterSound, Orders
  <2> QED BY <1>2, <2>1, <2>2, MayPress
<1>4. line \in {0, press}
  <2>1. \A j : j \notin 1..1 - 1
    OBVIOUS
  <2>2. Owned(press, 1 - 1)
    BY <1>1, <1>2 DEF TextSound
  <2> QED BY <2>1, <2>2 DEF Owned
<1>5. CASE line = 0
  <2>1. PromptCycle("ok", FALSE) /\ ran' = ran
    BY <1>5 DEF ReadEnter, Run
  <2> QED BY <1>1, <1>3, <2>1, CycleOutput
<1>6. CASE line # 0
  <2>1. /\ line = press /\ at' = "running" /\ pty' = Append(pty, BeginMark)
        /\ ran' = [ran EXCEPT ![press] = @ + 1] /\ prog' = press
    BY <1>1, <1>3, <1>4, <1>6 DEF ReadEnter, Run
  <2>2. \A c \in Commands : ran'[c] = 0 => ran[c] = 0
    BY <1>3, <2>1, NumbersToo
  <2>3. Is(keys[1], "enter", press)
    BY <1>1, <1>2 DEF Is
  <2> QED BY <1>1, <1>3, <2>1, <2>2, <2>3, RunOutput
<1> QED BY <1>5, <1>6

\* What the prompt command writes when a program has run.
LEMMA EndCycle ==
    ASSUME TypeOK, press # 0, NEW how \in Statuses, PromptCycle(how, TRUE)
    PROVE  pty' = pty \o <<StatusMark(how), PromptMark>>
<1>1. PICK s \in Tokens, u \in Tokens : s = StatusMark(how) /\ u = PromptMark
  BY MarksAre DEF Statuses
<1>2. pty' = pty \o ((<<>> \o <<s>>) \o <<u>>)
  BY <1>1 DEF PromptCycle
<1>3. <<>> \o <<s>> = <<s>>
  <2>1. <<s>> \in Seq(Tokens)
    OBVIOUS
  <2> QED BY <2>1, ConcatEmptySeq
<1>4. <<s>> \o <<u>> = <<s, u>>
  BY TwoTokens
<1> QED BY <1>1, <1>2, <1>3, <1>4

\* A program ends, by itself or not.
LEMMA StopsOutput ==
    ASSUME Remote, RemoteOutput, Remote', Works, UNCHANGED <<printed, ran, prog>>, at = "running", at' = "prompt", press' = 0,
           NEW n, Drops(n), NEW how \in Statuses, PromptCycle(how, TRUE) \/ pty' = Append(pty, PromptMark)
    PROVE  RemoteOutput'
<1>1. press # 0 /\ (active # 0 => x.phase # "prompt")
  BY RunningIs, CommandsAre
<1>2. PICK r \in {<<PromptMark>>, <<StatusMark(how), PromptMark>>} : pty' = pty \o r
  <2>1. CASE PromptCycle(how, TRUE)
    BY <1>1, <2>1, EndCycle DEF Remote
  <2>2. CASE pty' = Append(pty, PromptMark)
    <3>1. pty \in Seq(Tokens) /\ PromptMark \in Tokens
      BY TypesAre, MarksAre DEF Remote, WiresTyped
    <3>2. pty' = pty \o <<PromptMark>>
      BY <2>2, <3>1, AppendIsConcat
    <3> QED BY <3>2
  <2> QED BY <2>1, <2>2
<1>3. \A c \in Commands : Silent(c) => press' # c
  BY CommandsAre
<1> QED BY <1>1, <1>2, <1>3, BashEndsOutput

\* By itself.
LEMMA ProgramEndsOutput ==
    ASSUME Remote, RemoteOutput, Remote', NEW how \in {"ok", "failed"}, ProgramEnds(how)
    PROVE  RemoteOutput'
<1>1. Works /\ UNCHANGED <<printed, ran, prog>> /\ at = "running" /\ at' = "prompt" /\ press' = 0 /\ PromptCycle(how, TRUE)
  BY DEF ProgramEnds, PromptCycle, Works
<1>2. Drops(0)
  BY KeyIs DEF Drops, ProgramEnds, Remote
<1>3. how \in Statuses
  BY DEF Statuses
<1> QED BY <1>1, <1>2, <1>3, StopsOutput

\* By Ctrl+C, which may also find a prompt.
LEMMA ReadInterruptOutput ==
    ASSUME Remote, RemoteOutput, Remote', ReadInterrupt
    PROVE  RemoteOutput'
<1> USE DEF Remote
<1>1. PICK d \in 1..Len(keys) : keys[d][1] = "^C" /\ keys' = SubSeq(keys, d + 1, Len(keys))
  <2>1. DOMAIN keys = 1..Len(keys)
    BY KeyIs
  <2> QED BY <2>1 DEF ReadInterrupt
<1>2. Drops(d) /\ d \in Nat /\ d # 0
  BY <1>1, SuffixDrops
<1>3. Works /\ UNCHANGED <<ran, prog, printed>>
  BY DEF ReadInterrupt, Works
<1>4. "ok" \in Statuses /\ "failed" \in Statuses
  BY DEF Statuses
<1>5. CASE at = "prompt"
  <2>1. PromptCycle("ok", FALSE) /\ at' = "prompt" /\ press' = 0 /\ ended' = ended
    BY <1>5 DEF ReadInterrupt, PromptCycle
  <2>2. CASE press = 0
    <3>1. PICK w, p, r : w = pty /\ p = PromptMark /\ r = <<PromptMark>>
      OBVIOUS
    <3>2. pty' = w \o (<<>> \o <<p>>)
      BY <2>1, <2>2, <3>1 DEF PromptCycle
    <3>3. <<>> \o <<p>> = <<p>>
      <4>1. p \in Tokens
        BY <3>1, MarksAre
      <4>2. <<p>> \in Seq(Tokens)
        BY <4>1
      <4> QED BY <4>2, ConcatEmptySeq
    <3>4. pty' = pty \o r /\ r \in {<<PromptMark>>, <<StatusMark("ok"), PromptMark>>}
      BY <3>1, <3>2, <3>3
    <3>5. \A c \in Commands : Silent(c) => press' # c
      BY <2>1, CommandsAre
    <3>6. active # 0 => x.phase # "prompt" \/ press' # cmd
      BY <2>1, RemoteIs, CommandsAre
    <3> QED BY <1>2, <1>3, <1>4, <2>1, <3>4, <3>5, <3>6, BashEndsOutput
  <2>3. CASE press # 0
    BY <1>2, <1>3, <1>5, <2>1, <2>3, CycleOutput
  <2> QED BY <2>2, <2>3
<1>6. CASE at = "running"
  <2>1. CASE UNCHANGED <<at, press, pty, ended>>
    <3>1. \A i \in 1..Len(keys') : keys'[i][1] \in Orders => \E j \in 1..Len(keys) : keys'[i] = keys[j]
      BY <1>2 DEF Drops
    <3>2. UNCHANGED <<setting, active, x, cmd, step, reported, result, timedOut>> /\ Pressed' = Pressed /\ Pressed \in Nat
      BY <1>3, NumbersAre DEF Works, Pressed
    <3>3. Still
      BY <1>3, <2>1, <3>1, <3>2 DEF Still, Kept
    <3> QED BY <3>3, StillKeeps
  <2>2. CASE ~UNCHANGED <<at, press, pty, ended>>
    <3>1. /\ at' = "prompt" /\ press' = 0
          /\ PromptCycle("failed", TRUE) \/ pty' = Append(pty, PromptMark)
      BY <1>6, <2>2 DEF ReadInterrupt, PromptCycle
    <3> QED BY <1>2, <1>3, <1>4, <1>6, <3>1, StopsOutput
  <2> QED BY <2>1, <2>2
<1> QED BY <1>5, <1>6 DEF ReadInterrupt

\* A program writes a piece.
LEMMA WriteLinuxOutput ==
    ASSUME Remote, RemoteOutput, Remote', WritePieceLinux
    PROVE  RemoteOutput'
<1>1. /\ Works /\ at = "running" /\ at' = "running" /\ UNCHANGED <<shell, keys, ran, ended>> /\ Writes(prog)
      /\ pty' = Append(pty, Piece(prog)) /\ printed' = [printed EXCEPT ![prog] = Append(@, Piece(prog))]
  BY DEF WritePieceLinux, Works
<1>2. /\ prog \in Commands /\ ran[prog] = 1
      /\ active # 0 => Begun /\ prog = cmd /\ x.phase \in {"begin", "capture"}
  BY <1>1, RunningIs
<1>3. PICK c : c = prog
  OBVIOUS
<1>4. c \in Commands /\ ran[c] > 0
  BY <1>2, <1>3
<1>5. PrintedSound'
  BY <1>1, <1>3, <1>4, WrittenSound DEF RemoteOutput, Remote
<1>6. PICK p \in Seq(Tokens), q \in Seq(Tokens) :
              /\ p = printed[c] /\ q = printed'[c] /\ q = Append(p, Piece(c)) /\ Len(p) \in Nat /\ Len(q) = Len(p) + 1
              /\ (\A i \in 1..Len(p) : q[i] = p[i]) /\ q[Len(p) + 1] = Piece(c)
              /\ \A d \in Commands \ {c} : printed'[d] = printed[d]
              /\ \A i \in 1..Len(q) : i \in 1..Len(p) \/ i = Len(p) + 1
  BY <1>1, <1>3, <1>4, WrittenIs DEF Remote
<1>7. \A d \in Commands : printed'[d] = printed[d] \/ Grows(d)
  <2>1. ~Silent(c)
    BY <1>1, <1>3 DEF Silent, Remote
  <2>2. Grows(c)
    BY <1>6, <2>1 DEF Grows
  <2> QED BY <1>6, <2>2
<1>8. PICK t : t = Piece(c)
  OBVIOUS
<1>9. t \in Tokens /\ t[1] \in Pieces /\ t[1] # "end"
  <2>1. t \in Tokens /\ t[1] \in Pieces
    BY <1>1, <1>3, <1>4, <1>8, PieceIs DEF Remote
  <2> QED BY <2>1 DEF Pieces
<1>10. ASSUME active # 0 PROVE LinuxStreamSound'
  <2>1. c = cmd /\ cmd' = cmd /\ pty \in Seq(Tokens) /\ UNCHANGED <<setting, active, x>>
    BY <1>1, <1>2, <1>3, <1>10, RemoteIs DEF Works
  <2>2. PICK r : r = <<t>>
    OBVIOUS
  <2>3. r \in Seq(Tokens)
    BY <1>9, <2>2
  <2>4. Endless(r)
    BY <1>9, <2>2, FewTokens
  <2>5. pty' = pty \o r
    BY <1>1, <1>3, <1>8, <1>9, <2>1, <2>2, AppendIsConcat
  <2>6. ASSUME NEW h \in Nat, Reaches(h)
        PROVE  Extends(printed[cmd], printed'[cmd], h) /\ \E k \in Nat : Copies(printed'[cmd'], cmd', r, h, k) /\ Reaches(k)'
    <3>1. h = Len(p)
      BY <1>1, <1>6, <2>1, <2>6 DEF Reaches
    <3>2. Extends(p, q, h)
      BY <1>6, <3>1 DEF Extends
    <3>3. Moves(q, c, t, h, h + 1) /\ h + 1 \in Nat /\ h <= h + 1
      BY <1>6, <1>8, <1>9, <3>1 DEF Moves
    <3>4. Copies(q, c, <<t>>, h, h + 1)
      BY <3>3, CopiesOne
    <3>5. Copies(printed'[cmd'], cmd', r, h, h + 1)
      BY <1>6, <2>1, <2>2, <3>4
    <3>6. Reaches(h + 1)'
      <4>1. PICK v : v = printed'[cmd']
        OBVIOUS
      <4>2. v = q
        BY <1>6, <2>1, <4>1
      <4>3. Len(v) = h + 1 /\ h + 1 <= h + 1
        BY <1>6, <3>1, <4>2
      <4> QED BY <4>1, <4>3 DEF Reaches
    <3> QED BY <1>6, <2>1, <3>2, <3>3, <3>5, <3>6
  <2>7. ~(x.phase = "begin" /\ Unbegun) /\ x.phase # "prompt"
    BY <1>2, <1>10, RemoteIs
  <2>8. Adds(r)
    BY <1>10, <2>1, <2>4, <2>5, <2>6, <2>7 DEF Adds
  <2> QED BY <2>3, <2>8, RemoteGrows
<1>11. LinuxStreamSound'
  <2>1. active' = active
    BY <1>1 DEF Works
  <2> QED BY <1>10, <2>1 DEF LinuxStreamSound
<1>12. Drops(0)
  BY <1>1, KeyIs DEF Drops, Remote
<1>13. /\ \A d \in Commands : Silent(d) /\ at' = "running" => prog' # d
       /\ \A d \in Commands : Silent(d) /\ at' = "prompt" => press' # d
  BY <1>1 DEF Silent, Remote
<1> QED BY <1>1, <1>5, <1>7, <1>11, <1>12, <1>13, WorksOutput

\* The rest of a sequence behind its first token.
LEMMA TailIs ==
    ASSUME NEW w \in Seq(Tokens), w # <<>>
    PROVE  /\ Tail(w) \in Seq(Tokens) /\ Tail(w) = SubSeq(w, 1 + 1, Len(w)) /\ Len(w) \in Nat /\ Len(Tail(w)) = Len(w) - 1
           /\ 1 \in 1..Len(w) /\ Head(w) = w[1] /\ w[1] \in Tokens
           /\ \A i \in 1..Len(w) - 1 : i + 1 \in 1..Len(w) /\ Tail(w)[i] = w[i + 1]
<1>1. PICK v, u : v = Tail(w) /\ u = SubSeq(w, 1 + 1, Len(w))
  OBVIOUS
<1>2. /\ v \in Seq(Tokens) /\ Len(v) = Len(w) - 1 /\ Len(w) \in Nat /\ Len(w) # 0 /\ Head(w) = w[1]
      /\ \A i \in 1..Len(w) - 1 : v[i] = w[i + 1]
  BY <1>1
<1>3. 1 \in 1..Len(w) /\ 1 \in 0..Len(w)
  BY <1>2
<1>4. u \in Seq(Tokens) /\ Len(u) = Len(w) - 1 /\ \A i \in 1..Len(w) - 1 : u[i] = w[1 + i]
  BY <1>1, <1>3, CutIs
<1>5. \A i \in 1..Len(w) - 1 : i + 1 = 1 + i /\ i + 1 \in 1..Len(w)
  BY <1>2
<1>6. u = v
  <2>1. \A i \in 1..Len(u) : u[i] = v[i]
    BY <1>2, <1>4, <1>5
  <2> QED BY <1>2, <1>4, <2>1, SeqEqual
<1>7. w[1] \in Tokens
  BY <1>3
<1> QED BY <1>1, <1>2, <1>3, <1>5, <1>6, <1>7

\* What stands behind a place that is not the first.
LEMMA TailBehind ==
    ASSUME NEW w \in Seq(Tokens), w # <<>>, NEW m \in 1..Len(w), m # 1
    PROVE  /\ m - 1 \in 1..Len(Tail(w)) /\ Tail(w)[m - 1] = w[m]
           /\ SubSeq(Tail(w), (m - 1) + 1, Len(Tail(w))) = SubSeq(w, m + 1, Len(w))
<1>1. PICK v : v = Tail(w)
  OBVIOUS
<1>2. PICK n : n = m - 1
  OBVIOUS
<1>3. /\ v \in Seq(Tokens) /\ Len(v) = Len(w) - 1 /\ Len(w) \in Nat
      /\ \A i \in 1..Len(w) - 1 : i + 1 \in 1..Len(w) /\ v[i] = w[i + 1]
  BY <1>1, TailIs
<1>4. n \in 1..Len(w) - 1 /\ n + 1 = m /\ n \in 0..Len(v) /\ n \in 1..Len(v) /\ m \in 0..Len(w) /\ Len(v) - n = Len(w) - m
  BY <1>2, <1>3
<1>5. v[n] = w[m]
  BY <1>3, <1>4
<1>6. PICK r, s : r = SubSeq(v, n + 1, Len(v)) /\ s = SubSeq(w, m + 1, Len(w))
  OBVIOUS
<1>7. r \in Seq(Tokens) /\ Len(r) = Len(v) - n /\ \A i \in 1..Len(v) - n : r[i] = v[n + i]
  BY <1>3, <1>4, <1>6, CutIs
<1>8. s \in Seq(Tokens) /\ Len(s) = Len(w) - m /\ \A i \in 1..Len(w) - m : s[i] = w[m + i]
  BY <1>4, <1>6, CutIs
<1>9. \A i \in 1..Len(w) - m : n + i \in 1..Len(w) - 1 /\ (n + i) + 1 = m + i
  BY <1>3, <1>4
<1>10. ASSUME NEW i \in 1..Len(r) PROVE r[i] = s[i]
  <2>1. i \in 1..Len(w) - m /\ i \in 1..Len(v) - n
    BY <1>4, <1>7
  <2>2. r[i] = v[n + i] /\ s[i] = w[m + i]
    BY <1>7, <1>8, <2>1
  <2>3. v[n + i] = w[(n + i) + 1]
    BY <1>3, <1>9, <2>1
  <2> QED BY <1>9, <2>1, <2>2, <2>3
<1>11. r = s
  BY <1>4, <1>7, <1>8, <1>10, SeqEqual
<1> QED BY <1>1, <1>2, <1>4, <1>5, <1>6, <1>11

\* The first token of what is carried.
LEMMA HeadCopies ==
    ASSUME NEW p, NEW c, NEW w \in Seq(Tokens), w # <<>>, NEW a \in Nat, NEW b, Copies(p, c, w, a, b)
    PROVE  \E m \in Nat : a <= m /\ m <= b /\ Moves(p, c, w[1], a, m) /\ Copies(p, c, Tail(w), m, b)
<1>1. 1 \in 1..Len(w) /\ Tail(w) = SubSeq(w, 1 + 1, Len(w))
  BY TailIs
<1>2. PICK k \in Nat, m \in Nat : /\ a <= k /\ k <= m /\ m <= b /\ Moves(p, c, w[1], k, m)
                                  /\ Copies(p, c, SubSeq(w, 1, 1 - 1), a, k) /\ Copies(p, c, SubSeq(w, 1 + 1, Len(w)), m, b)
  BY <1>1, CopiesAt
<1>3. SubSeq(w, 1, 1 - 1) = <<>>
  BY <1>1
<1>4. k = a
  <2>1. Copies(p, c, <<>>, a, k)
    BY <1>2, <1>3
  <2> QED BY <2>1, CopiesNothing
<1> QED BY <1>1, <1>2, <1>4

\* Silence is about what the shell does.
LEMMA SilentRest ==
    ASSUME UNCHANGED <<setting, step, cmd, at, prog, press, keys>>, setting.kind = "linux"
    PROVE  \A c : Silent(c) => Silent(c)'
  BY DEF Silent, Pressed

\* Before BEGIN only prompts of the editor are read, then BEGIN.
LEMMA ReadBeginOutput ==
    ASSUME Remote, RemoteOutput, active # 0, x.phase = "begin", pty # <<>>, pty' = Tail(pty), UNCHANGED <<setting, cmd, at, printed>>
    PROVE  /\ Endless(pty)'
           /\ pty[1] # BeginMark /\ x' = x => BeginSound'
           /\ pty[1] = BeginMark /\ x'.out = x.out => PassSound'
<1>1. PICK p, c, w : p = printed[cmd] /\ c = cmd /\ w = pty
  OBVIOUS
<1>2. w \in Seq(Tokens) /\ Len(p) \in Nat /\ BeginSound /\ Endless(w) /\ w # <<>> /\ pty' = Tail(w)
  BY <1>1, RemoteIs DEF RemoteOutput, LinuxStreamSound
<1>3. /\ Tail(w) \in Seq(Tokens) /\ Tail(w) = SubSeq(w, 1 + 1, Len(w)) /\ Len(Tail(w)) = Len(w) - 1 /\ 1 \in 1..Len(w)
      /\ Len(w) \in Nat /\ \A i \in 1..Len(w) - 1 : i + 1 \in 1..Len(w) /\ Tail(w)[i] = w[i + 1]
  BY <1>2, TailIs
<1>4. Endless(Tail(w))
  BY <1>2, <1>3 DEF Endless
<1>5. ASSUME NEW h \in Nat, Reaches(h) PROVE Reaches(h)'
  BY <1>5 DEF Reaches
<1>6. CASE (\A i \in 1..Len(pty) : pty[i] # BeginMark) /\ printed[cmd] = <<>>
  <2>1. ASSUME x' = x PROVE BeginSound'
    <3>1. \A i \in 1..Len(pty') : pty'[i] # BeginMark
      BY <1>1, <1>2, <1>3, <1>6
    <3>2. printed'[cmd'] = <<>>
      BY <1>6
    <3>3. x'.out = <<>>
      BY <1>2, <2>1 DEF BeginSound
    <3> QED BY <3>1, <3>2, <3>3 DEF BeginSound, BeginMark
  <2>2. pty[1] # BeginMark
    BY <1>1, <1>3, <1>6
  <2> QED BY <1>2, <1>4, <2>1, <2>2
<1>7. ASSUME NEW m \in 1..Len(pty), pty[m] = BeginMark, \A i \in 1..m - 1 : pty[i] = PromptMark,
             NEW h \in Nat, Copies(printed[cmd], cmd, SubSeq(pty, m + 1, Len(pty)), 0, h), Reaches(h)
      PROVE  (pty[1] # BeginMark /\ x' = x => BeginSound') /\ (pty[1] = BeginMark /\ x'.out = x.out => PassSound')
  <2>1. m \in 1..Len(w) /\ m \in Nat /\ w[m] = BeginMark /\ (\A i \in 1..m - 1 : w[i] = PromptMark) /\ Reaches(h)'
        /\ Copies(p, c, SubSeq(w, m + 1, Len(w)), 0, h) /\ x.out = <<>>
    BY <1>1, <1>2, <1>3, <1>5, <1>7 DEF BeginSound
  <2>2. ASSUME pty[1] # BeginMark, x' = x PROVE BeginSound'
    <3>1. m # 1
      BY <1>1, <2>1, <2>2
    <3>2. PICK n : n = m - 1
      OBVIOUS
    <3>3. n \in 1..Len(Tail(w)) /\ Tail(w)[n] = w[m] /\ SubSeq(Tail(w), n + 1, Len(Tail(w))) = SubSeq(w, m + 1, Len(w))
      BY <1>2, <2>1, <3>1, <3>2, TailBehind
    <3>4. \A i \in 1..n - 1 : Tail(w)[i] = PromptMark
      <4>1. \A i \in 1..n - 1 : i \in 1..Len(w) - 1 /\ i + 1 \in 1..m - 1
        BY <1>3, <2>1, <3>2
      <4> QED BY <1>3, <2>1, <4>1
    <3>5. (pty[n] = BeginMark /\ \A i \in 1..n - 1 : pty[i] = PromptMark)'
      BY <1>2, <2>1, <3>3, <3>4 DEF BeginMark, PromptMark
    <3>6. Copies(p, c, SubSeq(Tail(w), n + 1, Len(Tail(w))), 0, h)
      BY <2>1, <3>3
    <3>7. Copies(printed'[cmd'], cmd', SubSeq(pty', n + 1, Len(pty')), 0, h)
      BY <1>1, <1>2, <3>6
    <3>8. x'.out = <<>> /\ n \in 1..Len(pty')
      BY <1>2, <2>1, <2>2, <3>3
    <3> QED BY <2>1, <3>5, <3>7, <3>8 DEF BeginSound
  <2>3. ASSUME pty[1] = BeginMark, x'.out = x.out PROVE PassSound'
    <3>1. m = 1
      <4>1. m # 1 => 1 \in 1..m - 1
        BY <2>1
      <4>2. w[1] # PromptMark
        BY <1>1, <2>3, MarkKinds
      <4> QED BY <2>1, <4>1, <4>2
    <3>2. Copies(p, c, Tail(w), 0, h)
      BY <1>3, <2>1, <3>1
    <3>3. Copies(p, c, <<>>, 0, 0) /\ 0 <= Len(p)
      BY <1>2, CopiesNothing
    <3>4. (0 <= Len(printed[cmd]) /\ Copies(printed[cmd], cmd, x.out, 0, 0) /\ Copies(printed[cmd], cmd, pty, 0, h))'
      BY <1>1, <1>2, <2>1, <2>3, <3>2, <3>3
    <3> QED BY <2>1, <3>4 DEF PassSound
  <2> QED BY <2>2, <2>3
<1>8. Endless(pty)'
  BY <1>2, <1>4
<1> QED BY <1>2, <1>6, <1>7, <1>8 DEF BeginSound

\* A token of the output is read.
LEMMA ReadPassOutput ==
    ASSUME Remote, RemoteOutput, active # 0, x.phase = "capture", pty # <<>>, pty' = Tail(pty), UNCHANGED <<setting, cmd, at, printed>>
    PROVE  /\ Endless(pty)' /\ pty[1] # BeginMark
           /\ \E b \in Nat : b <= Len(printed[cmd]) /\ Copies(printed[cmd], cmd, x.out, 0, b)
           /\ pty[1][1] \in Statuses => Copies(printed[cmd], cmd, x.out, 0, Len(printed[cmd]))
           /\ pty[1] # PromptMark /\ pty[1][1] \notin Statuses /\ x'.out = Append(x.out, pty[1]) => PassSound' /\ Plain(x'.out)
<1>1. PICK p, c, w, s : p = printed[cmd] /\ c = cmd /\ w = pty /\ s = x.out
  OBVIOUS
<1>2. w \in Seq(Tokens) /\ Len(p) \in Nat /\ PassSound /\ Endless(w) /\ w # <<>> /\ pty' = Tail(w) /\ Plain(s) /\ s \in Seq(Tokens)
  BY <1>1, RemoteIs DEF RemoteOutput, LinuxStreamSound, Execution
<1>3. PICK t : t = w[1]
  OBVIOUS
<1>4. /\ Tail(w) \in Seq(Tokens) /\ Len(Tail(w)) = Len(w) - 1 /\ 1 \in 1..Len(w) /\ t \in Tokens
      /\ Len(w) \in Nat /\ \A i \in 1..Len(w) - 1 : i + 1 \in 1..Len(w) /\ Tail(w)[i] = w[i + 1]
  BY <1>2, <1>3, TailIs
<1>5. Endless(Tail(w)) /\ t[1] # "end"
  BY <1>2, <1>3, <1>4 DEF Endless
<1>6. PICK b \in Nat, h \in Nat : b <= Len(p) /\ Copies(p, c, s, 0, b) /\ Copies(p, c, w, b, h) /\ Reaches(h)
  BY <1>1, <1>2 DEF PassSound
<1>7. PICK m \in Nat : b <= m /\ m <= h /\ Moves(p, c, t, b, m) /\ Copies(p, c, Tail(w), m, h)
  BY <1>2, <1>3, <1>6, HeadCopies
<1>8. t # BeginMark
  BY <1>7 DEF Moves, BeginMark, Pieces
<1>9. ASSUME t[1] \in Statuses PROVE b = Len(p)
  BY <1>2, <1>6, <1>7, <1>9 DEF Moves, Pieces, Statuses
<1>10. ASSUME t # PromptMark, t[1] \notin Statuses, x'.out = Append(s, t) PROVE PassSound' /\ Plain(x'.out)
  <2>1. t[1] \notin {"end", "ok", "failed"} /\ t # <<"prompt", 0>>
    BY <1>5, <1>10 DEF Statuses, PromptMark
  <2>2. m <= Len(p)
    BY <1>2, <1>5, <1>6, <1>7, <2>1 DEF Moves
  <2>3. Copies(p, c, Append(s, t), 0, m)
    BY <1>2, <1>4, <1>6, <1>7, CopiesMore
  <2>4. Plain(Append(s, t))
    <3>1. PICK r : r = Append(s, t)
      OBVIOUS
    <3>2. /\ Len(r) = Len(s) + 1 /\ Len(s) \in Nat /\ r[Len(s) + 1] = t
          /\ \A i \in 1..Len(s) : r[i] = s[i]
      BY <1>2, <1>4, <3>1
    <3>3. \A i \in 1..Len(r) : i \in 1..Len(s) \/ i = Len(s) + 1
      BY <3>2
    <3>4. Plain(r)
      BY <1>2, <2>1, <3>2, <3>3 DEF Plain
    <3> QED BY <3>1, <3>4
  <2>5. Reaches(h)'
    BY <1>6 DEF Reaches
  <2>6. (m <= Len(printed[cmd]) /\ Copies(printed[cmd], cmd, x.out, 0, m) /\ Copies(printed[cmd], cmd, pty, m, h))'
    BY <1>1, <1>2, <1>7, <1>10, <2>2, <2>3
  <2>7. PassSound'
    BY <2>5, <2>6 DEF PassSound
  <2> QED BY <1>10, <2>4, <2>7
<1>11. Endless(pty)' /\ pty[1] = t
  BY <1>1, <1>2, <1>3, <1>5
<1> QED BY <1>1, <1>6, <1>8, <1>9, <1>10, <1>11

\* What the reader does with it.
LEMMA TakeOutput ==
    ASSUME Remote, RemoteOutput, Remote', pty # <<>>, pty' = Tail(pty),
           UNCHANGED <<setting, client, executing, flagged, cancel, shell, keys, ctl, frame, session, answers, history>>,
           LinuxStreamSound', active' # 0 \/ RecordSound' \/ x' = x
    PROVE  RemoteOutput'
<1>1. UNCHANGED <<setting, step, cmd, at, prog, press, keys, ran, printed, reported, timedOut, result>>
  OBVIOUS
<1>2. \A c \in Commands : Silent(c) => Silent(c)'
  BY <1>1, SilentRest DEF Remote
<1>3. PrintedSound'
  BY <1>1, PrintedRest DEF RemoteOutput
<1>4. \A c \in Commands : Told(c)' => Told(c)
  BY <1>1 DEF Told
<1>5. Kept' => Kept
  BY <1>1 DEF Kept
<1> QED BY <1>1, <1>2, <1>3, <1>4, <1>5, RemoteMoves

\* When its status is read, the program has ended.
LEMMA StatusSilent ==
    ASSUME Remote, active # 0, x.phase = "capture", 1 \in 1..Len(pty), pty[1][1] \in Statuses
    PROVE  Silent(cmd)
<1> USE DEF Remote, LinuxInv
<1>1. Begun /\ cmd \in Nat /\ cmd # 0
  BY NumbersAre DEF Begun
<1>2. NoOrder /\ (at = "prompt" => press = 0) /\ step = "waiting"
  BY <1>1 DEF PhaseSound, Common, ClientSound, Kept
<1>3. at # "running"
  BY RunningIs
<1>4. cmd <= Pressed
  BY <1>1, <1>2 DEF Pressed
<1> QED BY <1>1, <1>2, <1>3, <1>4 DEF Silent, NoOrder

\* A record that is open, and the token it gets.
LEMMA LinuxReceives ==
    ASSUME Remote, ReceiveLinux, active # 0, NEW y, y = StepLinux(x, pty[1])
    PROVE  IF y.done THEN active' = 0 /\ x' = [y EXCEPT !.done = TRUE] ELSE active' = active /\ x' = y
<1>1. Head(pty) = pty[1]
  <2>1. pty \in Seq(Tokens) /\ pty # <<>>
    BY TypesAre DEF Remote, WiresTyped, ReceiveLinux
  <2> QED BY <2>1, TailIs
<1> QED BY <1>1 DEF ReceiveLinux, Complete

\* Before BEGIN.
LEMMA ReceiveBegin ==
    ASSUME Remote, RemoteOutput, Remote', ReceiveLinux, active # 0, x.phase = "begin"
    PROVE  RemoteOutput'
<1>1. /\ pty # <<>> /\ pty' = Tail(pty) /\ x \in Execution /\ ~x.done /\ Plain(x.out)
      /\ UNCHANGED <<setting, client, executing, flagged, cancel, shell, keys, ctl, frame, session, answers, history>>
  BY RemoteIs DEF ReceiveLinux, Remote, Common, ClientSound, RemoteOutput, LinuxStreamSound
<1>2. PICK y : y = StepLinux(x, pty[1])
  OBVIOUS
<1>3. y = IF pty[1] = BeginMark THEN [x EXCEPT !.phase = "capture"] ELSE x
  BY <1>2 DEF StepLinux, AwaitBegin
<1>4. y.done = x.done /\ y.out = x.out /\ y.phase = IF pty[1] = BeginMark THEN "capture" ELSE "begin"
  BY <1>1, <1>3 DEF Execution
<1>5. active' = active /\ x' = y
  BY <1>1, <1>2, <1>4, LinuxReceives
<1>6. /\ Endless(pty)'
      /\ pty[1] # BeginMark /\ x' = x => BeginSound'
      /\ pty[1] = BeginMark /\ x'.out = x.out => PassSound'
  BY <1>1, ReadBeginOutput
<1>7. x'.out = x.out /\ (x'.phase = "begin" => pty[1] # BeginMark /\ x' = x) /\ (x'.phase = "capture" => pty[1] = BeginMark)
      /\ x'.phase # "prompt"
  BY <1>3, <1>4, <1>5
<1>8. Plain(x.out)'
  BY <1>1, <1>7
<1>9. LinuxStreamSound'
  BY <1>6, <1>7, <1>8 DEF LinuxStreamSound
<1>10. active' # 0
  BY <1>5
<1> QED BY <1>1, <1>9, <1>10, TakeOutput

\* What a record that is done is left with.
LEMMA DoneOutput ==
    ASSUME Remote, RemoteOutput, Remote', pty # <<>>, pty' = Tail(pty), active' = 0,
           UNCHANGED <<setting, client, executing, flagged, cancel, shell, keys, ctl, frame, session, answers, history>>,
           x'.out = x.out, Plain(x.out), NEW b \in Nat, b <= Len(printed[cmd]), Copies(printed[cmd], cmd, x.out, 0, b),
           x'.status \notin Statuses \/ (b = Len(printed[cmd]) /\ Silent(cmd)), Len(printed[cmd]) \in Nat
    PROVE  RemoteOutput'
<1>1. PICK p, c, s : p = printed[cmd] /\ c = cmd /\ s = x.out
  OBVIOUS
<1>2. Copies(p, c, s, 0, b) /\ b <= Len(p) /\ Plain(s) /\ Len(p) \in Nat
  BY <1>1
<1>3. s = x'.out /\ c = cmd' /\ p = printed'[cmd'] /\ setting' = setting
  BY <1>1
<1>4. x'.status \in Statuses => b = Len(p) /\ Silent(c)'
  <2>1. Silent(c) => Silent(c)'
    BY SilentRest DEF Remote
  <2>2. Silent(cmd) => Silent(c)
    BY <1>1
  <2> QED BY <1>1, <2>1, <2>2
<1>5. MayLose(p, c, 0)'
  <2>1. 0 <= Len(p) /\ \A j \in 1..0 : FALSE
    BY <1>2
  <2> QED BY <2>1 DEF MayLose
<1>6. Silent(c)' => Silent(cmd)'
  BY <1>3
<1>7. MayLose(printed[cmd], cmd, 0)'
  <2>1. p' = p /\ c' = c
    OBVIOUS
  <2> QED BY <1>3, <1>5, <2>1 DEF MayLose
<1>8. OutcomeSound(x.out, cmd, 0, b, x.done /\ x.status \in Statuses)'
  <2>1. (Copies(printed[cmd], cmd, x.out, 0, b) /\ Plain(x.out) /\ b <= Len(printed[cmd]))'
    BY <1>2, <1>3
  <2>2. x'.done /\ x'.status \in Statuses => b = Len(printed'[cmd']) /\ Silent(cmd)'
    BY <1>3, <1>4, <1>6
  <2> QED BY <1>7, <2>1, <2>2 DEF OutcomeSound
<1>9. RecordSound'
  <2>1. 0 \in Nat
    OBVIOUS
  <2> QED BY <1>8, <2>1 DEF RecordSound
<1>10. LinuxStreamSound'
  BY DEF LinuxStreamSound
<1> QED BY <1>9, <1>10, TakeOutput

\* The output.
LEMMA ReceivePass ==
    ASSUME Remote, RemoteOutput, Remote', ReceiveLinux, active # 0, x.phase = "capture"
    PROVE  RemoteOutput'
<1>1. /\ pty # <<>> /\ pty' = Tail(pty) /\ x \in Execution /\ ~x.done /\ Plain(x.out)
      /\ UNCHANGED <<setting, client, executing, flagged, cancel, shell, keys, ctl, frame, session, answers, history>>
  BY RemoteIs DEF ReceiveLinux, Remote, Common, ClientSound, RemoteOutput, LinuxStreamSound
<1>2. PICK t : t = pty[1]
  OBVIOUS
<1>3. t \in Tokens /\ 1 \in 1..Len(pty)
  <2>1. pty \in Seq(Tokens)
    BY TypesAre DEF Remote, WiresTyped
  <2> QED BY <1>1, <1>2, <2>1, TailIs
<1>4. PICK y : y = StepLinux(x, pty[1])
  OBVIOUS
<1>5. y = CaptureLinux(x, t)
  BY <1>2, <1>4 DEF StepLinux
<1>6. /\ Endless(pty)' /\ t # BeginMark
      /\ \E b \in Nat : b <= Len(printed[cmd]) /\ Copies(printed[cmd], cmd, x.out, 0, b)
      /\ t[1] \in Statuses => Copies(printed[cmd], cmd, x.out, 0, Len(printed[cmd]))
      /\ t # PromptMark /\ t[1] \notin Statuses /\ x'.out = Append(x.out, t) => PassSound' /\ Plain(x'.out)
  BY <1>1, <1>2, ReadPassOutput
<1>7. CASE t = PromptMark
  <2>1. y = [[x EXCEPT !.status = IF flagged THEN "cancelled" ELSE "error"] EXCEPT !.done = TRUE]
    BY <1>5, <1>6, <1>7 DEF CaptureLinux, StatusOf
  <2>2. y.done = TRUE /\ y.out = x.out /\ y.status \notin Statuses
    BY <1>1, <2>1 DEF Execution, Statuses
  <2>3. active' = 0 /\ x' = [y EXCEPT !.done = TRUE]
    BY <1>4, <2>2, LinuxReceives
  <2>4. y \in Execution
    BY <1>1, <2>1, ExecutionsAre DEF Execution, Ends
  <2>5. x'.out = x.out /\ x'.status \notin Statuses
    BY <2>2, <2>3, <2>4 DEF Execution
  <2>6. PICK b \in Nat : b <= Len(printed[cmd]) /\ Copies(printed[cmd], cmd, x.out, 0, b)
    BY <1>6
  <2>7. Len(printed[cmd]) \in Nat
    BY RemoteIs
  <2> QED BY <1>1, <2>3, <2>5, <2>6, <2>7, DoneOutput
<1>8. CASE t[1] \in Statuses
  <2>1. y = [[x EXCEPT !.status = IF flagged THEN "cancelled" ELSE t[1]] EXCEPT !.phase = "prompt"]
    BY <1>5, <1>6, <1>8, MarkKinds DEF CaptureLinux, StatusOf, Statuses
  <2>2. y.done = x.done /\ y.out = x.out /\ y.phase = "prompt"
    BY <1>1, <2>1 DEF Execution
  <2>3. active' = active /\ x' = y
    BY <1>1, <1>4, <2>2, LinuxReceives
  <2>4. Silent(cmd)
    BY <1>2, <1>3, <1>8, StatusSilent
  <2>5. Silent(cmd)'
    <3>1. PICK c : c = cmd
      OBVIOUS
    <3>2. Silent(c) => Silent(c)'
      BY <1>1, SilentRest DEF Remote
    <3>3. Silent(c)'
      BY <2>4, <3>1, <3>2
    <3> QED BY <1>1, <3>1, <3>3
  <2>6. Copies(printed[cmd], cmd, x.out, 0, Len(printed[cmd]))'
    <3>1. PICK p, c, s : p = printed[cmd] /\ c = cmd /\ s = x.out
      OBVIOUS
    <3>2. Copies(p, c, s, 0, Len(p))
      BY <1>6, <1>8, <3>1
    <3>3. p = printed'[cmd'] /\ c = cmd' /\ s = x'.out
      BY <1>1, <2>2, <2>3, <3>1
    <3> QED BY <3>2, <3>3
  <2>7. Plain(x.out)'
    BY <1>1, <2>2, <2>3
  <2>8. x'.phase = "prompt"
    BY <2>2, <2>3
  <2>9. LinuxStreamSound'
    BY <1>6, <2>5, <2>6, <2>7, <2>8 DEF LinuxStreamSound
  <2>10. active' # 0
    BY <2>3
  <2> QED BY <1>1, <2>9, <2>10, TakeOutput
<1>9. CASE t # PromptMark /\ t[1] \notin Statuses
  <2>1. y = [x EXCEPT !.out = Append(@, t)]
    BY <1>5, <1>6, <1>9 DEF CaptureLinux, Statuses
  <2>2. y.done = x.done /\ y.out = Append(x.out, t) /\ y.phase = "capture"
    BY <1>1, <2>1 DEF Execution
  <2>3. active' = active /\ x' = y
    BY <1>1, <1>4, <2>2, LinuxReceives
  <2>4. PassSound' /\ Plain(x'.out) /\ x'.phase = "capture"
    BY <1>6, <1>9, <2>2, <2>3
  <2>5. LinuxStreamSound'
    BY <1>6, <2>4 DEF LinuxStreamSound
  <2>6. active' # 0
    BY <2>3
  <2> QED BY <1>1, <2>5, <2>6, TakeOutput
<1> QED BY <1>7, <1>8, <1>9

\* The prompt that ends it.
LEMMA ReceivePrompt ==
    ASSUME Remote, RemoteOutput, Remote', ReceiveLinux, active # 0, x.phase = "prompt"
    PROVE  RemoteOutput'
<1>1. /\ pty # <<>> /\ pty' = Tail(pty) /\ x \in Execution /\ Plain(x.out) /\ Len(printed[cmd]) \in Nat /\ pty \in Seq(Tokens)
      /\ UNCHANGED <<setting, client, executing, flagged, cancel, shell, keys, ctl, frame, session, answers, history>>
      /\ Silent(cmd) /\ Copies(printed[cmd], cmd, x.out, 0, Len(printed[cmd]))
  BY RemoteIs DEF ReceiveLinux, RemoteOutput, LinuxStreamSound
<1>2. pty[1] = PromptMark
  <2>1. 1 \in 1..Len(pty)
    BY <1>1, TailIs
  <2> QED BY <2>1 DEF Remote, LinuxInv, MarksSound, OnlyPrompts
<1>3. PICK y : y = StepLinux(x, pty[1])
  OBVIOUS
<1>4. y = [x EXCEPT !.done = TRUE]
  BY <1>2, <1>3 DEF StepLinux, AwaitPrompt
<1>5. y.done = TRUE /\ y.out = x.out
  BY <1>1, <1>4 DEF Execution
<1>6. active' = 0 /\ x' = [y EXCEPT !.done = TRUE]
  BY <1>3, <1>5, LinuxReceives
<1>7. x'.out = x.out
  BY <1>1, <1>4, <1>6 DEF Execution
<1>8. Len(printed[cmd]) <= Len(printed[cmd])
  BY <1>1
<1> QED BY <1>1, <1>6, <1>7, <1>8, DoneOutput

\* All a reader may do.
LEMMA ReceiveLinuxOutput ==
    ASSUME Remote, RemoteOutput, Remote', ReceiveLinux
    PROVE  RemoteOutput'
<1>1. CASE active = 0
  <2>1. /\ pty # <<>> /\ pty' = Tail(pty) /\ x' = x /\ active' = 0
        /\ UNCHANGED <<setting, client, executing, flagged, cancel, shell, keys, ctl, frame, session, answers, history>>
    BY <1>1 DEF ReceiveLinux
  <2>2. LinuxStreamSound'
    BY <2>1 DEF LinuxStreamSound
  <2> QED BY <2>1, <2>2, TakeOutput
<1>2. CASE active # 0
  <2>1. x.phase \in {"begin", "capture", "prompt"}
    BY <1>2 DEF Remote, LinuxInv, PhaseSound
  <2> QED BY <1>2, <2>1, ReceiveBegin, ReceivePass, ReceivePrompt
<1> QED BY <1>1, <1>2

\* A record is installed.
LEMMA InstallLinuxOutput ==
    ASSUME Remote, RemoteOutput, Remote', Install("begin")
    PROVE  RemoteOutput'
<1> USE DEF Remote, LinuxInv, Common
<1>1. /\ step = "prepared" /\ at # "dead" /\ active' = cmd /\ x' = NewExecution("begin") /\ step' = "installed"
      /\ UNCHANGED <<setting, cmd, retyped, cancel, shell, wires, links, answers, printed, ran, ended, disturbed, timedOut>>
  BY DEF Install, Alive
<1>2. cmd \in Commands /\ cmd \in Nat /\ cmd # 0 /\ Pressed = cmd - 1 /\ Pressed' = cmd - 1 /\ Pressed \in Nat /\ Pressed <= Pressed'
  BY <1>1, NumbersAre DEF ClientSound, Pressed
<1>3. OnlyPrompts /\ NoOrder
  BY <1>1 DEF PhaseSound, Settled, Quiet
<1>4. printed[cmd] = <<>>
  <2>1. ran[cmd] \in Nat
    BY <1>2, NumbersToo
  <2>2. ~(ran[cmd] > 0)
    BY <1>2 DEF ResultsSound
  <2> QED BY <1>2, <2>1, <2>2 DEF RemoteOutput, PrintedSound
<1>5. x'.out = <<>> /\ x'.phase = "begin"
  BY <1>1 DEF NewExecution
<1>6. LinuxStreamSound'
  <2>1. Plain(x'.out)
    BY <1>5, FewTokens
  <2>2. \A i \in 1..Len(pty') : pty'[i] = PromptMark
    BY <1>1, <1>3 DEF OnlyPrompts
  <2>3. PromptMark # BeginMark /\ PromptMark[1] # "end"
    BY MarkKinds
  <2>4. Endless(pty)'
    BY <2>2, <2>3 DEF Endless
  <2>5. \A i \in 1..Len(pty') : pty'[i] # BeginMark
    BY <2>2, <2>3
  <2>6. printed'[cmd'] = <<>>
    BY <1>1, <1>4
  <2>7. BeginSound'
    BY <1>5, <2>5, <2>6 DEF BeginSound, BeginMark
  <2> QED BY <1>5, <2>1, <2>4, <2>7 DEF LinuxStreamSound
<1>7. ASSUME NEW c \in Commands, Silent(c) PROVE Silent(c)'
  <2>1. (at' = "running" => prog' # c) /\ (at' = "prompt" => press' # c)
    BY <1>1, <1>7 DEF Silent
  <2> QED BY <1>1, <1>2, <1>7, <2>1, SilentStays
<1>8. PrintedSound'
  BY <1>1, PrintedRest DEF RemoteOutput
<1>9. \A c \in Commands : Told(c)' => Told(c)
  BY <1>1 DEF Told
<1>10. active' # 0
  BY <1>1, <1>2
<1> QED BY <1>1, <1>6, <1>7, <1>8, <1>9, <1>10, RemoteMoves

\* Every step of the Linux session keeps its output sound.
LEMMA LinuxOutput ==
    ASSUME Remote, RemoteOutput, LinuxNext, Remote'
    PROVE  RemoteOutput'
<1>1. CASE LinuxHost
  BY <1>1, StillOutput, InstallLinuxOutput, RemoteReturn, ReceiveLinuxOutput, FailOutput DEF LinuxHost
<1>2. CASE Bash
  BY <1>2, ReadTextOutput, ReadEnterOutput, ReadInterruptOutput DEF Bash
<1>3. CASE Abandon \/ WritePieceLinux
  BY <1>3, RemoteReturn, WriteLinuxOutput
<1>4. CASE Flag \/ CloseBegins \/ ChannelLost
  BY <1>4, StillOutput, FailOutput
<1>5. CASE \E how \in {"ok", "failed"} : ProgramEnds(how)
  BY <1>5, ProgramEndsOutput
<1> QED BY <1>1, <1>2, <1>3, <1>4, <1>5 DEF LinuxNext

-----------------------------------------------------------------------------
(* What both sessions keep true of the output.                                *)

\* It holds when a session begins.
LEMMA StartsTrue == Init => OutputInv
<1> SUFFICES ASSUME Init PROVE OutputInv
  OBVIOUS
<1> USE DEF Init
<1>1. Len(keys) = 0 /\ Len(pty) = 0 /\ Len(frame) = 0 /\ \A c \in Commands : Len(printed[c]) = 0
  OBVIOUS
<1>2. PrintedSound
  BY <1>1 DEF PrintedSound
<1>3. ReportedSound
  <2>1. ASSUME NEW c \in Commands PROVE OutcomeSound(reported[c], c, 0, 0, Told(c))
    <3>1. reported[c] = <<>> /\ ~Told(c) /\ 0 <= Len(printed[c])
      BY <1>1 DEF Told
    <3>2. Copies(printed[c], c, reported[c], 0, 0)
      BY <3>1, CopiesNothing
    <3>3. Plain(reported[c])
      BY <3>1, FewTokens
    <3> QED BY <3>1, <3>2, <3>3 DEF OutcomeSound
  <2>2. 0 \in Nat
    OBVIOUS
  <2> QED BY <2>1, <2>2 DEF ReportedSound
<1>4. RecordSound
  BY DEF RecordSound, Kept
<1>5. EndsOnce
  BY <1>1 DEF EndsOnce, Under
<1>6. WiresSound
  BY FewTokens DEF WiresSound
<1>7. StreamSound /\ LinuxStreamSound
  BY DEF StreamSound, LinuxStreamSound
<1> QED BY <1>2, <1>3, <1>4, <1>5, <1>6, <1>7 DEF OutputInv

\* And is kept when nothing happens.
LEMMA StutterTrue == ASSUME OutputInv, UNCHANGED vars PROVE OutputInv'
<1>1. \A c : (Silent(c) <=> Silent(c)')
  BY DEF Silent, Pressed
<1>2. PrintedSound'
  BY DEF OutputInv, PrintedSound
<1>3. ReportedSound'
  BY <1>1 DEF OutputInv, ReportedSound, OutcomeSound, MayLose, Told
<1>4. RecordSound'
  BY <1>1 DEF OutputInv, RecordSound, OutcomeSound, MayLose, Kept
<1>5. EndsOnce <=> EndsOnce'
  BY DEF EndsOnce, Pressed, Runs
<1>6. WiresSound <=> WiresSound'
  BY DEF WiresSound, Wired, Pressed
<1>7. StreamSound <=> StreamSound'
  BY DEF StreamSound, FencesSound, WaitSound, CaptureSound, DrainSound, Started, FrameSound, Runs, Captured, Drained, MayLose
<1>8. LinuxStreamSound <=> LinuxStreamSound'
  BY <1>1 DEF LinuxStreamSound, BeginSound, PassSound, Reaches, BeginMark, PromptMark
<1> QED BY <1>2, <1>3, <1>4, <1>5, <1>6, <1>7, <1>8 DEF OutputInv

\* Every step keeps it.
LEMMA StaysTrue == ASSUME SessionsInv, OutputInv, [Next]_vars PROVE OutputInv'
<1>1. SessionsInv' /\ setting' = setting
  BY StaysSound, SettingKept
<1>2. CASE PowerShellNext
  <2>1. Prompted /\ setting.kind = "powershell"
    BY <1>2 DEF SessionsInv, Prompted, PowerShellNext
  <2>2. Prompted'
    BY <1>1, <2>1 DEF SessionsInv, Prompted
  <2>3. PromptedOutput
    BY <2>1 DEF OutputInv, PromptedOutput
  <2>4. PromptedOutput'
    BY <1>2, <2>1, <2>2, <2>3, PowerShellOutput
  <2> QED BY <1>1, <2>1, <2>4 DEF OutputInv, PromptedOutput
<1>3. CASE LinuxNext
  <2>1. Remote /\ setting.kind = "linux"
    BY <1>3 DEF SessionsInv, Remote, LinuxNext
  <2>2. Remote'
    BY <1>1, <2>1 DEF SessionsInv, Remote
  <2>3. RemoteOutput
    BY <2>1 DEF OutputInv, RemoteOutput
  <2>4. RemoteOutput'
    BY <1>3, <2>1, <2>2, <2>3, LinuxOutput
  <2> QED BY <1>1, <2>1, <2>4 DEF OutputInv, RemoteOutput
<1>4. CASE UNCHANGED vars
  BY <1>4, StutterTrue
<1> QED BY <1>2, <1>3, <1>4 DEF Next

\* What was reported as output is what it says.
LEMMA ReportedIsTrue == ASSUME SessionsInv, OutputInv PROVE OutputIsTrue
<1>1. ASSUME NEW c \in Commands
      PROVE  \E p \in Seq(Tokens), s \in Seq(Tokens), a \in Nat, b \in Nat :
                p = printed[c] /\ s = reported[c] /\ Copies(p, c, s, a, b) /\ Plain(s) /\ Len(p) \in Nat /\ Len(s) \in Nat
                /\ (b <= Len(p) \/ c \in timedOut) /\ (Told(c) /\ c \notin timedOut => b = Len(p) /\ MayLose(p, c, a))
                /\ \A j \in 1..Len(p) : p[j][2] = c
  <2>1. PICK p, s : p = printed[c] /\ s = reported[c]
    OBVIOUS
  <2>2. p \in Seq(Tokens) /\ s \in Seq(Tokens)
    BY <2>1, TypesAre DEF SessionsInv, ResultTyped
  <2>3. PICK a \in Nat, b \in Nat : OutcomeSound(reported[c], c, a, b, Told(c))
    BY DEF OutputInv, ReportedSound
  <2>4. /\ Copies(p, c, s, a, b) /\ Plain(s) /\ (b <= Len(p) \/ c \in timedOut)
        /\ (Told(c) /\ c \notin timedOut => b = Len(p) /\ MayLose(p, c, a))
    BY <2>1, <2>3 DEF OutcomeSound
  <2>5. \A j \in 1..Len(p) : p[j][2] = c
    BY <2>1 DEF OutputInv, PrintedSound
  <2>6. Len(p) \in Nat /\ Len(s) \in Nat
    BY <2>2
  <2> QED BY <2>1, <2>2, <2>4, <2>5, <2>6
<1>2. ASSUME NEW c \in Commands
      PROVE  /\ \A i \in DOMAIN reported[c] : reported[c][i] \in Texts \X {c} \/ (reported[c][i] = Prompt /\ c \in timedOut)
             /\ \E i \in 1..Len(printed[c]) + 1, j \in 0..Len(printed[c]) : Lines(reported[c]) = SubSeq(printed[c], i, j)
             /\ Told(c) /\ c \notin timedOut =>
                  \E i \in 0..Len(printed[c]) :
                     /\ Lines(reported[c]) = SubSeq(printed[c], i + 1, Len(printed[c]))
                     /\ (i > 0 /\ printed[c][i] = <<"stem", c>>) \/ (\A j \in 1..i : printed[c][j] # <<"line", c>>)
                     /\ setting.kind = "linux" => i = 0
  <2>1. PICK p \in Seq(Tokens), s \in Seq(Tokens), a \in Nat, b \in Nat :
                p = printed[c] /\ s = reported[c] /\ Copies(p, c, s, a, b) /\ Plain(s) /\ Len(p) \in Nat /\ Len(s) \in Nat
                /\ (b <= Len(p) \/ c \in timedOut) /\ (Told(c) /\ c \notin timedOut => b = Len(p) /\ MayLose(p, c, a))
                /\ \A j \in 1..Len(p) : p[j][2] = c
    BY <1>1
  <2>8. Copies(p, c, s, a, b)
    BY <2>1
  <2>2. PICK i, j \in 0..Len(p) :
              /\ Lines(s) = SubSeq(p, i + 1, j)
              /\ a <= Len(p) => i = a
              /\ b <= Len(p) => j = b
    BY <2>8, LinesIs
  <2>3. ASSUME NEW k \in 1..Len(s) PROVE s[k] \in Texts \X {c} \/ (s[k] = Prompt /\ c \in timedOut)
    <3>1. \/ s[k] \in {<<"echo", c>>, <<"end", c>>, <<"ok", 0>>, <<"failed", 0>>, <<"prompt", 0>>}
          \/ s[k][1] \in Pieces /\ \E j2 \in 1..Len(p) : s[k] = p[j2]
      BY <2>1, CopiesKinds
    <3>2. PICK t \in Tokens : t = s[k]
      BY <2>1
    <3>3. t[1] \notin {"end", "ok", "failed"}
      BY <2>1, <3>2 DEF Plain
    <3>4. CASE t = <<"echo", c>>
      BY <3>2, <3>4 DEF Texts
    <3>5. CASE t = <<"prompt", 0>>
      <4>1. s[k][1] \in {"ok", "failed", "prompt"}
        BY <3>2, <3>5
      <4>2. Len(p) \in Nat
        BY <2>1
      <4>3. Len(p) < b
        BY <2>8, <4>1, <4>2, CopiesPrompted
      <4> QED BY <2>1, <3>2, <3>5, <4>2, <4>3 DEF Prompt
    <3>6. CASE t[1] \in Pieces /\ t[2] = c
      BY <3>2, <3>6, TokenPair DEF Texts
    <3> QED BY <2>1, <3>1, <3>2, <3>3, <3>4, <3>5, <3>6
  <2>4. DOMAIN s = 1..Len(s)
    BY <2>1
  <2>5. i + 1 \in 1..Len(p) + 1
    BY <2>1
  <2>6. ASSUME Told(c), c \notin timedOut
        PROVE  /\ Lines(s) = SubSeq(p, i + 1, Len(p))
               /\ (i > 0 /\ p[i] = <<"stem", c>>) \/ (\A j2 \in 1..i : p[j2] # <<"line", c>>)
               /\ setting.kind = "linux" => i = 0
    <3>1. b = Len(p) /\ MayLose(p, c, a) /\ i = a /\ j = Len(p)
      BY <2>1, <2>2, <2>6 DEF MayLose
    <3> QED BY <2>2, <3>1 DEF MayLose
  <2>7. \A k \in DOMAIN s : s[k] \in Texts \X {c} \/ (s[k] = Prompt /\ c \in timedOut)
    BY <2>3, <2>4
  <2> QED BY <2>1, <2>2, <2>5, <2>6, <2>7
<1>3. OutputIsOwn
  BY <1>2 DEF OutputIsOwn
<1>4. OutputIsKept
  BY <1>2 DEF OutputIsKept
<1> QED BY <1>3, <1>4 DEF OutputIsTrue

\* Whatever is reported as the output of a command is its own.
THEOREM OutputStaysTrue == FairSpec => []OutputIsTrue
<1>1. Init => OutputInv
  BY StartsTrue
<1>2. SessionsInv /\ OutputInv /\ [Next]_vars => OutputInv'
  BY StaysTrue
<1>3. SessionsInv /\ OutputInv => OutputIsTrue
  BY ReportedIsTrue
<1>4. Spec => []OutputIsTrue
  BY <1>1, <1>2, <1>3, SessionsAreSound, PTL DEF Spec
<1> QED BY <1>4, PTL DEF FairSpec
=============================================================================
