---------------------------- MODULE ChunkingProofs ----------------------------
(* The chunkers of the incremental index, for texts of any lines and length,   *)
(* any limit of lines and any overlap: every line that means something is in a *)
(* draft, and but for one known case in no other; a file is refused only for   *)
(* the head of a Python class that an empty line follows, or for a fence that  *)
(* is never closed; a draft repeats lines only of the one it was cut off from; *)
(* and the headings and symbols it names are its own.  One part for each kind  *)
(* of text, then the overlap, then the steps that read and cut a file.         *)
EXTENDS IndexServicesProofs

-----------------------------------------------------------------------------
(* Orders, and the least and the greatest line.                                *)

\* Orders of the chunkers are those of the search.
LEMMA InOrderIs ==
    ASSUME NEW S, IsFiniteSet(S), NEW order, IsOrder(order, S)
    PROVE  \E s \in Seq(S) :
              /\ s = Cutting!InOrder(S, order) /\ Len(s) = Cardinality(S)
              /\ Distinct(s) /\ (\A x \in S : \E i \in 1..Len(s) : s[i] = x)
              /\ \A i, j \in 1..Len(s) : <<s[i], s[j]>> \in order => i < j
<1>1. Cutting!InOrder(S, order) = Search!Sorted(S, order)
  BY DEF Cutting!InOrder, Search!Sorted, Cutting!Cardinality, Search!Cardinality
<1>2. PICK s : s = Search!Sorted(S, order)
  OBVIOUS
<1>3. /\ s \in Seq(S) /\ Len(s) = Cardinality(S) /\ Distinct(s) /\ Search!Elements(s) = S
      /\ \A i, j \in 1..Len(s) : <<s[i], s[j]>> \in order => i < j
  BY <1>2, SortedIs
<1> QED BY <1>1, <1>2, <1>3 DEF Search!Elements

\* Parts of a text of n lines begin in different lines.
Begins(P, n) ==
    /\ \A p \in P : p.from \in 1..n
    /\ \A p, q \in P : p.from = q.from => p = q

\* Parts that begin in different lines are finitely many.
LEMMA PartsAreFinite ==
    ASSUME NEW P, NEW n \in Nat, Begins(P, n)
    PROVE  IsFiniteSet(P)
<1> DEFINE f == [p \in P |-> p.from]
<1>1. f \in Injection(P, 1..n)
  BY DEF Injection, IsInjective, Begins
<1>2. IsFiniteSet(1..n)
  BY FS_Interval
<1> QED BY <1>1, <1>2, FS_Injection

\* d lists parts in the order of their first lines.
Lists(d, P) ==
    /\ d \in Seq(P) /\ Distinct(d)
    /\ \A p \in P : \E n \in 1..Len(d) : d[n] = p
    /\ \A m, n \in 1..Len(d) : d[m].from < d[n].from => m < n

\* The parts of a text in order.
LEMMA PartsInOrder ==
    ASSUME NEW P, NEW n \in Nat, Begins(P, n), NEW order,
           \A p, q \in P : <<p, q>> \in order <=> p.from < q.from
    PROVE  Lists(Cutting!InOrder(P, order), P)
<1>1. IsFiniteSet(P)
  BY PartsAreFinite
<1>2. \A p \in P : p.from \in Nat
  BY DEF Begins
<1>3. IsOrder(order, P)
  <2>1. \A c \in P : <<c, c>> \notin order
    BY <1>2
  <2>2. \A c, d, e \in P : <<c, d>> \in order /\ <<d, e>> \in order => <<c, e>> \in order
    BY <1>2
  <2>3. \A c, d \in P : c = d \/ <<c, d>> \in order \/ <<d, c>> \in order
    <3> SUFFICES ASSUME NEW c \in P, NEW d \in P, c # d PROVE <<c, d>> \in order \/ <<d, c>> \in order
      OBVIOUS
    <3>1. c.from # d.from
      BY DEF Begins
    <3>2. c.from < d.from \/ d.from < c.from
      BY <1>2, <3>1
    <3> QED BY <3>2
  <2> QED BY <2>1, <2>2, <2>3 DEF IsOrder
<1>4. PICK s \in Seq(P) :
          /\ s = Cutting!InOrder(P, order) /\ Distinct(s) /\ (\A x \in P : \E i \in 1..Len(s) : s[i] = x)
          /\ \A i, j \in 1..Len(s) : <<s[i], s[j]>> \in order => i < j
  BY <1>1, <1>3, InOrderIs
<1>5. \A m, k \in 1..Len(s) : s[m] \in P /\ s[k] \in P
  BY <1>4
<1>6. \A m, k \in 1..Len(s) : s[m].from < s[k].from => m < k
  BY <1>4, <1>5
<1> QED BY <1>4, <1>6 DEF Lists

\* Parts are ordered by the lines they begin in.
LEMMA ByFromIs ==
    ASSUME NEW P
    PROVE  \A p, q \in P : <<p, q>> \in Cutting!ByFrom(P) <=> p.from < q.from
  BY DEF Cutting!ByFrom

\* The least and the greatest line of a set of lines.
LEMMA MinOf ==
    ASSUME NEW S \in SUBSET Nat, S # {}
    PROVE  Cutting!Min(S) \in S /\ \A n \in S : Cutting!Min(S) <= n
<1>1. \E n \in S : \A m \in S : n <= m
  BY LeastOf
<1> QED BY <1>1 DEF Cutting!Min

\* A set of lines with a bound has a greatest one.
LEMMA MaxOf ==
    ASSUME NEW S \in SUBSET Nat, S # {}, NEW b \in Nat, \A n \in S : n <= b
    PROVE  Cutting!Max(S) \in S /\ \A n \in S : n <= Cutting!Max(S)
<1> DEFINE T == {k \in 0..b : b - k \in S}
<1>1. PICK x \in S : TRUE
  OBVIOUS
<1>2. b - x \in T /\ T \in SUBSET Nat
  BY <1>1
<1>3. PICK m \in T : \A k \in T : m <= k
  BY <1>2, LeastOf
<1>4. ASSUME NEW n \in S PROVE n <= b - m
  <2>1. b - n \in T
    OBVIOUS
  <2> QED BY <1>3, <2>1
<1>5. \E y \in S : \A k \in S : k <= y
  BY <1>3, <1>4
<1> QED BY <1>5 DEF Cutting!Max

-----------------------------------------------------------------------------
(* What a good cut of a text is.                                             *)

\* The drafts of a text lie in it one behind the other and hold every line that means something.
Parted(t, d) ==
    /\ Len(d) \in Nat
    /\ \A n \in 1..Len(d) : d[n].from \in 1..Len(t) /\ d[n].to \in d[n].from..Len(t)
    /\ \A m, n \in 1..Len(d) : m < n => d[m].to < d[n].from
    /\ \A i \in 1..Len(t) : Cutting!Meaningful(t[i]) => \E n \in 1..Len(d) : i \in d[n].from..d[n].to

\* They begin and end with lines that are not empty.
Exact(t, d) == \A n \in 1..Len(d) : Cutting!SliceMatches(t, d[n])

\* A draft that continues another does not start with a marker.
CutInside(t, d) == \A n \in 1..Len(d) : d[n].cut => t[d[n].from].tag \notin Cutting!Markers

-----------------------------------------------------------------------------
(* Logs.                                                                     *)

LogKinds == {"block", "section", "error", "event"}
LogDraft(n) == [from : 1..n, to : 1..n, kind : LogKinds, cut : BOOLEAN]
LogState(n) == [start : 1..n + 1, kind : LogKinds, cut : BOOLEAN, out : Seq(LogDraft(n))]

\* What has been emitted of the first lines of a log, up to line k.
Emitted(t, out, k) ==
    /\ \A m \in 1..Len(out) : /\ out[m].from <= out[m].to /\ out[m].to <= k
                              /\ ~Cutting!Blank(t[out[m].from]) /\ ~Cutting!Blank(t[out[m].to])
                              /\ out[m].cut => t[out[m].from].tag \notin Cutting!Markers
    /\ \A m, n \in 1..Len(out) : m < n => out[m].to < out[n].from
    /\ \A i \in 1..k : ~Cutting!Blank(t[i]) => \E m \in 1..Len(out) : i \in out[m].from..out[m].to

\* A scan that has read line i has emitted what is before its start, and a marker is a start.
LogScanned(t, s, i) ==
    /\ s.start <= i + 1 /\ Emitted(t, s.out, s.start - 1)
    /\ \A j \in s.start..i : t[j].tag \in Cutting!Markers => j = s.start /\ s.cut = FALSE

\* Emitting adds a draft of what is not blank, if anything is.
Adds(t, n, s, k, e) ==
    \/ e = s.out /\ \A j \in s.start..k : Cutting!Blank(t[j])
    \/ \E d \in LogDraft(n) :
          /\ e = Append(s.out, d)
          /\ d.from \in s.start..k /\ d.to \in s.start..k /\ d.from <= d.to /\ d.cut = s.cut
          /\ ~Cutting!Blank(t[d.from]) /\ ~Cutting!Blank(t[d.to])
          /\ \A j \in s.start..k : ~Cutting!Blank(t[j]) => j \in d.from..d.to

\* What Emit appends.
LEMMA EmitIs ==
    ASSUME NEW t, NEW n \in Nat, NEW s \in LogState(n), NEW k \in 0..n
    PROVE  Cutting!Emit(t, s, k) \in Seq(LogDraft(n)) /\ Adds(t, n, s, k, Cutting!Emit(t, s, k))
<1> DEFINE T == Cutting!Trimmed(t, s.start, k)
<1>1. s.start \in 1..n + 1 /\ s.kind \in LogKinds /\ s.cut \in BOOLEAN /\ s.out \in Seq(LogDraft(n))
  BY DEF LogState
<1>2. T = {i \in s.start..k : ~Cutting!Blank(t[i])}
  BY DEF Cutting!Trimmed
<1>3. CASE T = {}
  <2>1. Cutting!Emit(t, s, k) = s.out
    BY <1>3 DEF Cutting!Emit
  <2>2. \A i \in s.start..k : Cutting!Blank(t[i])
    BY <1>2, <1>3
  <2> QED BY <1>1, <2>1, <2>2 DEF Adds
<1>4. CASE T # {}
  <2>1. T \in SUBSET Nat /\ \A i \in T : i <= n /\ i \in 1..n
    BY <1>1, <1>2
  <2> DEFINE a == Cutting!Min(T)
             b == Cutting!Max(T)
             d == Cutting!Draft(a, b, s.kind, s.cut)
  <2>2. a \in T /\ \A i \in T : a <= i
    BY <1>4, <2>1, MinOf
  <2>3. b \in T /\ \A i \in T : i <= b
    BY <1>4, <2>1, MaxOf
  <2>4. d = [from |-> a, to |-> b, kind |-> s.kind, cut |-> s.cut]
    BY DEF Cutting!Draft
  <2>5. Cutting!Emit(t, s, k) = Append(s.out, d)
    BY <1>4 DEF Cutting!Emit
  <2> HIDE DEF a, b, d, T
  <2>6. d \in LogDraft(n) /\ d.from = a /\ d.to = b /\ d.cut = s.cut
    BY <1>1, <2>1, <2>2, <2>3, <2>4 DEF LogDraft
  <2>7. a \in s.start..k /\ b \in s.start..k /\ a <= b /\ ~Cutting!Blank(t[a]) /\ ~Cutting!Blank(t[b])
    BY <1>2, <2>2, <2>3
  <2>8. \A i \in s.start..k : ~Cutting!Blank(t[i]) => i \in a..b
    BY <1>1, <1>2, <2>2, <2>3, <2>7
  <2>9. Append(s.out, d) \in Seq(LogDraft(n))
    BY <1>1, <2>6
  <2>10. PICK e : e = Cutting!Emit(t, s, k)
    OBVIOUS
  <2>11. Adds(t, n, s, k, e)
    BY <2>5, <2>6, <2>7, <2>8, <2>10 DEF Adds
  <2> QED BY <2>5, <2>9, <2>10, <2>11
<1> QED BY <1>3, <1>4

\* Emitting up to line k.
LEMMA EmitKeeps ==
    ASSUME NEW t, NEW n \in Nat, NEW s \in LogState(n), NEW i \in 0..n, NEW k \in 0..i, LogScanned(t, s, i), s.start <= k + 1
    PROVE  Emitted(t, Cutting!Emit(t, s, k), k)
<1>1. s.start \in 1..n + 1 /\ s.out \in Seq(LogDraft(n)) /\ s.cut \in BOOLEAN
  BY DEF LogState
<1>2. PICK o : o = s.out
  OBVIOUS
<1>3. /\ o \in Seq(LogDraft(n)) /\ Len(o) \in Nat /\ \A m \in 1..Len(o) : o[m].from \in 1..n /\ o[m].to \in 1..n
  <2>1. o \in Seq(LogDraft(n)) /\ Len(o) \in Nat /\ \A m \in 1..Len(o) : o[m] \in LogDraft(n)
    BY <1>1, <1>2
  <2> QED BY <2>1 DEF LogDraft
<1>4. PICK a : a = s.start
  OBVIOUS
<1>5. a \in 1..k + 1 /\ Emitted(t, o, a - 1)
  BY <1>1, <1>2, <1>4 DEF LogScanned
<1>6. CASE Cutting!Emit(t, s, k) = o /\ \A j \in a..k : Cutting!Blank(t[j])
  <2>1. ASSUME NEW m \in 1..Len(o)
        PROVE  /\ o[m].from <= o[m].to /\ o[m].to <= k
               /\ ~Cutting!Blank(t[o[m].from]) /\ ~Cutting!Blank(t[o[m].to])
               /\ o[m].cut => t[o[m].from].tag \notin Cutting!Markers
    <3>1. /\ o[m].from <= o[m].to /\ o[m].to <= a - 1
          /\ ~Cutting!Blank(t[o[m].from]) /\ ~Cutting!Blank(t[o[m].to])
          /\ o[m].cut => t[o[m].from].tag \notin Cutting!Markers
      BY <1>5 DEF Emitted
    <3>2. o[m].to \in Nat /\ a - 1 <= k
      BY <1>3, <1>5
    <3>3. o[m].to <= k
      BY <1>5, <3>1, <3>2
    <3> QED BY <3>1, <3>3
  <2>2. \A l, m \in 1..Len(o) : l < m => o[l].to < o[m].from
    BY <1>5 DEF Emitted
  <2>3. ASSUME NEW j \in 1..k, ~Cutting!Blank(t[j]) PROVE \E m \in 1..Len(o) : j \in o[m].from..o[m].to
    <3>1. j \in 1..a - 1
      BY <1>5, <1>6, <2>3
    <3> QED BY <1>5, <2>3, <3>1 DEF Emitted
  <2>4. Emitted(t, o, k)
    BY <2>1, <2>2, <2>3 DEF Emitted
  <2> QED BY <1>6, <2>4
<1>7. CASE \E d \in LogDraft(n) :
              /\ Cutting!Emit(t, s, k) = Append(o, d)
              /\ d.from \in a..k /\ d.to \in a..k /\ d.from <= d.to /\ d.cut = s.cut
              /\ ~Cutting!Blank(t[d.from]) /\ ~Cutting!Blank(t[d.to])
              /\ \A j \in a..k : ~Cutting!Blank(t[j]) => j \in d.from..d.to
  <2>1. PICK d \in LogDraft(n) :
              /\ Cutting!Emit(t, s, k) = Append(o, d)
              /\ d.from \in a..k /\ d.to \in a..k /\ d.from <= d.to /\ d.cut = s.cut
              /\ ~Cutting!Blank(t[d.from]) /\ ~Cutting!Blank(t[d.to])
              /\ \A j \in a..k : ~Cutting!Blank(t[j]) => j \in d.from..d.to
    BY <1>7
  <2>2. PICK p : p = Append(o, d)
    OBVIOUS
  <2>3. Len(p) = Len(o) + 1 /\ p[Len(o) + 1] = d /\ \A m \in 1..Len(o) : p[m] = o[m]
    BY <1>3, <2>2
  <2>4. \A m \in 1..Len(p) : m \in 1..Len(o) \/ m = Len(o) + 1
    BY <1>3, <2>3
  <2>5. d.cut => t[d.from].tag \notin Cutting!Markers
    <3> SUFFICES ASSUME d.cut, t[d.from].tag \in Cutting!Markers PROVE FALSE
      OBVIOUS
    <3>1. d.from \in s.start..i
      BY <1>4, <2>1
    <3> QED BY <2>1, <3>1 DEF LogScanned
  <2>6. ASSUME NEW m \in 1..Len(p)
        PROVE  /\ p[m].from <= p[m].to /\ p[m].to <= k
               /\ ~Cutting!Blank(t[p[m].from]) /\ ~Cutting!Blank(t[p[m].to])
               /\ p[m].cut => t[p[m].from].tag \notin Cutting!Markers
    <3>1. CASE m \in 1..Len(o)
      <4>1. p[m] = o[m] /\ o[m].to <= a - 1 /\ o[m].to \in 1..n
        BY <1>3, <1>5, <2>3, <3>1 DEF Emitted
      <4>2. o[m].to <= k
        BY <1>5, <4>1
      <4> QED BY <1>5, <3>1, <4>1, <4>2 DEF Emitted
    <3>2. CASE m = Len(o) + 1
      <4>1. p[m] = d
        BY <2>3, <3>2
      <4> QED BY <2>1, <2>5, <4>1
    <3> QED BY <2>4, <3>1, <3>2
  <2>7. ASSUME NEW l \in 1..Len(p), NEW m \in 1..Len(p), l < m PROVE p[l].to < p[m].from
    <3>1. l \in 1..Len(o)
      BY <1>3, <2>3, <2>4, <2>7
    <3>2. CASE m \in 1..Len(o)
      BY <1>5, <2>3, <2>7, <3>1, <3>2 DEF Emitted
    <3>3. CASE m = Len(o) + 1
      <4>1. p[m] = d /\ p[l] = o[l] /\ o[l].to <= a - 1 /\ o[l].to \in 1..n
        BY <1>3, <1>5, <2>3, <3>1, <3>3 DEF Emitted
      <4>2. d.from \in a..k /\ a \in 1..k + 1
        BY <1>5, <2>1
      <4>3. PICK x, y : x = o[l].to /\ y = d.from
        OBVIOUS
      <4>4. x \in 1..n /\ x <= a - 1 /\ y \in a..k
        BY <4>1, <4>2, <4>3
      <4>5. x < y
        BY <4>2, <4>4
      <4> QED BY <4>1, <4>3, <4>5
    <3> QED BY <2>4, <3>2, <3>3
  <2>8. ASSUME NEW j \in 1..k, ~Cutting!Blank(t[j]) PROVE \E m \in 1..Len(p) : j \in p[m].from..p[m].to
    <3>1. CASE j < a
      <4>1. j \in 1..a - 1
        BY <1>5, <3>1
      <4>2. PICK m \in 1..Len(o) : j \in o[m].from..o[m].to
        BY <1>5, <2>8, <4>1 DEF Emitted
      <4> QED BY <1>3, <2>3, <4>2
    <3>2. CASE ~(j < a)
      <4>1. j \in a..k
        BY <1>5, <3>2
      <4>2. j \in d.from..d.to
        BY <2>1, <2>8, <4>1
      <4> QED BY <1>3, <2>3, <4>2
    <3> QED BY <3>1, <3>2
  <2>9. Emitted(t, p, k)
    BY <2>6, <2>7, <2>8 DEF Emitted
  <2> QED BY <2>1, <2>2, <2>9
<1>8. k \in 0..n
  OBVIOUS
<1>9. Adds(t, n, s, k, Cutting!Emit(t, s, k))
  BY <1>8, EmitIs
<1>10. PICK e : e = Cutting!Emit(t, s, k)
  OBVIOUS
<1> QED BY ONLY <1>2, <1>4, <1>6, <1>7, <1>9, <1>10 DEF Adds

\* A step of the scan leads from state to state.
LEMMA MarkerTyped ==
    ASSUME NEW t, NEW n \in Nat, NEW s \in LogState(n), NEW i \in 1..n
    PROVE  Cutting!AtMarker(t, s, i) \in LogState(n)
<1>1. CASE t[i].tag \notin Cutting!Markers
  BY <1>1 DEF Cutting!AtMarker
<1>2. CASE t[i].tag \in Cutting!Markers
  <2>1. i - 1 \in 0..n /\ i \in 1..n + 1
    OBVIOUS
  <2>2. Cutting!Emit(t, s, i - 1) \in Seq(LogDraft(n))
    BY <2>1, EmitIs
  <2>3. t[i].tag \in LogKinds
    BY <1>2 DEF Cutting!Markers, LogKinds
  <2> QED BY <1>2, <2>1, <2>2, <2>3 DEF Cutting!AtMarker, LogState
<1> QED BY <1>1, <1>2

\* So does a cut at the length limit.
LEMMA LimitTyped ==
    ASSUME NEW t, NEW n \in Nat, NEW s \in LogState(n), NEW i \in 1..n
    PROVE  Cutting!AtLimit(t, s, i, MostLines) \in LogState(n)
<1>1. CASE (i + 1) - s.start < MostLines
  BY <1>1 DEF Cutting!AtLimit
<1>2. CASE ~((i + 1) - s.start < MostLines)
  <2>1. i \in 0..n /\ i + 1 \in 1..n + 1
    OBVIOUS
  <2>2. Cutting!Emit(t, s, i) \in Seq(LogDraft(n))
    BY <2>1, EmitIs
  <2> QED BY <1>2, <2>1, <2>2 DEF Cutting!AtLimit, LogState
<1> QED BY <1>1, <1>2

\* A marker emits what is before it.
LEMMA MarkerKeeps ==
    ASSUME NEW t, NEW n \in Nat, NEW s \in LogState(n), NEW i \in 1..n, LogScanned(t, s, i - 1)
    PROVE  LogScanned(t, Cutting!AtMarker(t, s, i), i)
<1>1. s.start \in 1..n + 1 /\ s.start <= i
  BY DEF LogState, LogScanned
<1>2. CASE t[i].tag \notin Cutting!Markers
  <2>1. Cutting!AtMarker(t, s, i) = s
    BY <1>2 DEF Cutting!AtMarker
  <2>2. ASSUME NEW j \in s.start..i, t[j].tag \in Cutting!Markers PROVE j = s.start /\ s.cut = FALSE
    <3>1. j \in s.start..i - 1
      BY <1>1, <1>2, <2>2
    <3> QED BY <2>2, <3>1 DEF LogScanned
  <2>3. s.start <= i + 1 /\ Emitted(t, s.out, s.start - 1)
    BY <1>1 DEF LogScanned
  <2>4. LogScanned(t, s, i)
    BY ONLY <2>2, <2>3 DEF LogScanned
  <2> QED BY <2>1, <2>4
<1>3. CASE t[i].tag \in Cutting!Markers
  <2>1. i - 1 \in 0..n /\ i - 1 \in 0..i - 1 /\ s.start <= (i - 1) + 1
    BY <1>1
  <2>2. Emitted(t, Cutting!Emit(t, s, i - 1), i - 1)
    BY <2>1, EmitKeeps
  <2>3. PICK e : e = Cutting!Emit(t, s, i - 1)
    OBVIOUS
  <2>4. PICK r : r = [start |-> i, kind |-> t[i].tag, cut |-> FALSE, out |-> e]
    OBVIOUS
  <2>5. Cutting!AtMarker(t, s, i) = r
    BY <1>3, <2>3, <2>4 DEF Cutting!AtMarker
  <2>6. r.start = i /\ r.cut = FALSE /\ r.out = e
    BY <2>4
  <2> QED BY <2>2, <2>3, <2>5, <2>6 DEF LogScanned
<1> QED BY <1>2, <1>3

\* At the limit what was read is emitted.
LEMMA LimitKeeps ==
    ASSUME NEW t, NEW n \in Nat, NEW s \in LogState(n), NEW i \in 1..n, LogScanned(t, s, i)
    PROVE  LogScanned(t, Cutting!AtLimit(t, s, i, MostLines), i)
<1>1. CASE (i + 1) - s.start < MostLines
  BY <1>1 DEF Cutting!AtLimit
<1>2. CASE ~((i + 1) - s.start < MostLines)
  <2>1. i \in 0..n /\ i \in 0..i /\ s.start <= i + 1
    BY DEF LogScanned
  <2>2. Emitted(t, Cutting!Emit(t, s, i), i)
    BY <2>1, EmitKeeps
  <2>3. PICK e : e = Cutting!Emit(t, s, i)
    OBVIOUS
  <2>4. PICK r : r = [s EXCEPT !.start = i + 1, !.cut = TRUE, !.out = e]
    OBVIOUS
  <2>5. Cutting!AtLimit(t, s, i, MostLines) = r
    BY <1>2, <2>3, <2>4 DEF Cutting!AtLimit
  <2>6. r.start = i + 1 /\ r.out = e
    BY <2>4 DEF LogState
  <2>7. (i + 1) - 1 = i /\ \A j \in i + 1..i : FALSE
    OBVIOUS
  <2> QED BY <2>2, <2>3, <2>5, <2>6, <2>7 DEF LogScanned
<1> QED BY <1>1, <1>2

LogStep(t, s, i) == Cutting!AtLimit(t, Cutting!AtMarker(t, s, i), i, MostLines)

\* A line of a log: at a marker, then at the limit, and everything up to it is emitted or open.
LEMMA LogStepIs ==
    ASSUME NEW t, NEW n \in Nat, NEW s \in LogState(n), NEW i \in 1..n
    PROVE  LogStep(t, s, i) \in LogState(n) /\ (LogScanned(t, s, i - 1) => LogScanned(t, LogStep(t, s, i), i))
<1>1. PICK r : r = Cutting!AtMarker(t, s, i)
  OBVIOUS
<1>2. r \in LogState(n)
  BY <1>1, MarkerTyped
<1>3. LogScanned(t, s, i - 1) => LogScanned(t, r, i)
  BY <1>1, MarkerKeeps
<1>4. Cutting!AtLimit(t, r, i, MostLines) \in LogState(n)
  BY <1>2, LimitTyped
<1>5. LogScanned(t, r, i) => LogScanned(t, Cutting!AtLimit(t, r, i, MostLines), i)
  BY <1>2, LimitKeeps
<1> QED BY <1>1, <1>3, <1>4, <1>5 DEF LogStep

\* The scan of a log ends in a state that has read all of it.
LEMMA ScanEnds ==
    ASSUME NEW t, Len(t) \in Nat
    PROVE  \E s \in LogState(Len(t)) : LogScanned(t, s, Len(t)) /\ Cutting!TextLog(t, MostLines) = Cutting!Emit(t, s, Len(t))
<1>1. PICK n \in Nat : n = Len(t)
  OBVIOUS
<1> DEFINE S == LogState(n)
           a == [start |-> 1, kind |-> "block", cut |-> FALSE, out |-> <<>>]
           F(f) == [i \in 0..n |-> IF i = 0 THEN a ELSE LogStep(t, f[i - 1], i)]
           g == [p \in S \X (1..n) |-> LogStep(t, p[1], p[2])]
<1>2. \A x \in S, i \in 1..n : g[<<x, i>>] = LogStep(t, x, i)
  OBVIOUS
<1>3. g \in [S \X (1..n) -> S]
  BY LogStepIs
<1>4. a \in S
  BY DEF LogState, LogKinds
<1>5. LogScanned(t, a, 0)
  BY DEF LogScanned, Emitted
<1>55. PICK z : z = a
  OBVIOUS
<1> HIDE DEF g, a, S
<1>6. \E h : Computes(h, n, S, a, g)
  BY <1>3, <1>4, StepsExist
<1>7. PICK h \in [0..n -> S] : h[0] = a /\ \A i \in 1..n : h[i] = g[<<h[i - 1], i>>]
  BY <1>6 DEF Computes
<1>8. ASSUME NEW i \in 0..n PROVE h[i] = IF i = 0 THEN a ELSE LogStep(t, h[i - 1], i)
  <2>1. CASE i = 0
    BY <1>7, <2>1
  <2>2. CASE i # 0
    <3>1. i \in 1..n /\ i - 1 \in 0..n
      BY <2>2
    <3>2. h[i - 1] \in S
      BY <3>1
    <3> QED BY <1>2, <1>7, <2>2, <3>1, <3>2
  <2> QED BY <2>1, <2>2
<1>9. h = F(h)
  BY <1>8
<1>10. PICK u : u = CHOOSE f : f = F(f)
  OBVIOUS
<1>11. u = F(u)
  BY <1>9, <1>10
<1>12. Cutting!TextLog(t, MostLines) = Cutting!Emit(t, u[n], n)
  BY <1>1, <1>10 DEF Cutting!TextLog, LogStep, a
<1> DEFINE U == {i \in 0..n : u[i] \in S /\ LogScanned(t, u[i], i)}
<1>13. 0..n \subseteq U
  <2>1. 0 \in U
    BY <1>4, <1>5, <1>11
  <2>2. ASSUME NEW i \in 0..n - 1, i \in U PROVE i + 1 \in U
    <3>1. i + 1 \in 1..n /\ (i + 1) - 1 = i /\ u[i] \in S /\ i + 1 \in 0..n /\ i + 1 # 0
      BY <2>2
    <3>2. u[i + 1] = LogStep(t, u[i], i + 1)
      BY <1>11, <3>1
    <3>3. LogStep(t, u[i], i + 1) \in S /\ LogScanned(t, LogStep(t, u[i], i + 1), i + 1)
      BY <2>2, <3>1, LogStepIs DEF S
    <3> QED BY <3>1, <3>2, <3>3
  <2> HIDE DEF U
  <2> QED BY <2>1, <2>2, Climb
<1>14. u[n] \in S /\ LogScanned(t, u[n], n)
  BY <1>13
<1> QED BY <1>1, <1>12, <1>14 DEF S

\* A log is cut into parts, whose ends are not empty; where its length cuts it there is no marker.
LEMMA LogIsCut ==
    ASSUME NEW t, Len(t) \in Nat
    PROVE  /\ Parted(t, Cutting!TextLog(t, MostLines)) /\ Exact(t, Cutting!TextLog(t, MostLines))
           /\ CutInside(t, Cutting!TextLog(t, MostLines))
<1>1. PICK n \in Nat : n = Len(t)
  OBVIOUS
<1>2. PICK d : d = Cutting!TextLog(t, MostLines)
  OBVIOUS
<1>3. PICK s \in LogState(n) : LogScanned(t, s, n) /\ d = Cutting!Emit(t, s, n)
  BY <1>1, <1>2, ScanEnds
<1>4. s.start <= n + 1 /\ n \in 0..n
  BY <1>3 DEF LogScanned
<1>5. d \in Seq(LogDraft(n)) /\ Emitted(t, d, n)
  BY <1>3, <1>4, EmitIs, EmitKeeps
<1>6. Len(d) \in Nat /\ \A m \in 1..Len(d) : d[m] \in LogDraft(n)
  BY <1>5
<1>7. \A m \in 1..Len(d) : d[m].from \in 1..n /\ d[m].to \in 1..n
  BY <1>6 DEF LogDraft
<1>8. \A m \in 1..Len(d) : d[m].to \in d[m].from..n
  BY <1>5, <1>7 DEF Emitted
<1>9. Parted(t, d)
  BY <1>1, <1>5, <1>6, <1>7, <1>8 DEF Parted, Emitted, Cutting!Meaningful
<1>10. Exact(t, d)
  BY <1>5 DEF Exact, Emitted, Cutting!SliceMatches, Cutting!Blank
<1>11. CutInside(t, d)
  BY <1>5 DEF CutInside, Emitted
<1> QED BY <1>2, <1>9, <1>10, <1>11

-----------------------------------------------------------------------------
(* Parts of a text and runs of its lines.                                    *)

InText(P, n) == \A p \in P : p.from \in 1..n /\ p.to \in p.from..n
Apart(P) == \A p, q \in P : p # q => p.to < q.from \/ q.to < p.from
Covers(t, P) == \A i \in 1..Len(t) : Cutting!Meaningful(t[i]) => \E p \in P : i \in p.from..p.to

\* Parts that are apart begin in different lines.
LEMMA ApartBegin ==
    ASSUME NEW P, NEW n \in Nat, InText(P, n), Apart(P)
    PROVE  Begins(P, n)
<1>1. \A p \in P : p.from \in 1..n /\ p.to \in p.from..n
  BY DEF InText
<1>2. ASSUME NEW p \in P, NEW q \in P, p.from = q.from, p # q PROVE FALSE
  <2>1. p.to < q.from \/ q.to < p.from
    BY <1>2 DEF Apart
  <2>2. p.from \in Nat /\ q.from \in Nat /\ p.to >= p.from /\ q.to >= q.from /\ p.to \in Nat /\ q.to \in Nat
    BY <1>1
  <2> QED BY <1>2, <2>1, <2>2
<1> QED BY <1>1, <1>2 DEF Begins

\* A list of parts of a text that are apart and cover it is a cut of it.
LEMMA ListIsCut ==
    ASSUME NEW t, NEW P, Len(t) \in Nat, InText(P, Len(t)), Apart(P), Covers(t, P), NEW d, Lists(d, P)
    PROVE  Parted(t, d)
<1>1. d \in Seq(P) /\ Len(d) \in Nat /\ \A m \in 1..Len(d) : d[m] \in P
  BY DEF Lists
<1>2. \A m \in 1..Len(d) : d[m].from \in 1..Len(t) /\ d[m].to \in d[m].from..Len(t)
  BY <1>1 DEF InText
<1>3. ASSUME NEW m \in 1..Len(d), NEW k \in 1..Len(d), m < k PROVE d[m].to < d[k].from
  <2>1. d[m] # d[k]
    BY <1>3 DEF Lists, Distinct
  <2>2. d[m].to < d[k].from \/ d[k].to < d[m].from
    BY <1>1, <2>1 DEF Apart
  <2>3. ASSUME d[k].to < d[m].from PROVE FALSE
    <3>1. d[k].from < d[m].from
      BY <1>2, <2>3
    <3>2. k < m
      BY <3>1 DEF Lists
    <3> QED BY <1>3, <3>2
  <2> QED BY <2>2, <2>3
<1>4. \A i \in 1..Len(t) : Cutting!Meaningful(t[i]) => \E m \in 1..Len(d) : i \in d[m].from..d[m].to
  BY DEF Covers, Lists
<1> QED BY <1>1, <1>2, <1>3, <1>4 DEF Parted

\* A list of exact parts is exact.
LEMMA ListIsExact ==
    ASSUME NEW t, NEW P, NEW d, Lists(d, P), \A p \in P : Cutting!SliceMatches(t, p)
    PROVE  Exact(t, d)
<1>1. \A m \in 1..Len(d) : d[m] \in P
  BY DEF Lists
<1> QED BY <1>1 DEF Exact

\* The least and the last of two.
LEMMA MinOfTwo ==
    ASSUME NEW a \in Nat, NEW b \in Nat
    PROVE  Cutting!Min({a, b}) = IF a <= b THEN a ELSE b
<1>1. Cutting!Min({a, b}) \in {a, b} /\ \A n \in {a, b} : Cutting!Min({a, b}) <= n
  BY MinOf
<1> QED BY <1>1

\* The greater of two lines.
LEMMA MaxOfTwo ==
    ASSUME NEW a \in Nat, NEW b \in Nat
    PROVE  Cutting!Max({a, b}) = IF a <= b THEN b ELSE a
<1>1. PICK S : S = {a, b}
  OBVIOUS
<1>2. S \in SUBSET Nat /\ S # {} /\ a + b \in Nat /\ \A n \in S : n <= a + b
  BY <1>1
<1>3. Cutting!Max(S) \in S /\ \A n \in S : n <= Cutting!Max(S)
  BY <1>2, MaxOf
<1> QED BY <1>1, <1>3

\* What is in different runs is apart.
LEMMA WithinRuns ==
    ASSUME NEW p, NEW q, NEW r, NEW s, r[2] + 1 < s[1] \/ s[2] + 1 < r[1],
           r[1] \in Nat, r[2] \in Nat, s[1] \in Nat, s[2] \in Nat,
           p.from \in r[1]..r[2], p.to \in r[1]..r[2], q.from \in s[1]..s[2], q.to \in s[1]..s[2]
    PROVE  p.to < q.from \/ q.to < p.from
<1>1. PICK a, b, c, d : a = r[1] /\ b = r[2] /\ c = s[1] /\ d = s[2]
  OBVIOUS
<1>2. PICK v, w, x, y : v = p.from /\ w = p.to /\ x = q.from /\ y = q.to
  OBVIOUS
<1>3. a \in Nat /\ b \in Nat /\ c \in Nat /\ d \in Nat /\ (b + 1 < c \/ d + 1 < a)
  BY <1>1
<1>4. v \in a..b /\ w \in a..b /\ x \in c..d /\ y \in c..d
  BY <1>1, <1>2
<1>5. w < x \/ y < v
  BY <1>3, <1>4
<1> QED BY <1>2, <1>5

\* Runs lie between the two lines, with a line between any two of them, and hold all solid lines.
RunsSound(R, first, last, solid) ==
    /\ \A r \in R : /\ r[1] \in first..last /\ r[2] \in first..last /\ r[1] <= r[2] /\ r = <<r[1], r[2]>>
                    /\ \A i \in r[1]..r[2] : i \in solid
                    /\ r[1] > first => r[1] - 1 \notin solid
                    /\ r[2] < last => r[2] + 1 \notin solid
    /\ \A r, q \in R : r = q \/ r[2] + 1 < q[1] \/ q[2] + 1 < r[1]
    /\ \A i \in first..last : i \in solid => \E r \in R : i \in r[1]..r[2]

\* The runs that Runs finds are the maximal ones.
LEMMA RunsAre ==
    ASSUME NEW first \in Nat, NEW last \in Int, NEW solid
    PROVE  RunsSound(Cutting!Runs(first, last, solid), first, last, solid)
<1> DEFINE R == Cutting!Runs(first, last, solid)
<1>1. \A r \in R : /\ r[1] \in first..last /\ r[2] \in first..last /\ r[1] <= r[2] /\ r = <<r[1], r[2]>>
                   /\ \A i \in r[1]..r[2] : i \in solid
                   /\ r[1] > first => r[1] - 1 \notin solid
                   /\ r[2] < last => r[2] + 1 \notin solid
  BY DEF Cutting!Runs
<1>2. ASSUME NEW a \in first..last, NEW b \in first..last, a <= b, \A i \in a..b : i \in solid,
             a > first => a - 1 \notin solid, b < last => b + 1 \notin solid
      PROVE  <<a, b>> \in R
  BY <1>2 DEF Cutting!Runs
<1> HIDE DEF R
<1>3. ASSUME NEW r \in R, NEW q \in R, r[1] <= q[1], ~(r[2] + 1 < q[1]) PROVE r = q
  <2>1. PICK a \in first..last, b \in first..last, c \in first..last, e \in first..last :
           r = <<a, b>> /\ q = <<c, e>>
    BY <1>1
  <2>2. /\ a <= b /\ c <= e /\ a <= c /\ c <= b + 1
        /\ (\A i \in a..b : i \in solid) /\ (\A i \in c..e : i \in solid)
        /\ (a > first => a - 1 \notin solid) /\ (b < last => b + 1 \notin solid)
        /\ (c > first => c - 1 \notin solid) /\ (e < last => e + 1 \notin solid)
    BY <1>1, <1>3, <2>1
  <2>3. a = c
    <3> SUFFICES ASSUME a < c PROVE FALSE
      BY <2>2
    <3>1. c - 1 \in a..b /\ c > first
      BY <2>2
    <3> QED BY <2>2, <3>1
  <2>4. ~(b < e)
    <3> SUFFICES ASSUME b < e PROVE FALSE
      OBVIOUS
    <3>1. b + 1 \in c..e /\ b < last
      BY <2>2, <2>3
    <3> QED BY <2>2, <3>1
  <2>5. ~(e < b)
    <3> SUFFICES ASSUME e < b PROVE FALSE
      OBVIOUS
    <3>1. e + 1 \in a..b /\ e < last
      BY <2>2, <2>3
    <3> QED BY <2>2, <3>1
  <2> QED BY <2>1, <2>3, <2>4, <2>5
<1>4. \A r, q \in R : r = q \/ r[2] + 1 < q[1] \/ q[2] + 1 < r[1]
  <2> SUFFICES ASSUME NEW r \in R, NEW q \in R PROVE r = q \/ r[2] + 1 < q[1] \/ q[2] + 1 < r[1]
    OBVIOUS
  <2>1. r[1] <= q[1] \/ q[1] <= r[1]
    BY <1>1
  <2> QED BY <1>3, <2>1
<1>5. ASSUME NEW i \in first..last, i \in solid PROVE \E r \in R : i \in r[1]..r[2]
  <2> DEFINE A == {k \in first..i : \A j \in k..i : j \in solid}
             B == {k \in i..last : \A j \in i..k : j \in solid}
  <2>1. i \in A /\ A \in SUBSET Nat /\ i \in B /\ B \in SUBSET Nat /\ last \in Nat
    BY <1>5
  <2>2. PICK a \in A : \A k \in A : a <= k
    BY <2>1, LeastOf
  <2>3. PICK b \in B : \A k \in B : k <= b
    <3>1. \A k \in B : k <= last
      OBVIOUS
    <3> QED BY <2>1, <3>1, MaxOf
  <2>4. a \in first..i /\ b \in i..last /\ a \in first..last /\ b \in first..last /\ a <= b
    BY <2>2, <2>3
  <2>5. \A j \in a..b : j \in solid
    <3> SUFFICES ASSUME NEW j \in a..b PROVE j \in solid
      OBVIOUS
    <3>1. j \in a..i \/ j \in i..b
      BY <2>4
    <3> QED BY <2>2, <2>3, <3>1
  <2>6. a > first => a - 1 \notin solid
    <3> SUFFICES ASSUME a > first, a - 1 \in solid PROVE FALSE
      OBVIOUS
    <3>1. \A j \in a - 1..i : j = a - 1 \/ j \in a..i
      BY <2>4
    <3>2. a - 1 \in A
      BY <2>2, <2>4, <3>1
    <3> QED BY <2>2, <2>4, <3>2
  <2>7. b < last => b + 1 \notin solid
    <3> SUFFICES ASSUME b < last, b + 1 \in solid PROVE FALSE
      OBVIOUS
    <3>1. \A j \in i..b + 1 : j = b + 1 \/ j \in i..b
      BY <2>4
    <3>2. b + 1 \in B
      BY <2>3, <2>4, <3>1
    <3> QED BY <2>3, <2>4, <3>2
  <2>8. <<a, b>> \in R
    BY <1>2, <2>4, <2>5, <2>6, <2>7
  <2>9. i \in a..b
    BY <2>4
  <2> QED BY <2>8, <2>9
<1> QED BY <1>1, <1>4, <1>5 DEF RunsSound, R

-----------------------------------------------------------------------------
(* Code without a parser.                                                    *)

\* Multiples of a number.
LEMMA Multiples ==
    ASSUME NEW m \in Nat \ {0}
    PROVE  /\ \A x \in Nat : x \div m \in Nat /\ (x \div m) * m <= x /\ x < (x \div m) * m + m
           /\ \A k \in Nat : k * m \in Nat /\ (k + 1) * m = k * m + m
           /\ \A j, k \in Nat : j < k => j * m + m <= k * m
<1>1. \A x \in Nat : x \div m \in Nat /\ (x \div m) * m <= x /\ x < (x \div m) * m + m
  OBVIOUS
<1>2. \A k \in Nat : k * m \in Nat /\ (k + 1) * m = k * m + m
  OBVIOUS
<1>3. ASSUME NEW j \in Nat, NEW k \in Nat, j < k PROVE j * m + m <= k * m
  <2>1. PICK d \in Nat : k = (j + 1) + d
    <3>1. k - (j + 1) \in Nat /\ k = (j + 1) + (k - (j + 1))
      BY <1>3
    <3> QED BY <3>1
  <2>2. k * m = (j * m + m) + d * m
    BY <2>1
  <2>3. d * m \in Nat /\ j * m \in Nat
    BY <2>1
  <2> QED BY <2>2, <2>3
<1> QED BY <1>1, <1>2, <1>3

\* The parts of a block: they lie in it, begin in it at different lines and hold all of it.
PartsSound(P, a, b) ==
    /\ \A p \in P : p.from \in a..b /\ p.to \in p.from..b
    /\ Apart(P)
    /\ \A i \in a..b : \E p \in P : i \in p.from..p.to

\* Parts cuts a stretch of lines into consecutive pieces of at most MostLines lines.
LEMMA PartsAre ==
    ASSUME NEW a \in Nat, NEW b \in Nat, a <= b
    PROVE  PartsSound(Cutting!Parts(a, b, MostLines), a, b)
<1>1. PICK m \in Nat \ {0} : m = MostLines
  BY LinesAssumption DEF LinesAssumption
<1>2. PICK c \in Nat : c = b - a
  OBVIOUS
<1> DEFINE from(n) == a + n * m
           to(n) == Cutting!Min({b, (a + (n + 1) * m) - 1})
           P == Cutting!Parts(a, b, MostLines)
<1>3. ASSUME NEW n \in 0..c \div m
      PROVE  /\ n \in Nat /\ from(n) \in a..b /\ to(n) \in from(n)..b /\ to(n) <= (from(n) + m) - 1
             /\ to(n) = b \/ to(n) = (from(n) + m) - 1
  <2>1. c \div m \in Nat /\ (c \div m) * m <= c /\ n \in Nat /\ n * m \in Nat /\ (n + 1) * m = n * m + m
    BY Multiples
  <2>2. n * m <= c
    <3>1. CASE n = c \div m
      BY <2>1, <3>1
    <3>2. CASE n # c \div m
      <4>1. n < c \div m
        BY <2>1, <3>2
      <4>2. n * m + m <= (c \div m) * m
        BY <2>1, <4>1, Multiples
      <4>3. PICK x \in Nat, y \in Nat : x = n * m /\ y = (c \div m) * m
        BY <2>1, Multiples
      <4> QED BY <2>1, <4>2, <4>3
    <3> QED BY <3>1, <3>2
  <2>3. PICK x \in Nat : x = n * m
    BY <2>1
  <2>4. from(n) = a + x /\ x <= c /\ (a + (n + 1) * m) - 1 = ((a + x) + m) - 1
    BY <2>1, <2>2, <2>3
  <2>5. ((a + x) + m) - 1 \in Nat /\ ((a + x) + m) - 1 >= a + x
    BY <1>1
  <2>6. to(n) = IF b <= ((a + x) + m) - 1 THEN b ELSE ((a + x) + m) - 1
    BY <2>4, <2>5, MinOfTwo
  <2> HIDE DEF from, to
  <2> QED BY <1>1, <1>2, <2>1, <2>4, <2>5, <2>6
<1> DEFINE slab(n) == [from |-> from(n), to |-> to(n), kind |-> "fallback", cut |-> (n > 0)]
<1>31. P = {slab(n) : n \in 0..c \div m}
  BY <1>1, <1>2 DEF Cutting!Parts, Cutting!Draft
<1>32. \A n : slab(n).from = from(n) /\ slab(n).to = to(n)
  OBVIOUS
<1> HIDE DEF P, slab
<1>4. \A p \in P : \E n \in 0..c \div m : p.from = from(n) /\ p.to = to(n) /\ p = slab(n)
  BY <1>31, <1>32
<1>5. \A n \in 0..c \div m : \E p \in P : p.from = from(n) /\ p.to = to(n)
  BY <1>31, <1>32
<1>6. \A p \in P : p.from \in a..b /\ p.to \in p.from..b
  BY <1>3, <1>4
<1>7. ASSUME NEW j \in 0..c \div m, NEW k \in 0..c \div m, j < k PROVE to(j) < from(k)
  <2> HIDE DEF from, to
  <2>1. j \in Nat /\ k \in Nat /\ to(j) <= (from(j) + m) - 1
    BY <1>3
  <2>2. j * m + m <= k * m /\ j * m \in Nat /\ k * m \in Nat
    BY <1>7, <2>1, Multiples
  <2>3. to(j) \in Nat
    <3>1. from(j) \in a..b /\ to(j) \in from(j)..b
      BY <1>3
    <3> QED BY <3>1
  <2>4. PICK x \in Nat, y \in Nat : x = j * m /\ y = k * m
    BY <2>2
  <2>5. from(j) = a + x /\ from(k) = a + y /\ x + m <= y
    BY <2>2, <2>4 DEF from
  <2> QED BY <2>1, <2>3, <2>5
<1>8. Apart(P)
  <2> SUFFICES ASSUME NEW p \in P, NEW q \in P, p # q PROVE p.to < q.from \/ q.to < p.from
    BY DEF Apart
  <2>1. PICK j \in 0..c \div m : p.from = from(j) /\ p.to = to(j) /\ p = slab(j)
    BY <1>4
  <2>2. PICK k \in 0..c \div m : q.from = from(k) /\ q.to = to(k) /\ q = slab(k)
    BY <1>4
  <2>3. j # k
    BY <2>1, <2>2
  <2>4. j < k \/ k < j
    BY <1>3, <2>3
  <2> QED BY <1>7, <2>1, <2>2, <2>4
<1>9. ASSUME NEW i \in a..b PROVE \E p \in P : i \in p.from..p.to
  <2>1. PICK x \in Nat : x = i - a
    OBVIOUS
  <2>2. PICK n \in Nat : n = x \div m /\ n * m <= x /\ x < n * m + m /\ n * m \in Nat
    BY <2>1, Multiples
  <2>3. c \div m \in Nat /\ c < (c \div m) * m + m /\ (c \div m) * m \in Nat
    BY Multiples
  <2>4. n <= c \div m
    <3> SUFFICES ASSUME c \div m < n PROVE FALSE
      BY <2>3
    <3>1. (c \div m) * m + m <= n * m
      BY <2>3, Multiples
    <3>2. PICK y \in Nat, z \in Nat : y = (c \div m) * m /\ z = n * m
      BY <2>2, <2>3
    <3>3. c < y + m /\ y + m <= z /\ z <= x
      BY <2>2, <2>3, <3>1, <3>2
    <3>4. x <= c
      BY <1>2, <2>1
    <3> QED BY <1>1, <3>3, <3>4
  <2>5. n \in 0..c \div m
    BY <2>3, <2>4
  <2>6. PICK p \in P : p.from = from(n) /\ p.to = to(n)
    BY <1>5, <2>5
  <2>7. to(n) \in from(n)..b /\ (to(n) = b \/ to(n) = (from(n) + m) - 1)
    BY <1>3, <2>5
  <2>8. PICK z \in Nat : z = n * m
    BY <2>2
  <2>9. from(n) = a + z /\ z <= x /\ x < z + m
    BY <2>2, <2>8
  <2> HIDE DEF from, to
  <2>10. i \in from(n)..to(n)
    BY <1>1, <2>1, <2>7, <2>9
  <2> QED BY <2>6, <2>10
<1> QED BY <1>6, <1>8, <1>9 DEF PartsSound, P

\* Code without a parser, in parts between blank lines.
LEMMA FallbackIsCut ==
    ASSUME NEW t, Len(t) \in Nat
    PROVE  Parted(t, Cutting!Fallback(t, MostLines)) /\ Exact(t, Cutting!Fallback(t, MostLines))
<1>1. PICK n \in Nat : n = Len(t)
  OBVIOUS
<1> DEFINE solid == {i \in Cutting!Lines(t) : ~Cutting!Blank(t[i])}
           R == Cutting!Runs(1, Len(t), solid)
           parts(r) == Cutting!Parts(r[1], r[2], MostLines)
           P == UNION {parts(r) : r \in R}
<1>2. RunsSound(R, 1, n, solid)
  BY <1>1, RunsAre
<1>3. Cutting!Fallback(t, MostLines) = Cutting!InOrder(P, Cutting!ByFrom(P))
  BY DEF Cutting!Fallback
<1>4. \A i \in solid : i \in 1..n /\ ~Cutting!Blank(t[i])
  BY <1>1 DEF Cutting!Lines
<1>5. \A i \in 1..n : ~Cutting!Blank(t[i]) => i \in solid
  BY <1>1 DEF Cutting!Lines
<1>6. \A p \in P : \E r \in R : p \in parts(r)
  OBVIOUS
<1>7. \A r \in R : \A p \in parts(r) : p \in P
  OBVIOUS
<1> HIDE DEF P, R, solid, parts
<1>8. \A r \in R : PartsSound(parts(r), r[1], r[2]) /\ r[1] \in 1..n /\ r[2] \in 1..n
  BY <1>2, PartsAre DEF RunsSound, parts
<1>9. ASSUME NEW r \in R, NEW p \in parts(r)
      PROVE  p.from \in 1..n /\ p.to \in p.from..n /\ p.from \in r[1]..r[2] /\ p.to \in r[1]..r[2]
  <2>1. p.from \in r[1]..r[2] /\ p.to \in p.from..r[2] /\ r[1] \in 1..n /\ r[2] \in 1..n
    BY <1>8, <1>9 DEF PartsSound
  <2> QED BY <2>1
<1>10. InText(P, n)
  BY <1>6, <1>9 DEF InText
<1>11. Apart(P)
  <2> SUFFICES ASSUME NEW p \in P, NEW q \in P, p # q PROVE p.to < q.from \/ q.to < p.from
    BY DEF Apart
  <2>1. PICK r \in R : p \in parts(r)
    BY <1>6
  <2>2. PICK s \in R : q \in parts(s)
    BY <1>6
  <2>3. CASE r = s
    BY <1>8, <2>1, <2>2, <2>3 DEF PartsSound, Apart
  <2>4. CASE r # s
    <3>1. r[2] + 1 < s[1] \/ s[2] + 1 < r[1]
      BY <1>2, <2>4 DEF RunsSound
    <3>2. p.from \in r[1]..r[2] /\ p.to \in r[1]..r[2] /\ q.from \in s[1]..s[2] /\ q.to \in s[1]..s[2]
      BY <1>9, <2>1, <2>2
    <3>3. r[1] \in Nat /\ r[2] \in Nat /\ s[1] \in Nat /\ s[2] \in Nat
      BY <1>8
    <3> QED BY <3>1, <3>2, <3>3, WithinRuns
  <2> QED BY <2>3, <2>4
<1>12. Covers(t, P)
  <2> SUFFICES ASSUME NEW i \in 1..Len(t), Cutting!Meaningful(t[i]) PROVE \E p \in P : i \in p.from..p.to
    BY DEF Covers
  <2>1. i \in 1..n /\ i \in solid
    BY <1>1, <1>5 DEF Cutting!Meaningful
  <2>2. PICK r \in R : i \in r[1]..r[2]
    BY <1>2, <2>1 DEF RunsSound
  <2>3. PICK p \in parts(r) : i \in p.from..p.to
    BY <1>8, <2>2 DEF PartsSound
  <2> QED BY <1>7, <2>2, <2>3
<1>13. \A p \in P : Cutting!SliceMatches(t, p)
  <2> SUFFICES ASSUME NEW p \in P PROVE Cutting!SliceMatches(t, p)
    OBVIOUS
  <2>1. PICK r \in R : p \in parts(r)
    BY <1>6
  <2>2. p.from \in solid /\ p.to \in solid
    BY <1>2, <1>9, <2>1 DEF RunsSound
  <2> QED BY <1>4, <2>2 DEF Cutting!SliceMatches, Cutting!Blank
<1>14. Lists(Cutting!InOrder(P, Cutting!ByFrom(P)), P)
  BY <1>10, <1>11, ApartBegin, PartsInOrder, ByFromIs
<1> QED BY <1>1, <1>3, <1>10, <1>11, <1>12, <1>13, <1>14, ListIsCut, ListIsExact

-----------------------------------------------------------------------------
(* Units of code, and the blocks between them.                               *)

\* Blocks hold what means something and is not covered, and nothing that is.
BlocksSound(B, t, covered) ==
    /\ \A b \in B : /\ b.from \in 1..Len(t) /\ b.to \in b.from..Len(t) /\ b.kind = "block"
                    /\ b = Cutting!Span(b.from, b.to, b.kind)
                    /\ Cutting!Meaningful(t[b.from]) /\ Cutting!Meaningful(t[b.to])
                    /\ \A i \in b.from..b.to : i \notin covered
    /\ Apart(B)
    /\ \A i \in 1..Len(t) : i \notin covered /\ Cutting!Meaningful(t[i]) => \E b \in B : i \in b.from..b.to

\* What no unit covers is cut into blocks that hold every line that means something.
LEMMA BlocksAre ==
    ASSUME NEW t, Len(t) \in Nat, NEW covered
    PROVE  BlocksSound(Cutting!BlockSpans(t, covered), t, covered)
<1>1. PICK n \in Nat : n = Len(t)
  OBVIOUS
<1> DEFINE solid == Cutting!Lines(t) \ covered
           R == Cutting!Runs(1, Len(t), solid)
           useful(g) == {i \in g[1] .. g[2] : Cutting!Meaningful(t[i])}
           first(g) == Cutting!Min(useful(g))
           last(g) == Cutting!Max(useful(g))
           B == Cutting!BlockSpans(t, covered)
<1>2. RunsSound(R, 1, n, solid)
  BY <1>1, RunsAre
<1>3. B = {Cutting!Span(first(g), last(g), "block") : g \in {r \in R : useful(r) # {}}}
  BY DEF Cutting!BlockSpans
<1>4. \A i \in 1..n : i \in solid <=> i \notin covered
  BY <1>1 DEF Cutting!Lines
<1>5. \A r : \A i : i \in useful(r) <=> i \in r[1]..r[2] /\ Cutting!Meaningful(t[i])
  OBVIOUS
<1> HIDE DEF B, R, solid, useful
<1>6. ASSUME NEW r \in R, useful(r) # {}
      PROVE  /\ first(r) \in useful(r) /\ last(r) \in useful(r) /\ r[1] \in 1..n /\ r[2] \in 1..n
             /\ \A i \in useful(r) : first(r) <= i /\ i <= last(r)
  <2>1. r[1] \in 1..n /\ r[2] \in 1..n
    BY <1>2 DEF RunsSound
  <2>2. useful(r) \in SUBSET Nat /\ \A i \in useful(r) : i <= n
    BY <1>5, <2>1
  <2> QED BY <1>6, <2>1, <2>2, MinOf, MaxOf
<1> HIDE DEF first, last
<1>7. \A b \in B : \E r \in R : useful(r) # {} /\ b = Cutting!Span(first(r), last(r), "block")
  BY <1>3
<1>8. \A r \in R : useful(r) # {} => Cutting!Span(first(r), last(r), "block") \in B
  BY <1>3
<1>9. \A r \in R : /\ Cutting!Span(first(r), last(r), "block").from = first(r)
                   /\ Cutting!Span(first(r), last(r), "block").to = last(r)
                   /\ Cutting!Span(first(r), last(r), "block").kind = "block"
  BY DEF Cutting!Span
<1>10. ASSUME NEW r \in R, useful(r) # {}
       PROVE  /\ first(r) \in 1..n /\ last(r) \in first(r)..n /\ first(r) \in r[1]..r[2] /\ last(r) \in r[1]..r[2]
              /\ Cutting!Meaningful(t[first(r)]) /\ Cutting!Meaningful(t[last(r)])
              /\ \A i \in first(r)..last(r) : i \notin covered
  <2>1. /\ first(r) \in r[1]..r[2] /\ last(r) \in r[1]..r[2] /\ r[1] \in 1..n /\ r[2] \in 1..n
        /\ Cutting!Meaningful(t[first(r)]) /\ Cutting!Meaningful(t[last(r)]) /\ first(r) <= last(r)
    BY <1>5, <1>6, <1>10
  <2>2. first(r) \in 1..n /\ last(r) \in first(r)..n /\ \A i \in first(r)..last(r) : i \in r[1]..r[2] /\ i \in 1..n
    BY <2>1
  <2>3. \A i \in r[1]..r[2] : i \in solid
    BY <1>2 DEF RunsSound
  <2> QED BY <1>4, <2>1, <2>2, <2>3
<1>11. ASSUME NEW b \in B
       PROVE  /\ b.from \in 1..n /\ b.to \in b.from..n /\ b.kind = "block"
              /\ b = Cutting!Span(b.from, b.to, b.kind)
              /\ Cutting!Meaningful(t[b.from]) /\ Cutting!Meaningful(t[b.to])
              /\ \A i \in b.from..b.to : i \notin covered
  <2>1. PICK r \in R : useful(r) # {} /\ b = Cutting!Span(first(r), last(r), "block")
    BY <1>7
  <2>2. b.from = first(r) /\ b.to = last(r) /\ b.kind = "block"
    BY <1>9, <2>1
  <2> QED BY <1>10, <2>1, <2>2
<1>12. ASSUME NEW b \in B, NEW c \in B, b # c PROVE b.to < c.from \/ c.to < b.from
  <2>1. PICK r \in R : useful(r) # {} /\ b = Cutting!Span(first(r), last(r), "block")
    BY <1>7
  <2>2. PICK q \in R : useful(q) # {} /\ c = Cutting!Span(first(q), last(q), "block")
    BY <1>7
  <2>3. b.from = first(r) /\ b.to = last(r) /\ c.from = first(q) /\ c.to = last(q)
    BY <1>9, <2>1, <2>2
  <2>4. r # q
    BY <1>12, <2>1, <2>2
  <2>5. r[2] + 1 < q[1] \/ q[2] + 1 < r[1]
    BY <1>2, <2>4 DEF RunsSound
  <2>6. /\ first(r) \in r[1]..r[2] /\ last(r) \in r[1]..r[2] /\ r[1] \in 1..n /\ r[2] \in 1..n
        /\ first(q) \in q[1]..q[2] /\ last(q) \in q[1]..q[2] /\ q[1] \in 1..n /\ q[2] \in 1..n
    BY <1>6, <1>10, <2>1, <2>2
  <2>7. /\ b.from \in r[1]..r[2] /\ b.to \in r[1]..r[2] /\ r[1] \in 1..n /\ r[2] \in 1..n
        /\ c.from \in q[1]..q[2] /\ c.to \in q[1]..q[2] /\ q[1] \in 1..n /\ q[2] \in 1..n
    BY <2>3, <2>6
  <2>8. r[1] \in Nat /\ r[2] \in Nat /\ q[1] \in Nat /\ q[2] \in Nat
    BY <2>7
  <2> QED BY <2>5, <2>7, <2>8, WithinRuns
<1>13. ASSUME NEW i \in 1..n, i \notin covered, Cutting!Meaningful(t[i]) PROVE \E b \in B : i \in b.from..b.to
  <2>1. PICK r \in R : i \in r[1]..r[2]
    BY <1>2, <1>4, <1>13 DEF RunsSound
  <2>2. i \in useful(r)
    BY <1>5, <1>13, <2>1
  <2>3. first(r) <= i /\ i <= last(r) /\ first(r) \in 1..n /\ last(r) \in 1..n
    BY <1>6, <1>10, <2>2
  <2>4. i \in first(r)..last(r)
    BY <2>3
  <2> QED BY <1>8, <1>9, <2>2, <2>4
<1> QED BY <1>1, <1>11, <1>12, <1>13 DEF BlocksSound, Apart, B

\* The drafts of units.
Drawn(U) == {Cutting!Draft(u.from, u.to, u.kind, FALSE) : u \in U}

\* A draft is drawn for each unit, with its lines and its kind.
LEMMA DrawnAre ==
    ASSUME NEW U
    PROVE  /\ \A p \in Drawn(U) : /\ p.cut = FALSE
                                  /\ \E u \in U : p.from = u.from /\ p.to = u.to /\ p.kind = u.kind
           /\ \A u \in U : \E p \in Drawn(U) : p.from = u.from /\ p.to = u.to /\ p.kind = u.kind
           /\ \A p, q \in Drawn(U) : p.from = q.from /\ p.to = q.to /\ p.kind = q.kind => p = q
<1>1. \A u \in U : /\ Cutting!Draft(u.from, u.to, u.kind, FALSE).from = u.from
                   /\ Cutting!Draft(u.from, u.to, u.kind, FALSE).to = u.to
                   /\ Cutting!Draft(u.from, u.to, u.kind, FALSE).kind = u.kind
                   /\ Cutting!Draft(u.from, u.to, u.kind, FALSE).cut = FALSE
  BY DEF Cutting!Draft
<1>2. \A p \in Drawn(U) : \E u \in U : p = Cutting!Draft(u.from, u.to, u.kind, FALSE)
  BY DEF Drawn
<1>3. \A u \in U : Cutting!Draft(u.from, u.to, u.kind, FALSE) \in Drawn(U)
  BY DEF Drawn
<1>4. ASSUME NEW p \in Drawn(U), NEW q \in Drawn(U), p.from = q.from, p.to = q.to, p.kind = q.kind PROVE p = q
  <2>1. PICK u \in U : p = Cutting!Draft(u.from, u.to, u.kind, FALSE)
    BY <1>2
  <2>2. PICK v \in U : q = Cutting!Draft(v.from, v.to, v.kind, FALSE)
    BY <1>2
  <2>3. u.from = v.from /\ u.to = v.to /\ u.kind = v.kind
    BY <1>1, <1>4, <2>1, <2>2
  <2> QED BY <2>1, <2>2, <2>3
<1>5. ASSUME NEW p \in Drawn(U) PROVE p.cut = FALSE /\ \E u \in U : p.from = u.from /\ p.to = u.to /\ p.kind = u.kind
  <2>1. PICK u \in U : p = Cutting!Draft(u.from, u.to, u.kind, FALSE)
    BY <1>2
  <2> QED BY <1>1, <2>1
<1>6. ASSUME NEW u \in U PROVE \E p \in Drawn(U) : p.from = u.from /\ p.to = u.to /\ p.kind = u.kind
  <2>1. PICK p \in Drawn(U) : p = Cutting!Draft(u.from, u.to, u.kind, FALSE)
    BY <1>3
  <2> QED BY <1>1, <2>1
<1> QED BY <1>4, <1>5, <1>6

SpanKinds == {"class", "constant", "function", "block", "method"}

\* Spans of lines, of the kinds that units have.
Typed(S, n) == \A u \in S : /\ u.from \in 1..n /\ u.to \in u.from..n /\ u.kind \in SpanKinds
                            /\ u = Cutting!Span(u.from, u.to, u.kind)

\* The order of spans, by first line, last line and kind.
LEMMA SpansInOrder ==
    ASSUME NEW S, NEW n \in Nat, Typed(S, n)
    PROVE  IsFiniteSet(S) /\ IsOrder(Cutting!SpanOrder(S), S)
<1>1. \A u \in S : u.from \in 1..n /\ u.to \in 1..n /\ u.kind \in SpanKinds /\ Cutting!Rank(u.kind) \in Nat
  BY DEF Typed, SpanKinds, Cutting!Rank
<1>2. \A u, v \in S : u.from = v.from /\ u.to = v.to /\ u.kind = v.kind => u = v
  <2> SUFFICES ASSUME NEW u \in S, NEW v \in S, u.from = v.from, u.to = v.to, u.kind = v.kind PROVE u = v
    OBVIOUS
  <2>1. u = Cutting!Span(u.from, u.to, u.kind) /\ v = Cutting!Span(v.from, v.to, v.kind)
    BY DEF Typed
  <2> QED BY <2>1
<1>3. \A j, k \in SpanKinds : Cutting!Rank(j) = Cutting!Rank(k) => j = k
  BY DEF SpanKinds, Cutting!Rank
<1>4. \A u, v \in S : <<u, v>> \in Cutting!SpanOrder(S) <=> Cutting!SpanBefore(u, v)
  BY DEF Cutting!SpanOrder
<1>5. IsFiniteSet(S)
  <2>2. IsFiniteSet(1..n) /\ IsFiniteSet(SpanKinds)
    <3>1. IsFiniteSet(1..n)
      BY FS_Interval
    <3>2. IsFiniteSet({}) 
      BY FS_EmptySet
    <3>3. SpanKinds = (((({} \cup {"class"}) \cup {"constant"}) \cup {"function"}) \cup {"block"}) \cup {"method"}
      BY DEF SpanKinds
    <3>4. IsFiniteSet((((({} \cup {"class"}) \cup {"constant"}) \cup {"function"}) \cup {"block"}) \cup {"method"})
      BY <3>2, FS_AddElement
    <3> QED BY <3>1, <3>3, <3>4
  <2> DEFINE g == [u \in S |-> <<<<u.from, u.to>>, u.kind>>]
             T == (1..n) \X (1..n)
  <2>3. g \in Injection(S, T \X SpanKinds)
    BY <1>1, <1>2 DEF Injection, IsInjective
  <2>4. IsFiniteSet(T)
    BY <2>2, FS_Product
  <2> HIDE DEF T, g
  <2>5. IsFiniteSet(T \X SpanKinds)
    BY <2>2, <2>4, FS_Product
  <2> QED BY <2>3, <2>5, FS_Injection
<1>6. ASSUME NEW u \in S PROVE <<u, u>> \notin Cutting!SpanOrder(S)
  BY <1>1, <1>4 DEF Cutting!SpanBefore
<1>7. ASSUME NEW u \in S, NEW v \in S, NEW w \in S, Cutting!SpanBefore(u, v), Cutting!SpanBefore(v, w)
      PROVE  Cutting!SpanBefore(u, w)
  <2>1. PICK a, b, c : a = Cutting!Rank(u.kind) /\ b = Cutting!Rank(v.kind) /\ c = Cutting!Rank(w.kind)
    OBVIOUS
  <2> QED BY <1>1, <1>7, <2>1 DEF Cutting!SpanBefore
<1>8. ASSUME NEW u \in S, NEW v \in S, u # v PROVE Cutting!SpanBefore(u, v) \/ Cutting!SpanBefore(v, u)
  <2>1. u.from # v.from \/ u.to # v.to \/ u.kind # v.kind
    BY <1>2, <1>8
  <2>2. u.kind # v.kind => Cutting!Rank(u.kind) # Cutting!Rank(v.kind)
    BY <1>1, <1>3
  <2>3. PICK a, b : a = Cutting!Rank(u.kind) /\ b = Cutting!Rank(v.kind) /\ a \in Nat /\ b \in Nat
    BY <1>1
  <2> QED BY <1>1, <2>1, <2>2, <2>3 DEF Cutting!SpanBefore
<1>9. \A u, v, w \in S : <<u, v>> \in Cutting!SpanOrder(S) /\ <<v, w>> \in Cutting!SpanOrder(S) => <<u, w>> \in Cutting!SpanOrder(S)
  BY <1>4, <1>7
<1>10. \A u, v \in S : u = v \/ <<u, v>> \in Cutting!SpanOrder(S) \/ <<v, u>> \in Cutting!SpanOrder(S)
  BY <1>4, <1>8
<1> QED BY <1>5, <1>6, <1>9, <1>10 DEF IsOrder

\* The drafts of units that begin in different lines, in the order of spans.
LEMMA DrawnInOrder ==
    ASSUME NEW n \in Nat, NEW U, Begins(U, n), Typed(U, n)
    PROVE  Lists(Cutting!InOrder(Drawn(U), Cutting!SpanOrder(Drawn(U))), Drawn(U))
<1>1. PICK V : V = Drawn(U)
  OBVIOUS
<1>15. /\ \A p \in Drawn(U) : p.cut = FALSE /\ \E u \in U : p.from = u.from /\ p.to = u.to /\ p.kind = u.kind
       /\ \A u \in U : \E p \in Drawn(U) : p.from = u.from /\ p.to = u.to /\ p.kind = u.kind
       /\ \A p, q \in Drawn(U) : p.from = q.from /\ p.to = q.to /\ p.kind = q.kind => p = q
  BY DrawnAre
<1>2. \A p \in V : \E u \in U : p.from = u.from /\ p.to = u.to /\ p.kind = u.kind
  BY <1>1, <1>15
<1>3. \A p \in V : p.from \in 1..n /\ p.to \in Nat /\ Cutting!Rank(p.kind) \in Nat
  <2>1. \A u \in U : u.from \in 1..n /\ u.to \in Nat /\ Cutting!Rank(u.kind) \in Nat
    BY DEF Typed, SpanKinds, Cutting!Rank
  <2> QED BY <1>2, <2>1
<1>4. \A p, q \in V : p.from = q.from => p = q
  <2> SUFFICES ASSUME NEW p \in V, NEW q \in V, p.from = q.from PROVE p = q
    OBVIOUS
  <2>1. PICK u \in U : p.from = u.from /\ p.to = u.to /\ p.kind = u.kind
    BY <1>2
  <2>2. PICK v \in U : q.from = v.from /\ q.to = v.to /\ q.kind = v.kind
    BY <1>2
  <2>3. u.from = v.from => u = v
    BY DEF Begins
  <2>4. u = v
    BY <2>1, <2>2, <2>3
  <2> QED BY <1>1, <1>15, <2>1, <2>2, <2>4
<1>5. Begins(V, n)
  BY <1>3, <1>4 DEF Begins
<1>6. \A p, q \in V : <<p, q>> \in Cutting!SpanOrder(V) <=> p.from < q.from
  <2> SUFFICES ASSUME NEW p \in V, NEW q \in V PROVE <<p, q>> \in Cutting!SpanOrder(V) <=> p.from < q.from
    OBVIOUS
  <2>1. <<p, q>> \in Cutting!SpanOrder(V) <=> Cutting!SpanBefore(p, q)
    BY DEF Cutting!SpanOrder
  <2>2. CASE p = q
    BY <1>3, <2>1, <2>2 DEF Cutting!SpanBefore
  <2>3. CASE p # q
    <3>1. p.from # q.from
      BY <1>4, <2>3
    <3> QED BY <2>1, <3>1 DEF Cutting!SpanBefore
  <2> QED BY <2>2, <2>3
<1>7. Lists(Cutting!InOrder(V, Cutting!SpanOrder(V)), V)
  BY <1>5, <1>6, PartsInOrder
<1> QED BY <1>1, <1>7

\* Units that begin in different lines are listed in their order.
LEMMA UnitsAre ==
    ASSUME NEW l, NEW t, NEW n \in Nat, NEW S, NEW U, S = Cutting!Spans(l, t),
           U = S \cup Cutting!BlockSpans(t, Cutting!Covered(l, t, S)), Begins(U, n), Typed(U, n)
    PROVE  Lists(Cutting!Units(l, t), Drawn(U))
<1>1. \A W : W = S \cup Cutting!BlockSpans(t, Cutting!Covered(l, t, S)) =>
                Cutting!Units(l, t) = Cutting!InOrder(Drawn(W), Cutting!SpanOrder(Drawn(W)))
  BY DEF Cutting!Units, Drawn
<1>2. PICK W : W = U
  OBVIOUS
<1>3. Lists(Cutting!InOrder(Drawn(W), Cutting!SpanOrder(Drawn(W))), Drawn(W))
  BY <1>2, DrawnInOrder
<1> QED BY <1>1, <1>2, <1>3

-----------------------------------------------------------------------------
(* Accepted spans do not touch.                                              *)

Keep(s, A, i) == IF \E x \in A : Cutting!Touch(x, s[i]) THEN A ELSE A \cup {s[i]}

\* Which spans are kept is defined line by line, so the recursion has a solution.
LEMMA KeepingExists ==
    ASSUME NEW S, NEW s \in Seq(S)
    PROVE  \E u : /\ \A i \in 0..Len(s) : u[i] = IF i = 0 THEN {} ELSE Keep(s, u[i - 1], i)
                  /\ u = CHOOSE f : f = [i \in 0..Len(s) |-> IF i = 0 THEN {} ELSE Keep(s, f[i - 1], i)]
<1> SUFFICES ASSUME NEW u, u = CHOOSE f : f = [i \in 0..Len(s) |-> IF i = 0 THEN {} ELSE Keep(s, f[i - 1], i)]
             PROVE  \A i \in 0..Len(s) : u[i] = IF i = 0 THEN {} ELSE Keep(s, u[i - 1], i)
  OBVIOUS
<1>1. PICK n \in Nat : n = Len(s) /\ \A i \in 1..n : s[i] \in S
  OBVIOUS
<1> DEFINE X == SUBSET S
           F(f) == [i \in 0..Len(s) |-> IF i = 0 THEN {} ELSE Keep(s, f[i - 1], i)]
           g == [p \in X \X (1..n) |-> Keep(s, p[1], p[2])]
<1>2. \A x \in X, i \in 1..n : g[<<x, i>>] = Keep(s, x, i)
  OBVIOUS
<1>3. \A x \in X, i \in 1..n : Keep(s, x, i) \in X
  BY <1>1 DEF Keep
<1>4. g \in [X \X (1..n) -> X]
  BY <1>3
<1>5. PICK a : a = {}
  OBVIOUS
<1>6. a \in X
  BY <1>5
<1> HIDE DEF g, X
<1>7. \E h : Computes(h, n, X, a, g)
  BY <1>4, <1>6, StepsExist
<1>8. PICK h \in [0..n -> X] : h[0] = a /\ \A i \in 1..n : h[i] = g[<<h[i - 1], i>>]
  BY <1>7 DEF Computes
<1>9. ASSUME NEW i \in 0..n PROVE h[i] = IF i = 0 THEN {} ELSE Keep(s, h[i - 1], i)
  <2>1. CASE i = 0
    BY <1>5, <1>8, <2>1
  <2>2. CASE i # 0
    <3>1. i \in 1..n /\ i - 1 \in 0..n
      BY <2>2
    <3>2. h[i - 1] \in X
      BY <3>1
    <3> QED BY <1>2, <1>8, <2>2, <3>1, <3>2
  <2> QED BY <2>1, <2>2
<1>10. h = F(h)
  BY <1>1, <1>8, <1>9
<1>11. u = F(u)
  BY <1>10
<1> QED BY <1>11

\* Spans that are accepted are apart.
LEMMA AcceptedIs ==
    ASSUME NEW S, NEW n \in Nat, Typed(S, n)
    PROVE  Cutting!Accepted(S) \subseteq S /\ Apart(Cutting!Accepted(S))
<1>1. IsFiniteSet(S) /\ IsOrder(Cutting!SpanOrder(S), S)
  BY SpansInOrder
<1>2. PICK s \in Seq(S) : s = Cutting!InOrder(S, Cutting!SpanOrder(S))
  BY <1>1, InOrderIs
<1>3. PICK m \in Nat : m = Len(s) /\ \A i \in 1..m : s[i] \in S
  OBVIOUS
<1>4. PICK u : /\ \A i \in 0..m : u[i] = IF i = 0 THEN {} ELSE Keep(s, u[i - 1], i)
               /\ u = CHOOSE f : f = [i \in 0..Len(s) |-> IF i = 0 THEN {} ELSE Keep(s, f[i - 1], i)]
  BY <1>3, KeepingExists
<1>5. Cutting!Accepted(S) = u[m]
  BY <1>2, <1>3, <1>4 DEF Cutting!Accepted, Keep
<1>6. \A x \in S : x.from \in Nat /\ x.to \in Nat
  BY DEF Typed
<1> DEFINE U == {i \in 0..m : u[i] \subseteq S /\ Apart(u[i])}
<1>7. 0 \in U
  BY <1>4 DEF Apart
<1>8. ASSUME NEW i \in 0..m - 1, i \in U PROVE i + 1 \in U
  <2>1. i + 1 \in 0..m /\ i + 1 # 0 /\ (i + 1) - 1 = i /\ i + 1 \in 1..m
    OBVIOUS
  <2>2. u[i + 1] = Keep(s, u[i], i + 1)
    BY <1>4, <2>1
  <2>3. CASE \E x \in u[i] : Cutting!Touch(x, s[i + 1])
    <3>1. u[i + 1] = u[i]
      BY <2>2, <2>3 DEF Keep
    <3> QED BY <1>8, <2>1, <3>1
  <2>4. CASE \A x \in u[i] : ~Cutting!Touch(x, s[i + 1])
    <3>1. u[i + 1] = u[i] \cup {s[i + 1]}
      BY <2>2, <2>4 DEF Keep
    <3>2. s[i + 1] \in S /\ u[i] \subseteq S /\ Apart(u[i])
      BY <1>3, <1>8, <2>1
    <3>3. \A x \in u[i] : x.to < s[i + 1].from \/ s[i + 1].to < x.from
      BY <1>6, <2>4, <3>2 DEF Cutting!Touch
    <3>4. Apart(u[i + 1])
      BY <3>1, <3>2, <3>3 DEF Apart
    <3> QED BY <2>1, <3>1, <3>2, <3>4
  <2> QED BY <2>3, <2>4
<1> HIDE DEF U
<1>9. 0..m \subseteq U
  BY <1>7, <1>8, Climb
<1> QED BY <1>5, <1>9 DEF U

-----------------------------------------------------------------------------
(* What units of code are in a text, when spans are apart.                   *)

\* No line of a draft that is a block, or that lines which are covered by others have.
Whole(t, S) == \A u \in S : t[u.from].tag # "empty" /\ t[u.to].tag # "empty"

\* Spans that do not meet, with the blocks between them, cut a text well.
LEMMA ApartUnits ==
    ASSUME NEW l, NEW t, Len(t) \in Nat, l # "python", Typed(Cutting!Spans(l, t), Len(t)),
           Apart(Cutting!Spans(l, t)), Whole(t, Cutting!Spans(l, t))
    PROVE  /\ Parted(t, Cutting!Units(l, t)) /\ Exact(t, Cutting!Units(l, t))
           /\ \A n \in 1..Len(Cutting!Units(l, t)) :
                /\ Cutting!Units(l, t)[n].cut = FALSE
                /\ \/ Cutting!Units(l, t)[n].kind = "block"
                   \/ Cutting!Span(Cutting!Units(l, t)[n].from, Cutting!Units(l, t)[n].to, Cutting!Units(l, t)[n].kind)
                        \in Cutting!Spans(l, t)
<1>1. PICK n \in Nat : n = Len(t)
  OBVIOUS
<1>2. PICK S : S = Cutting!Spans(l, t)
  OBVIOUS
<1>3. PICK C : C = Cutting!Covered(l, t, S)
  OBVIOUS
<1>4. PICK B : B = Cutting!BlockSpans(t, C)
  OBVIOUS
<1>5. PICK U : U = S \cup B
  OBVIOUS
<1>6. PICK d : d = Cutting!Units(l, t)
  OBVIOUS
<1>7. BlocksSound(B, t, C)
  BY <1>4, BlocksAre
<1>8. C = (UNION {s.from .. s.to : s \in S}) \cup Cutting!ClosingLines(t)
  BY <1>3 DEF Cutting!Covered
<1>9. \A s \in S : \A i \in s.from..s.to : i \in C
  BY <1>8
<1>10. \A b \in B : /\ b.from \in 1..n /\ b.to \in b.from..n /\ b.kind = "block" /\ b = Cutting!Span(b.from, b.to, b.kind)
                    /\ Cutting!Meaningful(t[b.from]) /\ Cutting!Meaningful(t[b.to])
                    /\ \A i \in b.from..b.to : i \notin C
  BY <1>1, <1>7 DEF BlocksSound
<1>11. Typed(U, n)
  BY <1>1, <1>2, <1>5, <1>10 DEF Typed, SpanKinds
<1>12. InText(U, n)
  BY <1>11 DEF Typed, InText
<1>13. ASSUME NEW s \in S, NEW b \in B PROVE s.to < b.from \/ b.to < s.from
  <2>1. /\ s.from \in 1..n /\ s.to \in s.from..n /\ b.from \in 1..n /\ b.to \in b.from..n
        /\ b.from \in b.from..b.to /\ s.from \in s.from..s.to
    BY <1>5, <1>12 DEF InText
  <2>2. b.from \notin s.from..s.to
    BY <1>9, <1>10, <2>1
  <2>3. s.from \notin b.from..b.to
    BY <1>9, <1>10, <2>1
  <2> QED BY <2>1, <2>2, <2>3
<1>14. Apart(U)
  BY <1>2, <1>5, <1>7, <1>13 DEF Apart, BlocksSound
<1>15. ASSUME NEW i \in 1..n, Cutting!Meaningful(t[i]) PROVE \E u \in U : i \in u.from..u.to
  <2>1. CASE i \notin C
    BY <1>1, <1>5, <1>7, <1>15, <2>1 DEF BlocksSound
  <2>2. CASE i \in Cutting!ClosingLines(t)
    BY <1>15, <2>2 DEF Cutting!ClosingLines
  <2>3. CASE \E s \in S : i \in s.from..s.to
    BY <1>5, <2>3
  <2>4. i \in C => i \in Cutting!ClosingLines(t) \/ \E s \in S : i \in s.from..s.to
    BY <1>8
  <2> QED BY <2>1, <2>2, <2>3, <2>4
<1>16. Begins(U, n)
  BY <1>12, <1>14, ApartBegin
<1>17. Lists(d, Drawn(U))
  BY <1>2, <1>3, <1>4, <1>5, <1>6, <1>11, <1>16, UnitsAre
<1>18. PICK P : P = Drawn(U)
  OBVIOUS
<1>185. /\ \A p \in Drawn(U) : p.cut = FALSE /\ \E u \in U : p.from = u.from /\ p.to = u.to /\ p.kind = u.kind
        /\ \A u \in U : \E p \in Drawn(U) : p.from = u.from /\ p.to = u.to /\ p.kind = u.kind
        /\ \A p, q \in Drawn(U) : p.from = q.from /\ p.to = q.to /\ p.kind = q.kind => p = q
  BY DrawnAre
<1>19. /\ \A p \in P : p.cut = FALSE /\ \E u \in U : p.from = u.from /\ p.to = u.to /\ p.kind = u.kind
       /\ \A u \in U : \E p \in P : p.from = u.from /\ p.to = u.to /\ p.kind = u.kind
       /\ \A p, q \in P : p.from = q.from /\ p.to = q.to /\ p.kind = q.kind => p = q
  BY <1>18, <1>185
<1>20. InText(P, n)
  <2> SUFFICES ASSUME NEW p \in P PROVE p.from \in 1..n /\ p.to \in p.from..n
    BY DEF InText
  <2>1. PICK u \in U : p.from = u.from /\ p.to = u.to
    BY <1>19
  <2> QED BY <1>12, <2>1 DEF InText
<1>21. Apart(P)
  <2> SUFFICES ASSUME NEW p \in P, NEW q \in P, p # q PROVE p.to < q.from \/ q.to < p.from
    BY DEF Apart
  <2>1. PICK u \in U : p.from = u.from /\ p.to = u.to /\ p.kind = u.kind
    BY <1>19
  <2>2. PICK v \in U : q.from = v.from /\ q.to = v.to /\ q.kind = v.kind
    BY <1>19
  <2>3. u # v
    BY <1>19, <2>1, <2>2
  <2> QED BY <1>14, <2>1, <2>2, <2>3 DEF Apart
<1>22. Covers(t, P)
  <2> SUFFICES ASSUME NEW i \in 1..n, Cutting!Meaningful(t[i]) PROVE \E p \in P : i \in p.from..p.to
    BY <1>1 DEF Covers
  <2>1. PICK u \in U : i \in u.from..u.to
    BY <1>15
  <2> QED BY <1>19, <2>1
<1>23. \A p \in P : Cutting!SliceMatches(t, p)
  <2> SUFFICES ASSUME NEW p \in P PROVE t[p.from].tag # "empty" /\ t[p.to].tag # "empty"
    BY DEF Cutting!SliceMatches
  <2>1. PICK u \in U : p.from = u.from /\ p.to = u.to
    BY <1>19
  <2>2. CASE u \in S
    BY <1>2, <2>1, <2>2 DEF Whole
  <2>3. CASE u \in B
    BY <1>10, <2>1, <2>3 DEF Cutting!Meaningful, Cutting!Blank
  <2> QED BY <1>5, <2>2, <2>3
<1>24. Lists(d, P) /\ Parted(t, d) /\ Exact(t, d)
  BY <1>1, <1>17, <1>18, <1>20, <1>21, <1>22, <1>23, ListIsCut, ListIsExact
<1>25. \A k \in 1..Len(d) : d[k] \in P
  BY <1>24 DEF Lists
<1>26. ASSUME NEW p \in P PROVE p.cut = FALSE /\ (p.kind = "block" \/ Cutting!Span(p.from, p.to, p.kind) \in S)
  <2>1. PICK u \in U : p.from = u.from /\ p.to = u.to /\ p.kind = u.kind
    BY <1>19
  <2>2. u = Cutting!Span(u.from, u.to, u.kind)
    BY <1>11 DEF Typed
  <2>3. u \in B => u.kind = "block"
    BY <1>10
  <2> QED BY <1>5, <1>19, <2>1, <2>2, <2>3
<1> QED BY <1>2, <1>6, <1>24, <1>25, <1>26

-----------------------------------------------------------------------------
(* Braces and what they close.                                               *)

BraceKinds == {"open", "close"}

\* A text of a language with braces.
BracedText(t) ==
    /\ Len(t) \in Nat
    /\ \A i \in 1..Len(t) : /\ t[i] = Braced(t[i].tag, t[i].braces, t[i].semicolon)
                            /\ t[i].braces \in Seq(BraceKinds)
                            /\ t[i].tag \in {"empty", "spaces"} => t[i].braces = <<>>

\* What a mask leaves of its lines.
MaskOf(M, t) ==
    /\ Len(M) = Len(t)
    /\ \A i \in 1..Len(t) : /\ M[i].braces \in Seq(BraceKinds) /\ Len(M[i].braces) \in Nat
                            /\ M[i] = t[i] \/ (M[i].tag = "masked" /\ M[i].braces = <<>>)
                            /\ M[i].braces # <<>> => t[i].tag \notin {"empty", "spaces"}

\* Masking blanks what is in a comment and changes nothing else.
LEMMA MaskedIs ==
    ASSUME NEW t, BracedText(t)
    PROVE  MaskOf(Cutting!Masked(t), t)
<1>1. PICK n \in Nat : n = Len(t)
  BY DEF BracedText
<1>2. PICK C : C = Cutting!Comment(t)
  OBVIOUS
<1> DEFINE e(i) == IF C[i - 1] \/ C[i]
                   THEN [t[i] EXCEPT !.tag = "masked", !.braces = <<>>, !.semicolon = "none"] ELSE t[i]
           m == [i \in 1..n |-> e(i)]
           X == {e(i) : i \in 1..n}
<1>3. Cutting!Masked(t) = m
  <2>1. Cutting!Masked(t) =
           [i \in 1..Len(t) |->
              IF Cutting!Comment(t)[i - 1] \/ Cutting!Comment(t)[i]
              THEN [t[i] EXCEPT !.tag = "masked", !.braces = <<>>, !.semicolon = "none"] ELSE t[i]]
    BY Zenon DEF Cutting!Masked, Cutting!Lines
  <2> QED BY <1>1, <1>2, <2>1, Zenon
<1>4. m \in [1..n -> X]
  OBVIOUS
<1>5. Len(m) = n
  <2> HIDE DEF m, X
  <2> QED BY <1>4
<1>6. ASSUME NEW i \in 1..n
      PROVE  /\ m[i].braces \in Seq(BraceKinds) /\ Len(m[i].braces) \in Nat
             /\ m[i] = t[i] \/ (m[i].tag = "masked" /\ m[i].braces = <<>>)
             /\ m[i].braces # <<>> => t[i].tag \notin {"empty", "spaces"}
  <2>1. /\ t[i] = Braced(t[i].tag, t[i].braces, t[i].semicolon) /\ t[i].braces \in Seq(BraceKinds)
        /\ t[i].tag \in {"empty", "spaces"} => t[i].braces = <<>>
    BY <1>1 DEF BracedText
  <2>2. m[i] = e(i)
    OBVIOUS
  <2>3. PICK a, b, c : t[i] = [tag |-> a, braces |-> b, semicolon |-> c]
    BY <2>1 DEF Braced
  <2>4. PICK x : x = [t[i] EXCEPT !.tag = "masked", !.braces = <<>>, !.semicolon = "none"]
    OBVIOUS
  <2>5. x.tag = "masked" /\ x.braces = <<>>
    BY <2>3, <2>4
  <2>6. m[i] = t[i] \/ m[i] = x
    BY <2>2, <2>4
  <2>7. m[i] = t[i] \/ (m[i].tag = "masked" /\ m[i].braces = <<>>)
    BY <2>5, <2>6
  <2>8. m[i].braces = t[i].braces \/ m[i].braces = <<>>
    BY <2>5, <2>6
  <2>9. <<>> \in Seq(BraceKinds)
    OBVIOUS
  <2>10. m[i].braces \in Seq(BraceKinds)
    BY <2>1, <2>8, <2>9
  <2> QED BY <2>1, <2>7, <2>8, <2>10
<1> HIDE DEF m
<1> QED BY <1>1, <1>3, <1>5, <1>6 DEF MaskOf

\* The braces of lines in their order.
BracesOf(b, M) ==
    /\ Len(b) \in Nat
    /\ \A n \in 1..Len(b) : /\ b[n][1] \in 1..Len(M) /\ b[n][2] \in BraceKinds /\ b[n] = <<b[n][1], b[n][2]>>
                            /\ M[b[n][1]].braces # <<>>
    /\ \A m, n \in 1..Len(b) : m <= n => b[m][1] <= b[n][1]
    /\ \A i \in 1..Len(M) : Cutting!Opens(M[i]) => \E n \in 1..Len(b) : b[n] = <<i, "open">>

\* The braces of a text come in the order of their lines and, in a line, of their places.
LEMMA BracesAre ==
    ASSUME NEW M, NEW t, MaskOf(M, t), Len(t) \in Nat
    PROVE  BracesOf(Cutting!Braces(M), M)
<1>1. PICK n \in Nat : n = Len(M) /\ n = Len(t)
  BY DEF MaskOf
<1>2. \A i \in 1..n : M[i].braces \in Seq(BraceKinds) /\ Len(M[i].braces) \in Nat
  BY <1>1 DEF MaskOf
<1> DEFINE row(i) == {<<i, c>> : c \in Cutting!Lines(M[i].braces)}
           places == UNION {row(i) : i \in Cutting!Lines(M)}
           order == {p \in places \X places : p[1][1] < p[2][1] \/ (p[1][1] = p[2][1] /\ p[1][2] < p[2][2])}
<1>3. \A p : p \in places <=> \E i \in 1..n : \E c \in 1..Len(M[i].braces) : p = <<i, c>>
  BY <1>1 DEF Cutting!Lines
<1>4. IsFiniteSet(places)
  <2>1. \A i \in 1..n : IsFiniteSet(row(i))
    <3> SUFFICES ASSUME NEW i \in 1..n PROVE IsFiniteSet(row(i))
      OBVIOUS
    <3>1. PICK k \in Nat : k = Len(M[i].braces)
      BY <1>2
    <3>15. IsFiniteSet({i})
      BY FS_Singleton
    <3>16. IsFiniteSet(1..k)
      BY FS_Interval
    <3>2. IsFiniteSet({i}) /\ IsFiniteSet(1..k)
      BY <3>15, <3>16
    <3>25. PICK A, B : A = {i} /\ B = 1..k
      OBVIOUS
    <3>26. IsFiniteSet(A \X B)
      BY <3>2, <3>25, FS_Product
    <3>3. IsFiniteSet({i} \X (1..k))
      BY <3>25, <3>26
    <3>4. row(i) = {i} \X (1..k)
      BY <3>1 DEF Cutting!Lines
    <3> QED BY <3>3, <3>4
  <2> DEFINE R == {row(i) : i \in 1..n}
             f == [i \in 1..n |-> row(i)]
  <2>2. f \in Surjection(1..n, R)
    BY DEF Surjection
  <2>3. IsFiniteSet(1..n)
    BY FS_Interval
  <2>4. IsFiniteSet(R)
    <3> HIDE DEF f, R
    <3> QED BY <2>2, <2>3, FS_Surjection
  <2>5. \A x \in R : IsFiniteSet(x)
    BY <2>1
  <2>6. places = UNION R
    BY <1>1 DEF Cutting!Lines
  <2> HIDE DEF R, places
  <2> QED BY <2>4, <2>5, <2>6, FS_UNION
<1>5. \A p \in places : p[1] \in 1..n /\ p[2] \in Nat /\ p = <<p[1], p[2]>>
  BY <1>2, <1>3
<1> HIDE DEF places
<1>6. \A p, q \in places : <<p, q>> \in order <=> p[1] < q[1] \/ (p[1] = q[1] /\ p[2] < q[2])
  OBVIOUS
<1> HIDE DEF order
<1>7. IsOrder(order, places)
  <2>1. \A p \in places : <<p, p>> \notin order
    BY <1>5, <1>6
  <2>2. \A p, q, r \in places : <<p, q>> \in order /\ <<q, r>> \in order => <<p, r>> \in order
    BY <1>5, <1>6
  <2>3. \A p, q \in places : p = q \/ <<p, q>> \in order \/ <<q, p>> \in order
    <3> SUFFICES ASSUME NEW p \in places, NEW q \in places, p # q PROVE <<p, q>> \in order \/ <<q, p>> \in order
      OBVIOUS
    <3>1. p[1] # q[1] \/ p[2] # q[2]
      BY <1>5
    <3>2. p[1] \in Nat /\ q[1] \in Nat /\ p[2] \in Nat /\ q[2] \in Nat
      BY <1>5
    <3> QED BY <1>6, <3>1, <3>2
  <2> QED BY <2>1, <2>2, <2>3 DEF IsOrder
<1>8. PICK s \in Seq(places) :
          /\ s = Cutting!InOrder(places, order) /\ (\A x \in places : \E i \in 1..Len(s) : s[i] = x)
          /\ \A i, j \in 1..Len(s) : <<s[i], s[j]>> \in order => i < j
  BY <1>4, <1>7, InOrderIs
<1>9. PICK m \in Nat : m = Len(s) /\ \A i \in 1..m : s[i] \in places
  <2>1. Len(s) \in Nat /\ \A i \in 1..Len(s) : s[i] \in places
    OBVIOUS
  <2> QED BY <2>1
<1> DEFINE e(k) == <<s[k][1], M[s[k][1]].braces[s[k][2]]>>
           b == [k \in 1..m |-> e(k)]
           X == {e(k) : k \in 1..m}
<1>10. Cutting!Braces(M) = b
  BY <1>8, <1>9 DEF Cutting!Braces, Cutting!Lines, places, order
<1>11. b \in [1..m -> X]
  OBVIOUS
<1>12. Len(b) = m
  BY <1>11
<1>13. \A k \in 1..m : b[k] = <<s[k][1], M[s[k][1]].braces[s[k][2]]>>
  OBVIOUS
<1> HIDE DEF b, X
<1>14. ASSUME NEW k \in 1..m
       PROVE  /\ b[k][1] \in 1..n /\ b[k][2] \in BraceKinds /\ b[k] = <<b[k][1], b[k][2]>>
              /\ M[b[k][1]].braces # <<>> /\ b[k][1] = s[k][1]
  <2>0. PICK i \in 1..n : \E c \in 1..Len(M[i].braces) : s[k] = <<i, c>>
    BY <1>3, <1>9
  <2>1. PICK c \in 1..Len(M[i].braces) : s[k] = <<i, c>>
    BY <2>0
  <2>2. PICK r \in Seq(BraceKinds) : r = M[i].braces
    BY <1>2
  <2>3. c \in 1..Len(r) /\ r[c] \in BraceKinds /\ r # <<>>
    BY <2>1, <2>2
  <2>4. b[k] = <<i, r[c]>>
    BY <1>13, <2>1, <2>2
  <2> QED BY <2>1, <2>2, <2>3, <2>4
<1>15. ASSUME NEW j \in 1..m, NEW k \in 1..m, j <= k PROVE b[j][1] <= b[k][1]
  <2>1. s[j] \in places /\ s[k] \in places /\ b[j][1] = s[j][1] /\ b[k][1] = s[k][1]
    BY <1>9, <1>14
  <2>2. s[k][1] \in Nat /\ s[j][1] \in Nat
    <3>1. \A p \in places : p[1] \in Nat
      BY <1>5
    <3> QED BY <2>1, <3>1
  <2>3. ASSUME s[k][1] < s[j][1] PROVE FALSE
    <3>1. <<s[k], s[j]>> \in order
      BY <1>6, <2>1, <2>3
    <3>2. k < j
      BY <1>8, <1>9, <3>1
    <3> QED BY <1>15, <3>2
  <2> QED BY <2>1, <2>2, <2>3
<1>16. ASSUME NEW i \in 1..n, Cutting!Opens(M[i]) PROVE \E k \in 1..m : b[k] = <<i, "open">>
  <2>1. PICK c \in 1..Len(M[i].braces) : M[i].braces[c] = "open"
    BY <1>16 DEF Cutting!Opens, Cutting!Lines
  <2>2. <<i, c>> \in places
    BY <1>3
  <2>3. PICK k \in 1..m : s[k] = <<i, c>>
    BY <1>8, <1>9, <2>2
  <2> QED BY <1>13, <2>1, <2>3
<1>17. \A k \in 1..m : /\ b[k][1] \in 1..n /\ b[k][2] \in BraceKinds /\ b[k] = <<b[k][1], b[k][2]>>
                       /\ M[b[k][1]].braces # <<>>
  BY <1>14
<1>18. BracesOf(b, M)
  BY <1>1, <1>12, <1>15, <1>16, <1>17 DEF BracesOf
<1> QED BY <1>10, <1>18

\* Counting braces, and one more of them.
LEMMA CountIs ==
    ASSUME NEW b, NEW k, NEW m, NEW n, m \in Nat, n \in Nat
    PROVE  Cutting!Count(b, m, n, k) \in Nat
<1> DEFINE T == {i \in m..n : b[i][2] = k}
<1>1. Cutting!Count(b, m, n, k) = Cardinality(T)
  BY DEF Cutting!Count, Cutting!Cardinality, Cardinality
<1>2. IsFiniteSet(m..n)
  BY FS_Interval
<1>3. T \in SUBSET (m..n)
  OBVIOUS
<1>4. IsFiniteSet(T) /\ Cardinality(T) \in Nat
  BY <1>2, <1>3, FS_Subset, FS_CardinalityType
<1> QED BY <1>1, <1>4

\* An empty stretch holds no brace.
LEMMA CountNone ==
    ASSUME NEW b, NEW k, NEW m, NEW n, m \in Nat, n \in Nat, n < m
    PROVE  Cutting!Count(b, m, n, k) = 0
<1> DEFINE T == {i \in m..n : b[i][2] = k}
<1>1. Cutting!Count(b, m, n, k) = Cardinality(T)
  BY DEF Cutting!Count, Cutting!Cardinality, Cardinality
<1>2. T = {}
  OBVIOUS
<1> QED BY <1>1, <1>2, FS_EmptySet

\* One more place counts one more brace, if it is of that kind.
LEMMA CountNext ==
    ASSUME NEW b, NEW k, NEW m, NEW n, m \in Nat \ {0}, n \in Nat, m <= n
    PROVE  /\ b[n][2] = k => Cutting!Count(b, m, n, k) = Cutting!Count(b, m, n - 1, k) + 1
           /\ b[n][2] # k => Cutting!Count(b, m, n, k) = Cutting!Count(b, m, n - 1, k)
<1> DEFINE T(j) == {i \in m..j : b[i][2] = k}
<1>1. \A j : Cutting!Count(b, m, j, k) = Cardinality(T(j))
  BY DEF Cutting!Count, Cutting!Cardinality, Cardinality
<1>2. IsFiniteSet(m..n - 1)
  BY FS_Interval
<1>3. T(n - 1) \in SUBSET (m..n - 1)
  OBVIOUS
<1>4. IsFiniteSet(T(n - 1)) /\ Cardinality(T(n - 1)) \in Nat
  BY <1>2, <1>3, FS_Subset, FS_CardinalityType
<1>7. CASE b[n][2] = k
  <2>1. T(n) = T(n - 1) \cup {n} /\ n \notin T(n - 1)
    BY <1>7
  <2> HIDE DEF T
  <2>2. Cardinality(T(n)) = Cardinality(T(n - 1)) + 1
    BY <1>4, <2>1, FS_AddElement
  <2> QED BY <1>1, <1>4, <1>7, <2>2
<1>8. CASE b[n][2] # k
  <2>1. T(n) = T(n - 1)
    BY <1>8
  <2> HIDE DEF T
  <2> QED BY <1>1, <1>4, <1>8, <2>1
<1> QED BY <1>7, <1>8

\* Braces before a brace and from it on are all of them.
LEMMA CountSplits ==
    ASSUME NEW b, NEW k, NEW m \in Nat \ {0}, NEW n \in Nat, m <= n
    PROVE  Cutting!Count(b, 1, n, k) = Cutting!Count(b, 1, m - 1, k) + Cutting!Count(b, m, n, k)
<1> DEFINE T(i, j) == {x \in i..j : b[x][2] = k}
<1>1. \A i, j : Cutting!Count(b, i, j, k) = Cardinality(T(i, j))
  BY DEF Cutting!Count, Cutting!Cardinality, Cardinality
<1>2. PICK p, q, r : p = T(1, m - 1) /\ q = T(m, n) /\ r = T(1, n)
  OBVIOUS
<1>3. r = p \cup q /\ p \cap q = {}
  BY <1>2
<1>4. IsFiniteSet(1..n)
  BY FS_Interval
<1>5. p \in SUBSET (1..n) /\ q \in SUBSET (1..n)
  BY <1>2
<1>6. IsFiniteSet(p) /\ IsFiniteSet(q)
  BY <1>4, <1>5, FS_Subset
<1>7. Cardinality(p \cup q) = Cardinality(p) + Cardinality(q) - Cardinality(p \cap q)
  BY <1>6, FS_Union
<1>8. Cardinality(p) \in Nat /\ Cardinality(q) \in Nat /\ Cardinality(p \cap q) = 0
  BY <1>3, <1>6, FS_CardinalityType, FS_EmptySet
<1>9. Cardinality(r) = Cardinality(p) + Cardinality(q)
  BY <1>3, <1>7, <1>8
<1> QED BY <1>1, <1>2, <1>9

\* Braces that balance.
Balances(b) ==
    /\ \A n \in 1..Len(b) : Cutting!Count(b, 1, n, "close") <= Cutting!Count(b, 1, n, "open")
    /\ Cutting!Count(b, 1, Len(b), "close") = Cutting!Count(b, 1, Len(b), "open")

\* A brace that opens is closed.
LEMMA Closes ==
    ASSUME NEW b, Len(b) \in Nat, Balances(b), NEW m \in 1..Len(b), b[m][2] = "open"
    PROVE  \E k \in m..Len(b) : Cutting!Count(b, m, k, "close") = Cutting!Count(b, m, k, "open")
<1>1. PICK n \in Nat : n = Len(b)
  OBVIOUS
<1> DEFINE c(i) == Cutting!Count(b, m, i, "close")
           o(i) == Cutting!Count(b, m, i, "open")
           T == {i \in m..n : o(i) <= c(i)}
<1>2. m \in Nat \ {0} /\ m <= n /\ m - 1 \in Nat /\ m - 1 < m
  BY <1>1
<1>3. \A i \in Nat : c(i) \in Nat /\ o(i) \in Nat
  BY <1>2, CountIs
<1>4. n \in T
  <2>1. PICK j : j = m - 1
    OBVIOUS
  <2>2. PICK x, y : x = Cutting!Count(b, 1, j, "close") /\ y = Cutting!Count(b, 1, j, "open")
    OBVIOUS
  <2>3. x \in Nat /\ y \in Nat
    BY <1>2, <2>1, <2>2, CountIs
  <2>4. x <= y
    <3>1. CASE j = 0
      <4>1. x = 0 /\ y = 0
        BY <2>2, <3>1, CountNone
      <4> QED BY <4>1
    <3>2. CASE j # 0
      <4>1. j \in 1..Len(b)
        BY <1>1, <1>2, <2>1, <3>2
      <4> QED BY <2>2, <4>1 DEF Balances
    <3> QED BY <3>1, <3>2
  <2>5. /\ Cutting!Count(b, 1, n, "close") = x + c(n)
        /\ Cutting!Count(b, 1, n, "open") = y + o(n)
    BY <1>2, <2>1, <2>2, CountSplits
  <2>6. Cutting!Count(b, 1, n, "close") = Cutting!Count(b, 1, n, "open")
    BY <1>1 DEF Balances
  <2>7. c(n) \in Nat /\ o(n) \in Nat
    BY <1>3
  <2> HIDE DEF c, o
  <2>8. o(n) <= c(n)
    BY <2>3, <2>4, <2>5, <2>6, <2>7
  <2> QED BY <1>2, <2>8
<1>5. PICK k \in T : \A j \in T : k <= j
  <2>1. T \in SUBSET Nat /\ T # {}
    BY <1>4
  <2> QED BY <2>1, LeastOf
<1>6. k \in m..n /\ o(k) <= c(k) /\ k \in Nat /\ k - 1 \in Nat /\ m <= k
  BY <1>1, <1>5
<1>7. /\ b[k][2] = "close" => c(k) = c(k - 1) + 1
      /\ b[k][2] # "close" => c(k) = c(k - 1)
      /\ b[k][2] = "open" => o(k) = o(k - 1) + 1
      /\ b[k][2] # "open" => o(k) = o(k - 1)
  <2>1. m \in Nat \ {0} /\ k \in Nat /\ m <= k
    BY <1>2, <1>6
  <2>2. ASSUME NEW z
        PROVE  /\ b[k][2] = z => Cutting!Count(b, m, k, z) = Cutting!Count(b, m, k - 1, z) + 1
               /\ b[k][2] # z => Cutting!Count(b, m, k, z) = Cutting!Count(b, m, k - 1, z)
    BY ONLY <2>1, CountNext
  <2> QED BY <2>2
<1>8. c(m - 1) = 0 /\ o(m - 1) = 0
  BY <1>2, CountNone
<1>9. c(k - 1) \in Nat /\ o(k - 1) \in Nat /\ c(k) \in Nat /\ o(k) \in Nat
  BY <1>3, <1>6
<1>10. k # m
  <2> HIDE DEF c, o
  <2> SUFFICES ASSUME k = m PROVE FALSE
    OBVIOUS
  <2>1. c(k) = 0 /\ o(k) = 1
    BY <1>7, <1>8
  <2> QED BY <1>6, <2>1
<1>11. k - 1 \in m..n /\ ~(k <= k - 1)
  BY <1>1, <1>6, <1>10
<1>12. ~(o(k - 1) <= c(k - 1))
  BY <1>5, <1>11
<1> HIDE DEF c, o, T
<1>13. c(k) = o(k)
  BY <1>6, <1>7, <1>9, <1>12
<1> QED BY <1>1, <1>6, <1>13 DEF c, o

-----------------------------------------------------------------------------
(* Classes, functions and methods of a language with braces.                 *)

\* A mask whose braces balance.
GoodMask(M, t) == MaskOf(M, t) /\ Len(t) \in Nat /\ Balances(Cutting!Braces(M))

\* The block of a header opens in its line or later.
LEMMA OpeningIs ==
    ASSUME NEW M, NEW t, GoodMask(M, t), NEW i \in 1..Len(t), Cutting!OpeningLine(M, i) # 0
    PROVE  Cutting!OpeningLine(M, i) \in i..Len(t) /\ Cutting!Opens(M[Cutting!OpeningLine(M, i)])
<1>1. PICK n \in Nat : n = Len(t) /\ n = Len(M)
  BY DEF GoodMask, MaskOf
<1> DEFINE reach == i .. Cutting!Min({Len(M), (i + Lookahead) - 1})
           hits == {k \in reach : Cutting!Opens(M[k]) /\ M[k].semicolon # "first"}
           stops == {k \in reach : ~Cutting!Opens(M[k]) /\ M[k].semicolon # "none"}
<1>2. Cutting!OpeningLine(M, i) = IF hits = {} \/ (\E s \in stops : s < Cutting!Min(hits)) THEN 0 ELSE Cutting!Min(hits)
  BY DEF Cutting!OpeningLine
<1>3. Lookahead \in Nat /\ n \in Nat /\ i \in Nat /\ (i + Lookahead) - 1 \in Nat
  BY <1>1, LinesAssumption DEF LinesAssumption
<1>4. PICK m \in Nat : m = Cutting!Min({Len(M), (i + Lookahead) - 1}) /\ m <= n
  BY <1>1, <1>3, MinOfTwo
<1>5. reach = i..m
  BY <1>4
<1> HIDE DEF reach
<1>6. \A k \in hits : k \in i..n /\ Cutting!Opens(M[k])
  BY <1>1, <1>4, <1>5
<1> HIDE DEF hits, stops
<1>7. hits # {} /\ Cutting!OpeningLine(M, i) = Cutting!Min(hits)
  BY <1>2
<1>8. hits \in SUBSET Nat
  BY <1>1, <1>6
<1>9. Cutting!Min(hits) \in hits
  BY <1>7, <1>8, MinOf
<1> QED BY <1>1, <1>6, <1>7, <1>9

\* The block ends in that line or later, in one with a brace.
LEMMA EndIs ==
    ASSUME NEW M, NEW t, GoodMask(M, t), NEW i \in 1..Len(t), Cutting!OpeningLine(M, i) # 0
    PROVE  /\ Cutting!BlockEnd(M, i) \in Cutting!OpeningLine(M, i)..Len(t)
           /\ M[Cutting!BlockEnd(M, i)].braces # <<>>
<1>1. PICK n \in Nat : n = Len(t) /\ n = Len(M)
  BY DEF GoodMask, MaskOf
<1>2. PICK j : j = Cutting!OpeningLine(M, i)
  OBVIOUS
<1>3. j \in i..n /\ Cutting!Opens(M[j]) /\ j \in 1..n
  <2>1. j \in i..Len(t) /\ Cutting!Opens(M[j])
    BY <1>2, OpeningIs
  <2> QED BY <1>1, <2>1
<1>4. PICK b : b = Cutting!Braces(M)
  OBVIOUS
<1>5. BracesOf(b, M) /\ Balances(b)
  BY <1>4, BracesAre DEF GoodMask
<1>6. PICK m \in Nat : m = Len(b)
  BY <1>5 DEF BracesOf
<1> DEFINE O == {k \in Cutting!Lines(b) : b[k] = <<j, "open">>}
<1>7. O \in SUBSET Nat /\ O # {}
  <2>1. \E k \in 1..m : b[k] = <<j, "open">>
    BY <1>1, <1>3, <1>5, <1>6 DEF BracesOf
  <2> QED BY <1>6, <2>1 DEF Cutting!Lines
<1>8. PICK o : o = Cutting!Min(O)
  OBVIOUS
<1>9. o \in O
  BY <1>7, <1>8, MinOf
<1>10. o \in 1..m /\ b[o] = <<j, "open">>
  BY <1>6, <1>9 DEF Cutting!Lines
<1> DEFINE E == {k \in o .. Len(b) : Cutting!Count(b, o, k, "close") = Cutting!Count(b, o, k, "open")}
<1>11. E \in SUBSET Nat /\ E # {}
  <2>1. o \in 1..Len(b) /\ b[o][2] = "open" /\ Len(b) \in Nat
    BY <1>6, <1>10
  <2>2. E # {}
    BY <1>5, <2>1, Closes
  <2> QED BY <1>6, <1>10, <2>2
<1>12. PICK e : e = Cutting!Min(E)
  OBVIOUS
<1>13. e \in E
  BY <1>11, <1>12, MinOf
<1>14. e \in o..m
  BY <1>6, <1>13
<1>15. Cutting!BlockEnd(M, i) = b[e][1]
  BY <1>2, <1>4, <1>8, <1>12 DEF Cutting!BlockEnd, Cutting!CloseOf
<1>16. e \in 1..m /\ o <= e
  BY <1>10, <1>14
<1>17. b[o][1] <= b[e][1] /\ b[e][1] \in 1..n /\ M[b[e][1]].braces # <<>>
  BY <1>1, <1>5, <1>6, <1>10, <1>16 DEF BracesOf
<1>18. b[o][1] = j
  BY <1>10
<1> QED BY <1>1, <1>2, <1>3, <1>15, <1>17, <1>18

\* Classes lie in the text.
ClassIn(c, M, n) ==
    /\ c.from \in 1..n /\ c.opens \in c.from..n /\ c.to \in c.opens..n
    /\ M[c.from].tag = "class" /\ M[c.opens].braces # <<>> /\ M[c.to].braces # <<>>

\* A class ends where its brace is closed.
LEMMA ClassesAre ==
    ASSUME NEW M, NEW t, GoodMask(M, t), NEW c \in Cutting!Classes(M)
    PROVE  ClassIn(c, M, Len(t))
<1>1. PICK n \in Nat : n = Len(t) /\ n = Len(M)
  BY DEF GoodMask, MaskOf
<1>2. PICK i \in 1..n : /\ M[i].tag = "class" /\ Cutting!OpeningLine(M, i) # 0
                        /\ c = [from |-> i, opens |-> Cutting!OpeningLine(M, i), to |-> Cutting!BlockEnd(M, i)]
  BY <1>1 DEF Cutting!Classes, Cutting!Lines
<1>3. PICK o : o = Cutting!OpeningLine(M, i)
  OBVIOUS
<1>4. PICK e : e = Cutting!BlockEnd(M, i)
  OBVIOUS
<1>5. o \in i..n /\ Cutting!Opens(M[o])
  BY <1>1, <1>2, <1>3, OpeningIs
<1>6. e \in o..n /\ M[e].braces # <<>>
  BY <1>1, <1>2, <1>3, <1>4, EndIs
<1>7. M[o].braces # <<>>
  <2>1. PICK k \in Cutting!Lines(M[o].braces) : TRUE
    BY <1>5 DEF Cutting!Opens
  <2> SUFFICES ASSUME M[o].braces = <<>> PROVE FALSE
    OBVIOUS
  <2>2. k \in 1..Len(<<>>)
    BY <2>1 DEF Cutting!Lines
  <2> QED BY <2>2
<1>8. c.from = i /\ c.opens = o /\ c.to = e
  BY <1>2, <1>3, <1>4
<1> QED BY <1>1, <1>2, <1>5, <1>6, <1>7, <1>8 DEF ClassIn

\* A line in classes is in the innermost of them.
LEMMA InnermostIs ==
    ASSUME NEW M, NEW t, GoodMask(M, t), NEW i, Cutting!Around(i, Cutting!Classes(M)) # {}
    PROVE  Cutting!Innermost(i, Cutting!Classes(M)) \in Cutting!Around(i, Cutting!Classes(M))
<1>1. PICK A : A = Cutting!Around(i, Cutting!Classes(M))
  OBVIOUS
<1>2. \A c \in A : c.from \in Nat /\ c.to \in Nat /\ c.from <= c.to
  <2> SUFFICES ASSUME NEW c \in A PROVE c.from \in Nat /\ c.to \in Nat /\ c.from <= c.to
    OBVIOUS
  <2>1. c \in Cutting!Classes(M)
    BY <1>1 DEF Cutting!Around
  <2>2. ClassIn(c, M, Len(t)) /\ Len(t) \in Nat
    BY <2>1, ClassesAre DEF GoodMask
  <2> QED BY <2>2 DEF ClassIn
<1> DEFINE T == {c.to - c.from : c \in A}
<1>3. T \in SUBSET Nat /\ T # {}
  BY <1>1, <1>2
<1>4. PICK k \in T : \A j \in T : k <= j
  BY <1>3, LeastOf
<1>5. PICK c \in A : k = c.to - c.from
  OBVIOUS
<1>6. \A d \in A : c.to - c.from <= d.to - d.from
  BY <1>4, <1>5
<1>7. Cutting!Innermost(i, Cutting!Classes(M)) = CHOOSE x \in A : \A d \in A : x.to - x.from <= d.to - d.from
  BY <1>1 DEF Cutting!Innermost
<1> QED BY <1>1, <1>6, <1>7

\* Headers of a language with braces and the blocks of classes, functions and methods.
SpanIn(s, M, t) ==
    /\ s.from \in 1..Len(t) /\ s.to \in s.from..Len(t) /\ s.kind \in {"class", "function", "method"}
    /\ s = Cutting!Span(s.from, s.to, s.kind)
    /\ M[s.from].tag \in {"class", "call", "function", "arrow"}
    /\ s.to = s.from \/ M[s.to].braces # <<>>
    /\ s.kind \in {"function", "method"} => s \in Cutting!BraceSymbols(M)

\* The methods of a class.
LEMMA MethodsAre ==
    ASSUME NEW M, NEW t, GoodMask(M, t), NEW c \in Cutting!Classes(M), NEW s \in Cutting!Methods(M, c)
    PROVE  SpanIn(s, M, t)
<1>1. PICK n \in Nat : n = Len(t) /\ n = Len(M)
  BY DEF GoodMask, MaskOf
<1>2. PICK i \in 1..n :
        /\ s = Cutting!Span(i, Cutting!BlockEnd(M, i), "method")
        /\ Cutting!Around(i, Cutting!Classes(M)) # {} /\ Cutting!Innermost(i, Cutting!Classes(M)) = c
        /\ M[i].tag = "call" /\ Cutting!OpeningLine(M, i) # 0 /\ Cutting!BlockEnd(M, i) <= c.to
  BY <1>1 DEF Cutting!Methods, Cutting!Lines
<1>3. PICK o : o = Cutting!OpeningLine(M, i)
  OBVIOUS
<1>4. PICK e : e = Cutting!BlockEnd(M, i)
  OBVIOUS
<1>5. o \in i..n /\ e \in o..n /\ M[e].braces # <<>>
  BY <1>1, <1>2, <1>3, <1>4, OpeningIs, EndIs
<1>6. s = Cutting!Span(i, e, "method") /\ s.from = i /\ s.to = e /\ s.kind = "method"
  BY <1>2, <1>4 DEF Cutting!Span
<1>7. c.from <= i
  BY <1>2, InnermostIs DEF Cutting!Around
<1>8. s \in Cutting!BraceSymbols(M)
  <2> DEFINE callable == {k \in Cutting!Lines(M) :
            /\ IF Cutting!InClass(M, k) THEN M[k].tag \in {"call", "control"}
                                     ELSE M[k].tag \in {"function", "arrow"}
            /\ Cutting!OpeningLine(M, k) # 0 \/ (M[k].tag = "arrow" /\ ~Cutting!Opens(M[k]))}
        end(k) == IF Cutting!OpeningLine(M, k) = 0 THEN k ELSE Cutting!BlockEnd(M, k)
        held(k) == \E d \in Cutting!Classes(M) : d.from <= k /\ end(k) <= d.to
        called == {Cutting!Span(k, end(k), IF held(k) THEN "method" ELSE "function") : k \in callable}
  <2>1. i \in callable
    BY <1>1, <1>2 DEF Cutting!InClass, Cutting!Lines
  <2>2. end(i) = e
    BY <1>2, <1>4
  <2>3. held(i)
    BY <1>2, <1>4, <1>7, <2>2
  <2>4. Cutting!Span(i, end(i), IF held(i) THEN "method" ELSE "function") = s
    BY <1>6, <2>2, <2>3
  <2>5. s \in called
    BY <2>1, <2>4
  <2>6. called \subseteq Cutting!BraceSymbols(M)
    BY DEF Cutting!BraceSymbols
  <2> QED BY <2>5, <2>6
<1> QED BY <1>1, <1>2, <1>5, <1>6, <1>8 DEF SpanIn

\* Functions outside classes.
LEMMA FunctionsAre ==
    ASSUME NEW M, NEW t, GoodMask(M, t), NEW s \in Cutting!FunctionSpans(M)
    PROVE  SpanIn(s, M, t)
<1>1. PICK n \in Nat : n = Len(t) /\ n = Len(M)
  BY DEF GoodMask, MaskOf
<1>2. PICK i \in 1..n, e \in 1..n :
        /\ s = Cutting!Span(i, e, "function") /\ i <= e
        /\ Cutting!Around(i, Cutting!Classes(M)) = {} /\ M[i].tag \in {"function", "arrow"}
        /\ \/ Cutting!OpeningLine(M, i) # 0 /\ e = Cutting!BlockEnd(M, i) /\ M[e].braces # <<>>
           \/ Cutting!OpeningLine(M, i) = 0 /\ e = i /\ M[i].tag = "arrow" /\ ~Cutting!Opens(M[i])
  <2>1. \/ \E i \in 1..n : /\ s = Cutting!Span(i, Cutting!BlockEnd(M, i), "function")
                           /\ Cutting!Around(i, Cutting!Classes(M)) = {} /\ M[i].tag \in {"function", "arrow"}
                           /\ Cutting!OpeningLine(M, i) # 0
        \/ \E i \in 1..n : /\ s = Cutting!Span(i, i, "function")
                           /\ Cutting!Around(i, Cutting!Classes(M)) = {} /\ M[i].tag = "arrow"
                           /\ ~Cutting!Opens(M[i]) /\ Cutting!OpeningLine(M, i) = 0
    BY <1>1 DEF Cutting!FunctionSpans, Cutting!Outside, Cutting!Lines
  <2>2. CASE \E i \in 1..n : /\ s = Cutting!Span(i, Cutting!BlockEnd(M, i), "function")
                           /\ Cutting!Around(i, Cutting!Classes(M)) = {} /\ M[i].tag \in {"function", "arrow"}
                           /\ Cutting!OpeningLine(M, i) # 0
    <3>1. PICK i \in 1..n : /\ s = Cutting!Span(i, Cutting!BlockEnd(M, i), "function")
                           /\ Cutting!Around(i, Cutting!Classes(M)) = {} /\ M[i].tag \in {"function", "arrow"}
                           /\ Cutting!OpeningLine(M, i) # 0
      BY <2>2
    <3>2. PICK o : o = Cutting!OpeningLine(M, i)
      OBVIOUS
    <3>3. PICK e : e = Cutting!BlockEnd(M, i)
      OBVIOUS
    <3>4. o \in i..n /\ e \in o..n /\ M[e].braces # <<>>
      BY <1>1, <3>1, <3>2, <3>3, OpeningIs, EndIs
    <3>5. e \in 1..n /\ i <= e
      BY <3>4
    <3> QED BY <3>1, <3>3, <3>4, <3>5
  <2>3. CASE \E i \in 1..n : /\ s = Cutting!Span(i, i, "function")
                           /\ Cutting!Around(i, Cutting!Classes(M)) = {} /\ M[i].tag = "arrow"
                           /\ ~Cutting!Opens(M[i]) /\ Cutting!OpeningLine(M, i) = 0
    <3>1. PICK i \in 1..n : /\ s = Cutting!Span(i, i, "function")
                           /\ Cutting!Around(i, Cutting!Classes(M)) = {} /\ M[i].tag = "arrow"
                           /\ ~Cutting!Opens(M[i]) /\ Cutting!OpeningLine(M, i) = 0
      BY <2>3
    <3>2. i <= i
      OBVIOUS
    <3> QED BY <3>1, <3>2
  <2> QED BY <2>1, <2>2, <2>3
<1>3. s.from = i /\ s.to = e /\ s.kind = "function"
  BY <1>2 DEF Cutting!Span
<1>4. s \in Cutting!BraceSymbols(M)
  <2> DEFINE callable == {k \in Cutting!Lines(M) :
            /\ IF Cutting!InClass(M, k) THEN M[k].tag \in {"call", "control"}
                                     ELSE M[k].tag \in {"function", "arrow"}
            /\ Cutting!OpeningLine(M, k) # 0 \/ (M[k].tag = "arrow" /\ ~Cutting!Opens(M[k]))}
        end(k) == IF Cutting!OpeningLine(M, k) = 0 THEN k ELSE Cutting!BlockEnd(M, k)
        held(k) == \E d \in Cutting!Classes(M) : d.from <= k /\ end(k) <= d.to
        called == {Cutting!Span(k, end(k), IF held(k) THEN "method" ELSE "function") : k \in callable}
  <2>1. i \in callable
    BY <1>1, <1>2 DEF Cutting!InClass, Cutting!Lines
  <2>2. end(i) = e
    BY <1>2
  <2>3. ~held(i)
    <3> SUFFICES ASSUME NEW d \in Cutting!Classes(M), d.from <= i, e <= d.to PROVE FALSE
      BY <2>2
    <3>1. d.to \in Nat
      <4>1. ClassIn(d, M, Len(t))
        BY ClassesAre
      <4> QED BY <1>1, <4>1 DEF ClassIn
    <3>2. i <= d.to
      BY <1>2, <3>1
    <3>3. d \in Cutting!Around(i, Cutting!Classes(M))
      BY <3>2 DEF Cutting!Around
    <3> QED BY <1>2, <3>3
  <2>4. Cutting!Span(i, end(i), IF held(i) THEN "method" ELSE "function") = s
    BY <1>2, <2>2, <2>3
  <2>5. s \in called
    BY <2>1, <2>4
  <2>6. called \subseteq Cutting!BraceSymbols(M)
    BY DEF Cutting!BraceSymbols
  <2> QED BY <2>5, <2>6
<1> QED BY <1>1, <1>2, <1>3, <1>4 DEF SpanIn

\* All spans that are found.
LEMMA ClassSpansAre ==
    ASSUME NEW M, NEW t, GoodMask(M, t), NEW s \in Cutting!ClassSpans(M)
    PROVE  SpanIn(s, M, t)
<1>1. PICK n \in Nat : n = Len(t) /\ n = Len(M)
  BY DEF GoodMask, MaskOf
<1>2. PICK c \in Cutting!Classes(M) :
        \/ s = Cutting!Span(c.from, c.to, "class") \/ s = Cutting!Span(c.from, c.opens, "class")
        \/ s \in Cutting!Methods(M, c)
  BY DEF Cutting!ClassSpans
<1>3. ClassIn(c, M, n)
  BY <1>1, ClassesAre
<1>4. CASE s \in Cutting!Methods(M, c)
  BY <1>4, MethodsAre
<1>5. CASE s = Cutting!Span(c.from, c.to, "class")
  <2>1. s.from = c.from /\ s.to = c.to /\ s.kind = "class"
    BY <1>5 DEF Cutting!Span
  <2>2. c.from \in 1..n /\ c.to \in c.from..n
    BY <1>3 DEF ClassIn
  <2> QED BY <1>1, <1>3, <1>5, <2>1, <2>2 DEF SpanIn, ClassIn
<1>6. CASE s = Cutting!Span(c.from, c.opens, "class")
  <2>1. s.from = c.from /\ s.to = c.opens /\ s.kind = "class"
    BY <1>6 DEF Cutting!Span
  <2> QED BY <1>1, <1>3, <1>6, <2>1 DEF SpanIn, ClassIn
<1> QED BY <1>2, <1>4, <1>5, <1>6

\* What a language with braces is cut into.
LEMMA BracesAreCut ==
    ASSUME NEW l, NEW t, l # "python", BracedText(t), Cutting!Balanced(t)
    PROVE  /\ Parted(t, Cutting!Units(l, t)) /\ Exact(t, Cutting!Units(l, t))
           /\ \A n \in 1..Len(Cutting!Units(l, t)) :
                /\ Cutting!Units(l, t)[n].cut = FALSE
                /\ Cutting!Units(l, t)[n].kind \in {"function", "method"} =>
                     Cutting!Span(Cutting!Units(l, t)[n].from, Cutting!Units(l, t)[n].to, Cutting!Units(l, t)[n].kind)
                        \in Cutting!BraceSymbols(Cutting!Masked(t))
<1>1. PICK n \in Nat : n = Len(t)
  BY DEF BracedText
<1>2. PICK M : M = Cutting!Masked(t)
  OBVIOUS
<1>3. MaskOf(M, t)
  BY <1>2, MaskedIs
<1>4. Balances(Cutting!Braces(M))
  <2>1. PICK b : b = Cutting!Braces(M)
    OBVIOUS
  <2>2. /\ \A k \in Cutting!Lines(b) : Cutting!Count(b, 1, k, "close") <= Cutting!Count(b, 1, k, "open")
        /\ Cutting!Count(b, 1, Len(b), "close") = Cutting!Count(b, 1, Len(b), "open")
    BY <1>2, <2>1 DEF Cutting!Balanced
  <2> QED BY <2>1, <2>2 DEF Balances, Cutting!Lines
<1>5. GoodMask(M, t)
  BY <1>1, <1>3, <1>4 DEF GoodMask
<1>6. PICK F : F = Cutting!ClassSpans(M) \cup Cutting!FunctionSpans(M)
  OBVIOUS
<1>7. \A s \in F : SpanIn(s, M, t)
  BY <1>5, <1>6, ClassSpansAre, FunctionsAre
<1>8. Typed(F, n)
  BY <1>1, <1>7 DEF Typed, SpanIn, SpanKinds
<1>9. PICK S : S = Cutting!Accepted(F)
  OBVIOUS
<1>10. S \subseteq F /\ Apart(S)
  BY <1>8, <1>9, AcceptedIs
<1>11. Cutting!Spans(l, t) = S
  BY <1>2, <1>6, <1>9 DEF Cutting!Spans, Cutting!BraceSpans
<1>12. Typed(S, n)
  BY <1>8, <1>10 DEF Typed
<1>13. Whole(t, S)
  <2> SUFFICES ASSUME NEW s \in S PROVE t[s.from].tag # "empty" /\ t[s.to].tag # "empty"
    BY DEF Whole
  <2>1. SpanIn(s, M, t)
    BY <1>7, <1>10
  <2>2. s.from \in 1..n /\ s.to \in 1..n
    BY <1>1, <2>1 DEF SpanIn
  <2>3. t[s.from].tag # "empty"
    <3>1. M[s.from] = t[s.from] \/ M[s.from].tag = "masked"
      BY <1>1, <1>3, <2>2 DEF MaskOf
    <3> QED BY <2>1, <3>1 DEF SpanIn
  <2>4. CASE s.to = s.from
    BY <2>3, <2>4
  <2>5. CASE M[s.to].braces # <<>>
    BY <1>1, <1>3, <2>2, <2>3, <2>5 DEF MaskOf
  <2> QED BY <2>1, <2>4, <2>5 DEF SpanIn
<1>14. PICK d : d = Cutting!Units(l, t)
  OBVIOUS
<1>15. /\ Parted(t, d) /\ Exact(t, d)
       /\ \A k \in 1..Len(d) : d[k].cut = FALSE /\ (d[k].kind = "block" \/ Cutting!Span(d[k].from, d[k].to, d[k].kind) \in S)
  <2>1. Typed(Cutting!Spans(l, t), Len(t)) /\ Apart(Cutting!Spans(l, t)) /\ Whole(t, Cutting!Spans(l, t)) /\ Len(t) \in Nat
    BY <1>1, <1>10, <1>11, <1>12, <1>13
  <2>2. /\ Parted(t, Cutting!Units(l, t)) /\ Exact(t, Cutting!Units(l, t))
        /\ \A k \in 1..Len(Cutting!Units(l, t)) :
                /\ Cutting!Units(l, t)[k].cut = FALSE
                /\ \/ Cutting!Units(l, t)[k].kind = "block"
                   \/ Cutting!Span(Cutting!Units(l, t)[k].from, Cutting!Units(l, t)[k].to, Cutting!Units(l, t)[k].kind)
                        \in Cutting!Spans(l, t)
    BY <2>1, ApartUnits
  <2> QED BY <1>11, <1>14, <2>2
<1>16. ASSUME NEW k \in 1..Len(d), d[k].kind \in {"function", "method"}
       PROVE  Cutting!Span(d[k].from, d[k].to, d[k].kind) \in Cutting!BraceSymbols(M)
  <2>1. PICK s : s = Cutting!Span(d[k].from, d[k].to, d[k].kind)
    OBVIOUS
  <2>2. s \in S /\ s.kind = d[k].kind
    BY <1>15, <1>16, <2>1 DEF Cutting!Span
  <2>3. SpanIn(s, M, t)
    BY <1>7, <1>10, <2>2
  <2> QED BY <1>16, <2>1, <2>2, <2>3 DEF SpanIn
<1> QED BY <1>2, <1>14, <1>15, <1>16

-----------------------------------------------------------------------------
(* Python: blocks by indentation.                                            *)

\* A text that ast.parse accepts.
PythonText(t) ==
    /\ Len(t) \in Nat
    /\ \A i \in 1..Len(t) : t[i].depth \in Nat
    /\ Cutting!ParsesPython(t)

Headed(t, i) == t[i].tag \in {"class", "def"}

\* q is the next line of p that is not blank.
Follows(t, p, q) ==
    /\ p \in Cutting!Solid(t) /\ q \in Cutting!Solid(t) /\ p < q
    /\ \A k \in Cutting!Solid(t) : k <= p \/ q <= k

\* The lines that are not blank.
LEMMA SolidIs ==
    ASSUME NEW t, PythonText(t)
    PROVE  /\ Cutting!Solid(t) \in SUBSET Nat
           /\ \A i \in Cutting!Solid(t) : i \in 1..Len(t) /\ t[i].depth \in Nat /\ ~Cutting!Blank(t[i])
           /\ \A i \in 1..Len(t) : i \in Cutting!Solid(t) <=> ~Cutting!Blank(t[i])
  BY DEF PythonText, Cutting!Solid, Cutting!Lines

\* There is a next line where there is a later one.
LEMMA NextSolid ==
    ASSUME NEW t, PythonText(t), NEW p \in Cutting!Solid(t), NEW k \in Cutting!Solid(t), p < k
    PROVE  \E q \in Cutting!Solid(t) : Follows(t, p, q) /\ q <= k
<1>1. PICK n \in Nat : n = Len(t)
  BY DEF PythonText
<1> DEFINE T == {i \in Cutting!Solid(t) : p < i}
<1>2. T \in SUBSET Nat /\ T # {}
  BY SolidIs
<1>3. PICK q \in T : \A i \in T : q <= i
  BY <1>2, LeastOf
<1>4. \A i \in Cutting!Solid(t) : i \in Nat
  BY SolidIs
<1>5. \A i \in Cutting!Solid(t) : i <= p \/ q <= i
  BY <1>3, <1>4
<1> QED BY <1>3, <1>5 DEF Follows

\* What the parser demands of it.
LEMMA FollowsIs ==
    ASSUME NEW t, PythonText(t), NEW p, NEW q, Follows(t, p, q)
    PROVE  /\ Headed(t, p) => t[q].depth = t[p].depth + 1
           /\ ~Headed(t, p) => t[q].depth <= t[p].depth
           /\ t[p].tag = "@" => t[q].depth = t[p].depth /\ t[q].tag \in {"class", "def", "@"}
<1>1. PICK n \in Nat : n = Len(t)
  BY DEF PythonText
<1>2. PICK S : S = Cutting!Solid(t)
  OBVIOUS
<1>3. S \in SUBSET Nat /\ \A i \in S : i \in 1..n
  BY <1>1, <1>2, SolidIs
<1>4. p \in S /\ q \in S /\ p < q /\ \A k \in S : k <= p \/ q <= k
  BY <1>2 DEF Follows
<1>5. PICK B : B = Cutting!Before(t, q)
  OBVIOUS
<1>6. B = {j \in S : j < q}
  BY <1>2, <1>5 DEF Cutting!Before
<1>7. p \in B /\ B # {} /\ B \in SUBSET Nat /\ (\A k \in B : k <= n) /\ \A k \in B : k <= p
  <2>1. p \in B
    BY <1>4, <1>6
  <2>2. \A k \in B : k \in Nat /\ k <= n /\ k <= p
    BY <1>3, <1>4, <1>6
  <2>3. B \in SUBSET Nat
    BY <2>2
  <2> QED BY <2>1, <2>2, <2>3
<1>8. PICK m : m = Cutting!Max(B)
  OBVIOUS
<1>9. m \in B /\ \A k \in B : k <= m
  BY <1>7, <1>8, MaxOf
<1>10. m = p
  BY <1>7, <1>9
<1>11. /\ IF t[p].tag \in Cutting!Headers THEN t[q].depth = t[p].depth + 1 ELSE t[q].depth <= t[p].depth
       /\ t[p].tag = "@" => t[q].depth = t[p].depth /\ t[q].tag \in Cutting!Headers \cup {"@"}
  BY <1>2, <1>4, <1>5, <1>7, <1>8, <1>10 DEF PythonText, Cutting!ParsesPython
<1> QED BY <1>11 DEF Headed, Cutting!Headers

\* The last line of a block.
EndOf(t, i, e) ==
    /\ e \in Cutting!Solid(t) /\ i <= e
    /\ \A k \in Cutting!Solid(t) : i < k /\ k <= e => t[i].depth < t[k].depth
    /\ \A j \in Cutting!Solid(t) : i <= j /\ (\A k \in Cutting!Solid(t) : i < k /\ k <= j => t[i].depth < t[k].depth) => j <= e

\* A block by indentation ends before the next line that is not indented more.
LEMMA LastLineIs ==
    ASSUME NEW t, PythonText(t), NEW i \in Cutting!Solid(t)
    PROVE  EndOf(t, i, Cutting!LastLine(t, i))
<1>1. PICK n \in Nat : n = Len(t)
  BY DEF PythonText
<1>2. PICK S : S = Cutting!Solid(t)
  OBVIOUS
<1>3. S \in SUBSET Nat /\ \A k \in S : k \in 1..n /\ k <= n
  BY <1>1, <1>2, SolidIs
<1> DEFINE T == {j \in S : j >= i /\ \A k \in S : i < k /\ k <= j => t[k].depth > t[i].depth}
<1>4. PICK e : e = Cutting!LastLine(t, i)
  OBVIOUS
<1>5. e = Cutting!Max(T)
  BY <1>2, <1>4 DEF Cutting!LastLine
<1>6. i \in T /\ T \in SUBSET Nat /\ \A k \in T : k <= n
  BY <1>2, <1>3
<1>7. e \in T /\ \A k \in T : k <= e
  BY <1>5, <1>6, MaxOf
<1>8. \A k \in S : t[k].depth \in Nat
  BY <1>2, SolidIs
<1>9. e \in S /\ i <= e /\ \A k \in S : i < k /\ k <= e => t[i].depth < t[k].depth
  BY <1>2, <1>3, <1>7, <1>8
<1>10. ASSUME NEW j \in S, i <= j, \A k \in S : i < k /\ k <= j => t[i].depth < t[k].depth PROVE j <= e
  <2>1. j \in T
    BY <1>2, <1>3, <1>8, <1>10
  <2> QED BY <1>7, <2>1
<1> QED BY <1>2, <1>4, <1>9, <1>10 DEF EndOf

\* Blocks are nested.
LEMMA BlocksNest ==
    ASSUME NEW t, PythonText(t), NEW a \in Cutting!Solid(t), NEW b \in Cutting!Solid(t),
           NEW e, NEW f, EndOf(t, a, e), EndOf(t, b, f), a < b, b <= e
    PROVE  f <= e
<1>1. PICK S : S = Cutting!Solid(t)
  OBVIOUS
<1>2. \A k \in S : k \in Nat /\ t[k].depth \in Nat
  BY <1>1, SolidIs
<1>3. t[a].depth < t[b].depth
  BY DEF EndOf
<1>4. ASSUME NEW k \in S, a < k, k <= f PROVE t[a].depth < t[k].depth
  <2>1. CASE k <= e
    BY <1>1, <1>4, <2>1 DEF EndOf
  <2>2. CASE ~(k <= e)
    <3>1. b < k /\ e \in Nat
      BY <1>1, <1>2, <2>2 DEF EndOf
    <3>2. t[b].depth < t[k].depth
      BY <1>1, <1>4, <3>1 DEF EndOf
    <3> QED BY <1>1, <1>2, <1>3, <3>2
  <2> QED BY <2>1, <2>2
<1>5. f \in S /\ b <= f
  BY <1>1 DEF EndOf
<1>6. a <= f
  BY <1>1, <1>2, <1>5
<1> QED BY <1>1, <1>4, <1>5, <1>6 DEF EndOf

\* The first decorator of a header, or the header.
StartOf(t, i, s) ==
    /\ s \in Cutting!Solid(t) /\ s <= i /\ t[s].depth = t[i].depth
    /\ \A k \in Cutting!Solid(t) : s <= k /\ k < i => t[k].tag = "@"

\* A definition starts at the first of its decorators.
LEMMA NodeStartIs ==
    ASSUME NEW t, PythonText(t), NEW i \in Cutting!Solid(t)
    PROVE  StartOf(t, i, Cutting!NodeStart(t, i))
<1>1. PICK S : S = Cutting!Solid(t)
  OBVIOUS
<1>2. S \in SUBSET Nat
  BY <1>1, SolidIs
<1> DEFINE T == {j \in S : j <= i /\ t[j].depth = t[i].depth /\ \A k \in S : j <= k /\ k < i => t[k].tag = "@"}
<1>3. i \in T
  BY <1>1, <1>2
<1>4. PICK s : s = Cutting!NodeStart(t, i)
  OBVIOUS
<1>5. s = Cutting!Min(T)
  BY <1>1, <1>4 DEF Cutting!NodeStart
<1>6. s \in T
  BY <1>2, <1>3, <1>5, MinOf
<1> QED BY <1>1, <1>4, <1>6 DEF StartOf

\* A header's decorators are behind every header before it, and behind its block when it is behind that.
LEMMA StartsBehind ==
    ASSUME NEW t, PythonText(t), NEW a \in Cutting!Solid(t), NEW b \in Cutting!Solid(t), Headed(t, a), a < b,
           NEW e, EndOf(t, a, e), NEW s, StartOf(t, b, s)
    PROVE  a < s /\ (e < b => e < s)
<1>1. PICK S : S = Cutting!Solid(t)
  OBVIOUS
<1>2. \A k \in S : k \in Nat /\ t[k].depth \in Nat
  BY <1>1, SolidIs
<1>3. s \in S /\ s <= b /\ e \in S /\ a <= e
  BY <1>1 DEF StartOf, EndOf
<1>4. a < s
  <2> SUFFICES ASSUME s <= a PROVE FALSE
    BY <1>1, <1>2, <1>3
  <2>1. t[a].tag = "@"
    BY DEF StartOf
  <2> QED BY <2>1 DEF Headed
<1>5. ASSUME e < b PROVE e < s
  <2> SUFFICES ASSUME s <= e PROVE FALSE
    BY <1>2, <1>3
  <2>1. t[e].tag = "@"
    BY <1>1, <1>3, <1>5 DEF StartOf
  <2>2. PICK q \in S : Follows(t, e, q) /\ q <= b
    BY <1>1, <1>3, <1>5, NextSolid
  <2>3. t[q].depth = t[e].depth
    BY <2>1, <2>2, FollowsIs
  <2>4. a < e
    BY <1>1, <1>2, <1>3, <2>1 DEF Headed
  <2>5. t[a].depth < t[e].depth
    BY <1>1, <1>2, <1>3, <2>4 DEF EndOf
  <2>6. e < q /\ \A k \in S : k <= e \/ q <= k
    BY <1>1, <2>2 DEF Follows
  <2>7. ASSUME NEW k \in S, a < k, k <= q PROVE t[a].depth < t[k].depth
    <3>1. CASE k <= e
      BY <1>1, <2>7, <3>1 DEF EndOf
    <3>2. CASE q <= k
      <4>1. k = q
        BY <1>2, <2>7, <3>2
      <4> QED BY <2>3, <2>5, <4>1
    <3> QED BY <2>6, <3>1, <3>2
  <2>8. a <= q
    BY <1>1, <1>2, <1>3, <2>6
  <2>9. q <= e
    BY <1>1, <2>7, <2>8 DEF EndOf
  <2> QED BY <1>2, <1>3, <2>6, <2>9
<1> QED BY <1>4, <1>5

\* A header that is reached.
Reaches(t, i) ==
    /\ i \in Cutting!Solid(t) /\ Headed(t, i)
    /\ \A j \in Cutting!Enclosing(t, i) : t[j].tag = "class"

\* A header that is reached is enclosed by classes only.
LEMMA HeadersAre ==
    ASSUME NEW t, NEW i \in Cutting!HeaderLines(t)
    PROVE  Reaches(t, i)
  BY DEF Cutting!HeaderLines, Cutting!Reached, Cutting!Headers, Reaches, Headed

\* A header in the block of another one makes that one a class that is structured.
LEMMA BodyHolds ==
    ASSUME NEW t, PythonText(t), NEW a \in Cutting!HeaderLines(t), NEW b \in Cutting!HeaderLines(t),
           a < b, b <= Cutting!LastLine(t, a)
    PROVE  t[a].tag = "class" /\ \E c \in Cutting!Body(t, a) : c <= b /\ Headed(t, c)
<1>1. PICK S : S = Cutting!Solid(t)
  OBVIOUS
<1>2. \A k \in S : k \in Nat /\ t[k].depth \in Nat /\ k \in 1..Len(t)
  BY <1>1, SolidIs
<1>3. Reaches(t, a) /\ Reaches(t, b) /\ a \in S /\ b \in S
  BY <1>1, HeadersAre DEF Reaches
<1>4. PICK e : e = Cutting!LastLine(t, a)
  OBVIOUS
<1>5. EndOf(t, a, e) /\ b <= e /\ e \in S
  BY <1>1, <1>3, <1>4, LastLineIs DEF EndOf
<1>6. a \in Cutting!Enclosing(t, b)
  BY <1>1, <1>3 DEF Cutting!Enclosing, Reaches, Headed, Cutting!Headers
<1>7. t[a].tag = "class"
  BY <1>3, <1>6 DEF Reaches
<1> DEFINE T == {k \in S : a < k /\ k <= b /\ t[k].depth <= t[a].depth + 1}
<1>8. \E q \in S : Follows(t, a, q) /\ q <= b
  BY <1>1, <1>3, NextSolid
<1>9. PICK q \in S : Follows(t, a, q) /\ q <= b
  BY <1>8
<1>10. q \in T
  <2>1. t[q].depth = t[a].depth + 1 /\ a < q
    BY <1>3, <1>9, FollowsIs DEF Reaches, Follows
  <2> QED BY <1>2, <1>9, <2>1
<1>11. T \in SUBSET Nat /\ T # {} /\ b \in Nat /\ \A k \in T : k <= b
  BY <1>2, <1>3, <1>10
<1>12. PICK c : c = Cutting!Max(T)
  OBVIOUS
<1>13. c \in T /\ \A k \in T : k <= c
  BY <1>11, <1>12, MaxOf
<1>14. c \in S /\ a < c /\ c <= b /\ c <= e /\ t[c].depth = t[a].depth + 1
  <2>1. c \in S /\ a < c /\ c <= b /\ t[c].depth <= t[a].depth + 1
    BY <1>13
  <2>2. c <= e
    BY <1>2, <1>3, <1>5, <2>1
  <2>3. t[a].depth < t[c].depth
    BY <1>1, <1>5, <2>1, <2>2 DEF EndOf
  <2> QED BY <1>2, <1>3, <2>1, <2>2, <2>3
<1>15. \A k \in S : c < k /\ k <= b => t[c].depth < t[k].depth
  <2> SUFFICES ASSUME NEW k \in S, c < k, k <= b, ~(t[c].depth < t[k].depth) PROVE FALSE
    OBVIOUS
  <2>1. k \in T
    BY <1>2, <1>3, <1>14
  <2> QED BY <1>2, <1>13, <1>14, <2>1
<1>16. CASE c = b
  <2>1. c \in Cutting!Reached(t) /\ Headed(t, c)
    BY <1>3, <1>16 DEF Cutting!HeaderLines, Reaches
  <2>2. c \in Cutting!Body(t, a)
    BY <1>4, <1>14, <2>1 DEF Cutting!Body
  <2> QED BY <1>7, <1>14, <2>1, <2>2
<1>17. CASE c # b
  <2>1. c < b
    BY <1>2, <1>3, <1>14, <1>17
  <2>2. PICK r \in S : Follows(t, c, r) /\ r <= b
    BY <1>1, <1>3, <1>14, <2>1, NextSolid
  <2>3. t[c].depth < t[r].depth
    BY <1>15, <2>2 DEF Follows
  <2>4. Headed(t, c)
    BY <1>2, <1>14, <2>2, <2>3, FollowsIs
  <2>5. PICK f : f = Cutting!LastLine(t, c)
    OBVIOUS
  <2>6. EndOf(t, c, f)
    BY <1>1, <1>14, <2>5, LastLineIs
  <2>7. b <= f /\ f \in S
    BY <1>1, <1>3, <1>14, <1>15, <2>6 DEF EndOf
  <2>8. ASSUME NEW d \in Cutting!Enclosing(t, c) PROVE t[d].tag = "class"
    <3>1. d \in S /\ t[d].tag \in Cutting!Headers /\ d < c /\ c <= Cutting!LastLine(t, d)
      BY <1>1 DEF Cutting!Enclosing
    <3>2. PICK g : g = Cutting!LastLine(t, d)
      OBVIOUS
    <3>3. EndOf(t, d, g) /\ g \in S
      BY <1>1, <3>1, <3>2, LastLineIs DEF EndOf
    <3>4. f <= g
      BY <1>1, <1>14, <2>6, <3>1, <3>2, <3>3, BlocksNest
    <3>5. b <= g /\ d < b
      BY <1>2, <1>3, <1>14, <2>7, <3>1, <3>3, <3>4
    <3>6. d \in Cutting!Enclosing(t, b)
      BY <1>1, <3>1, <3>2, <3>5 DEF Cutting!Enclosing
    <3> QED BY <1>3, <3>6 DEF Reaches
  <2>9. c \in Cutting!Reached(t)
    BY <1>1, <1>14, <2>8 DEF Cutting!Reached
  <2>10. c \in Cutting!Body(t, a)
    BY <1>4, <1>14, <2>9 DEF Cutting!Body
  <2> QED BY <1>7, <1>14, <2>4, <2>10
<1> QED BY <1>16, <1>17

\* A unit begins with its decorators and ends in its block.
UnitIn(t, a, u) ==
    /\ u.from = Cutting!NodeStart(t, a) /\ u.to \in a..Cutting!LastLine(t, a)
    /\ u.kind \in {"class", "function", "method"} /\ u = Cutting!Span(u.from, u.to, u.kind)
    /\ u.kind # "class" => u.to = Cutting!LastLine(t, a)
    /\ \A b \in Cutting!HeaderLines(t) : a < b /\ b <= Cutting!LastLine(t, a) => u.to < b

\* The unit of a header begins with its decorators and ends with its block, or before its first method.
LEMMA UnitIs ==
    ASSUME NEW t, PythonText(t), NEW a \in Cutting!HeaderLines(t)
    PROVE  UnitIn(t, a, Cutting!PythonUnit(t, a))
<1>1. PICK S : S = Cutting!Solid(t)
  OBVIOUS
<1>2. S \in SUBSET Nat
  BY <1>1, SolidIs
<1>3. Reaches(t, a) /\ a \in S /\ \A b \in Cutting!HeaderLines(t) : b \in S
  BY <1>1, HeadersAre DEF Reaches
<1>4. PICK e : e = Cutting!LastLine(t, a)
  OBVIOUS
<1>5. e \in S /\ a <= e
  BY <1>1, <1>3, <1>4, LastLineIs DEF EndOf
<1>6. PICK u : u = Cutting!PythonUnit(t, a)
  OBVIOUS
<1>7. PICK s : s = Cutting!NodeStart(t, a)
  OBVIOUS
<1>8. PICK h : h = Cutting!HeadEnd(t, a)
  OBVIOUS
<1>9. \A x, y, z : Cutting!Span(x, y, z).from = x /\ Cutting!Span(x, y, z).to = y /\ Cutting!Span(x, y, z).kind = z
  BY DEF Cutting!Span
<1>10. CASE t[a].tag = "def"
  <2>1. PICK k : u = Cutting!Span(s, e, k) /\ k \in {"function", "method"}
    BY <1>4, <1>6, <1>7, <1>10 DEF Cutting!PythonUnit
  <2>2. u.from = s /\ u.to = e /\ u.kind = k
    BY <1>9, <2>1
  <2>3. e \in a..e
    BY <1>2, <1>3, <1>5
  <2>4. \A b \in Cutting!HeaderLines(t) : ~(a < b /\ b <= e)
    BY <1>4, <1>10, BodyHolds
  <2> QED BY <1>4, <1>6, <1>7, <2>1, <2>2, <2>3, <2>4 DEF UnitIn
<1>11. CASE t[a].tag # "def" /\ ~Cutting!Structural(t, a)
  <2>1. u = Cutting!Span(s, e, "class")
    BY <1>4, <1>6, <1>7, <1>11 DEF Cutting!PythonUnit
  <2>2. u.from = s /\ u.to = e /\ u.kind = "class"
    BY <1>9, <2>1
  <2>3. e \in a..e
    BY <1>2, <1>3, <1>5
  <2>4. \A b \in Cutting!HeaderLines(t) : ~(a < b /\ b <= e)
    BY <1>4, <1>11, BodyHolds DEF Cutting!Structural, Headed, Cutting!Headers
  <2> QED BY <1>4, <1>6, <1>7, <2>1, <2>2, <2>3, <2>4 DEF UnitIn
<1>12. CASE t[a].tag # "def" /\ Cutting!Structural(t, a)
  <2>1. u = Cutting!Span(s, h, "class")
    BY <1>6, <1>7, <1>8, <1>12 DEF Cutting!PythonUnit
  <2>2. u.from = s /\ u.to = h /\ u.kind = "class"
    BY <1>9, <2>1
  <2> DEFINE B == {j \in Cutting!Body(t, a) : t[j].tag # "@"}
  <2>3. \A j \in Cutting!Body(t, a) : j \in S /\ a < j /\ j <= e
    BY <1>1, <1>4 DEF Cutting!Body, Cutting!Reached
  <2>4. B \in SUBSET Nat /\ B # {}
    <3>1. PICK j \in Cutting!Body(t, a) : t[j].tag \in Cutting!Headers
      BY <1>12 DEF Cutting!Structural
    <3>2. t[j].tag # "@"
      BY <3>1 DEF Cutting!Headers
    <3> QED BY <1>2, <2>3, <3>2
  <2>5. PICK m : m = Cutting!Min(B)
    OBVIOUS
  <2>6. m \in B /\ \A j \in B : m <= j
    BY <2>4, <2>5, MinOf
  <2>7. h = Cutting!Max({a, m - 1})
    BY <1>8, <2>5 DEF Cutting!HeadEnd
  <2>8. m \in S /\ a < m /\ m <= e
    BY <2>3, <2>6
  <2>9. a \in Nat /\ m - 1 \in Nat /\ m \in Nat /\ e \in Nat
    BY <1>2, <1>3, <1>5, <2>8
  <2>10. h = IF a <= m - 1 THEN m - 1 ELSE a
    BY <2>7, <2>9, MaxOfTwo
  <2>11. h = m - 1 /\ h \in a..e
    BY <2>8, <2>9, <2>10
  <2>12. ASSUME NEW b \in Cutting!HeaderLines(t), a < b, b <= e PROVE h < b
    <3>1. PICK c \in Cutting!Body(t, a) : c <= b /\ Headed(t, c)
      BY <1>4, <2>12, BodyHolds
    <3>2. c \in B
      BY <3>1 DEF Headed
    <3>3. m <= c /\ c \in Nat /\ b \in Nat
      BY <1>2, <1>3, <2>4, <2>6, <3>2
    <3> QED BY <2>9, <2>11, <3>1, <3>3
  <2> QED BY <1>4, <1>6, <1>7, <2>1, <2>2, <2>11, <2>12 DEF UnitIn
<1> QED BY <1>10, <1>11, <1>12

\* The unit of a header holds a line.
UnitHolds(t, a, i) == i \in Cutting!PythonUnit(t, a).from..Cutting!PythonUnit(t, a).to

\* Two units have only lines in common that lie between their headers and hold decorators.
LEMMA UnitsShare ==
    ASSUME NEW t, PythonText(t), NEW a \in Cutting!HeaderLines(t), NEW b \in Cutting!HeaderLines(t), a < b,
           NEW i \in 1..Len(t), UnitHolds(t, a, i), UnitHolds(t, b, i)
    PROVE  a < i /\ i < b /\ t[i].tag \in {"@", "empty", "spaces"}
<1>1. PICK S : S = Cutting!Solid(t)
  OBVIOUS
<1>2. S \in SUBSET Nat /\ \A k \in 1..Len(t) : k \in S <=> ~Cutting!Blank(t[k])
  BY <1>1, SolidIs
<1>3. Reaches(t, a) /\ a \in S /\ Reaches(t, b) /\ b \in S
  BY <1>1, HeadersAre DEF Reaches
<1>4. PICK u, v : u = Cutting!PythonUnit(t, a) /\ v = Cutting!PythonUnit(t, b)
  OBVIOUS
<1>5. UnitIn(t, a, u) /\ UnitIn(t, b, v)
  BY <1>4, UnitIs
<1>6. PICK e : e = Cutting!LastLine(t, a)
  OBVIOUS
<1>7. PICK s : s = Cutting!NodeStart(t, b)
  OBVIOUS
<1>8. EndOf(t, a, e) /\ StartOf(t, b, s) /\ e \in S /\ s \in S
  BY <1>1, <1>3, <1>6, <1>7, LastLineIs, NodeStartIs DEF EndOf, StartOf
<1>9. a < s /\ (e < b => e < s)
  BY <1>1, <1>3, <1>8, StartsBehind DEF Reaches
<1>10. i <= u.to /\ s <= i /\ u.to \in a..e /\ u.from \in Nat
  <2>1. PICK x : x = Cutting!NodeStart(t, a)
    OBVIOUS
  <2>2. x \in Nat
    BY <1>1, <1>2, <1>3, <2>1, NodeStartIs DEF StartOf
  <2>3. u.from = x /\ u.to \in a..e /\ v.from = s
    BY <1>5, <1>6, <1>7, <2>1 DEF UnitIn
  <2>4. i \in u.from..u.to /\ i \in v.from..v.to
    BY <1>4 DEF UnitHolds
  <2>5. a \in Nat /\ e \in Nat /\ s \in Nat
    BY <1>2, <1>3, <1>8
  <2>6. v.to \in Nat
    <3>1. Cutting!LastLine(t, b) \in S
      BY <1>1, <1>3, LastLineIs DEF EndOf
    <3> QED BY <1>2, <1>3, <1>5, <3>1 DEF UnitIn
  <2> QED BY <2>2, <2>3, <2>4, <2>5, <2>6
<1>11. b <= e
  BY <1>2, <1>3, <1>8, <1>9, <1>10
<1>12. u.to < b
  BY <1>5, <1>6, <1>11 DEF UnitIn
<1>13. i < b /\ a < i
  BY <1>2, <1>3, <1>8, <1>9, <1>10, <1>12
<1>14. CASE i \in S
  <2>1. t[i].tag = "@"
    BY <1>1, <1>8, <1>10, <1>13, <1>14 DEF StartOf
  <2> QED BY <1>13, <2>1
<1>15. CASE i \notin S
  <2>1. Cutting!Blank(t[i])
    BY <1>2, <1>15
  <2> QED BY <1>13, <2>1 DEF Cutting!Blank
<1> QED BY <1>14, <1>15

-----------------------------------------------------------------------------
(* Who holds a line.                                                         *)

HoldersIn(d, i) == {n \in 1..Len(d) : i \in d[n].from..d[n].to}
Twice(l, t, d, i) == l = "python" /\ t[i].tag \in {"@", "empty", "spaces"} /\ Cardinality(HoldersIn(d, i)) = 2

\* Drafts hold every line that means something, and only what may be repeated twice.
Held(l, t, d) ==
    /\ Len(d) \in Nat
    /\ \A n \in 1..Len(d) : d[n].from \in 1..Len(t) /\ d[n].to \in d[n].from..Len(t)
    /\ \A i \in 1..Len(t) : /\ Cutting!Meaningful(t[i]) => HoldersIn(d, i) # {}
                            /\ Cardinality(HoldersIn(d, i)) <= 1 \/ Twice(l, t, d, i)

\* Sets of no two members and of no three.
LEMMA FewMembers ==
    ASSUME NEW S
    PROVE  /\ (\A x, y \in S : x = y) => Cardinality(S) <= 1
           /\ (\A x, y, z \in S : x = y \/ x = z \/ y = z) => Cardinality(S) <= 1 \/ Cardinality(S) = 2
<1>1. Cardinality({}) = 0 /\ \A x : IsFiniteSet({x}) /\ Cardinality({x}) = 1
  BY FS_EmptySet, FS_Singleton
<1>2. CASE S = {}
  BY <1>1, <1>2
<1>3. CASE S # {}
  <2>1. PICK x \in S : TRUE
    BY <1>3
  <2>2. CASE \A y \in S : y = x
    <3>1. S = {x}
      BY <2>1, <2>2
    <3>2. Cardinality(S) = 1
      BY <1>1, <3>1
    <3> QED BY <3>2
  <2>3. CASE \E y \in S : y # x
    <3>1. PICK y \in S : y # x
      BY <2>3
    <3>2. ASSUME \A u, v, w \in S : u = v \/ u = w \/ v = w PROVE Cardinality(S) = 2
      <4>1. \A z \in S : z = x \/ z = y
        BY <3>1, <3>2
      <4>2. S = {x} \cup {y} /\ y \notin {x}
        BY <2>1, <3>1, <4>1
      <4>3. Cardinality({x} \cup {y}) = Cardinality({x}) + 1
        BY <1>1, <4>2, FS_AddElement
      <4>4. Cardinality({x}) = 1
        BY <1>1
      <4>5. Cardinality({x} \cup {y}) = 2
        BY <4>3, <4>4
      <4> QED BY <4>2, <4>5
    <3> QED BY <2>1, <3>1, <3>2
  <2> QED BY <2>2, <2>3
<1> QED BY <1>2, <1>3

\* Drafts that are apart hold a line once.
LEMMA PartedHolds ==
    ASSUME NEW l, NEW t, NEW d, Len(t) \in Nat, Parted(t, d)
    PROVE  Held(l, t, d)
<1>1. \A n \in 1..Len(d) : d[n].from \in 1..Len(t) /\ d[n].to \in d[n].from..Len(t)
  BY DEF Parted
<1>2. ASSUME NEW i \in 1..Len(t) PROVE Cardinality(HoldersIn(d, i)) <= 1
  <2>1. \A m, n \in HoldersIn(d, i) : m = n
    <3> SUFFICES ASSUME NEW m \in HoldersIn(d, i), NEW n \in HoldersIn(d, i) PROVE ~(m < n)
      <4>1. \A m \in HoldersIn(d, i) : m \in Nat
        BY DEF HoldersIn, Parted
      <4> QED BY <4>1
    <3>1. m \in 1..Len(d) /\ n \in 1..Len(d) /\ i \in d[m].from..d[m].to /\ i \in d[n].from..d[n].to
      BY DEF HoldersIn
    <3>2. m < n => d[m].to < d[n].from
      BY <3>1 DEF Parted
    <3> QED BY <1>1, <3>1, <3>2
  <2> QED BY <2>1, FewMembers
<1>3. \A i \in 1..Len(t) : Cutting!Meaningful(t[i]) => HoldersIn(d, i) # {}
  BY DEF Parted, HoldersIn
<1> QED BY <1>1, <1>2, <1>3 DEF Held, Parted

-----------------------------------------------------------------------------
(* What Python is cut into.                                                  *)

\* The spans of a Python text are the units of its headers, and no two begin in one line.
LEMMA PythonSpansAre ==
    ASSUME NEW t, PythonText(t), NEW S, S = Cutting!PythonSpans(t)
    PROVE  /\ Typed(S, Len(t))
           /\ \A u \in S : \E a \in Cutting!HeaderLines(t) : u = Cutting!PythonUnit(t, a) /\ UnitIn(t, a, u)
           /\ \A u, v \in S : u.from = v.from => u = v
           /\ \A u \in S : t[u.from].tag # "empty" /\ (u.kind # "class" => t[u.to].tag # "empty")
<1>1. PICK n \in Nat : n = Len(t)
  BY DEF PythonText
<1>2. PICK X : X = Cutting!Solid(t)
  OBVIOUS
<1>3. \A k \in X : k \in 1..n /\ t[k].tag # "empty"
  BY <1>1, <1>2, SolidIs DEF Cutting!Blank
<1>4. PICK H : H = Cutting!HeaderLines(t)
  OBVIOUS
<1>5. \A a \in H : a \in X /\ Reaches(t, a)
  BY <1>2, <1>4, HeadersAre DEF Reaches
<1>6. \A u \in S : \E a \in H : u = Cutting!PythonUnit(t, a) /\ UnitIn(t, a, u)
  BY <1>4, UnitIs DEF Cutting!PythonSpans
<1>7. ASSUME NEW a \in H
      PROVE  /\ Cutting!NodeStart(t, a) \in X /\ Cutting!NodeStart(t, a) <= a /\ Cutting!LastLine(t, a) \in X
             /\ \A b \in H : a < b => a < Cutting!NodeStart(t, b)
  <2>1. StartOf(t, a, Cutting!NodeStart(t, a)) /\ EndOf(t, a, Cutting!LastLine(t, a))
    BY <1>2, <1>5, NodeStartIs, LastLineIs
  <2>2. ASSUME NEW b \in H, a < b PROVE a < Cutting!NodeStart(t, b)
    <3>1. PICK e, s : e = Cutting!LastLine(t, a) /\ s = Cutting!NodeStart(t, b)
      OBVIOUS
    <3>2. EndOf(t, a, e) /\ StartOf(t, b, s)
      BY <1>2, <1>5, <2>1, <3>1, NodeStartIs
    <3>3. Headed(t, a)
      BY <1>5 DEF Reaches
    <3> QED BY <1>2, <1>5, <2>2, <3>1, <3>2, <3>3, StartsBehind
  <2> QED BY <1>2, <2>1, <2>2 DEF StartOf, EndOf
<1>8. ASSUME NEW u \in S
      PROVE  /\ u.from \in 1..n /\ u.to \in u.from..n /\ u.kind \in SpanKinds /\ u = Cutting!Span(u.from, u.to, u.kind)
             /\ t[u.from].tag # "empty" /\ (u.kind # "class" => t[u.to].tag # "empty")
  <2>1. PICK a \in H : UnitIn(t, a, u)
    BY <1>6
  <2>2. PICK s, e : s = Cutting!NodeStart(t, a) /\ e = Cutting!LastLine(t, a)
    OBVIOUS
  <2>3. s \in 1..n /\ s <= a /\ e \in 1..n /\ a \in 1..n /\ t[s].tag # "empty" /\ t[e].tag # "empty"
    BY <1>3, <1>5, <1>7, <2>2
  <2>4. u.from = s /\ u.to \in a..e /\ (u.kind # "class" => u.to = e)
    BY <2>1, <2>2 DEF UnitIn
  <2>5. u.to \in s..n
    BY <2>3, <2>4
  <2> QED BY <2>1, <2>3, <2>4, <2>5 DEF UnitIn, SpanKinds
<1>9. ASSUME NEW u \in S, NEW v \in S, u.from = v.from PROVE u = v
  <2>1. PICK a \in H : u = Cutting!PythonUnit(t, a) /\ u.from = Cutting!NodeStart(t, a)
    BY <1>6 DEF UnitIn
  <2>2. PICK b \in H : v = Cutting!PythonUnit(t, b) /\ v.from = Cutting!NodeStart(t, b)
    BY <1>6 DEF UnitIn
  <2>3. PICK r, s : r = Cutting!NodeStart(t, a) /\ s = Cutting!NodeStart(t, b)
    OBVIOUS
  <2>4. r = s /\ r <= a /\ s <= b /\ (a < b => a < s) /\ (b < a => b < r)
    BY <1>7, <1>9, <2>1, <2>2, <2>3
  <2>5. a \in Nat /\ b \in Nat /\ r \in Nat
    BY <1>3, <1>5, <1>7, <2>3
  <2>6. a = b
    BY <2>4, <2>5
  <2> QED BY <2>1, <2>2, <2>6
<1> QED BY <1>1, <1>4, <1>6, <1>8, <1>9 DEF Typed

\* A draft of Python that is refused is the head of a class.
HeadsOnly(t, d) ==
    \A n \in 1..Len(d) : Cutting!SliceMatches(t, d[n]) \/ (d[n].kind = "class" /\ t[d[n].to].tag = "empty")

\* The drafts of Python hold its lines, and its units are among them.
PythonCut(t, d) ==
    /\ Held("python", t, d) /\ HeadsOnly(t, d)
    /\ \A n \in 1..Len(d) :
          /\ d[n].cut = FALSE
          /\ d[n].kind \in {"function", "method"} =>
                Cutting!Span(d[n].from, d[n].to, d[n].kind) \in Cutting!PythonSpans(t)
    /\ \A u \in Cutting!PythonSpans(t) : \E n \in 1..Len(d) : d[n].from = u.from /\ d[n].to = u.to

\* A Python text is cut well, and only a class may end with an empty line.
LEMMA PythonIsCut ==
    ASSUME NEW t, PythonText(t), NEW d, d = Cutting!Units("python", t)
    PROVE  PythonCut(t, d)
<1>1. PICK n \in Nat : n = Len(t)
  BY DEF PythonText
<1>2. PICK S : S = Cutting!PythonSpans(t)
  OBVIOUS
<1>3. PICK C : C = Cutting!Covered("python", t, S)
  OBVIOUS
<1>4. PICK B : B = Cutting!BlockSpans(t, C)
  OBVIOUS
<1>5. PICK U : U = S \cup B
  OBVIOUS
<1>6. /\ Typed(S, n)
      /\ \A u \in S : \E a \in Cutting!HeaderLines(t) : u = Cutting!PythonUnit(t, a)
      /\ \A u, v \in S : u.from = v.from => u = v
      /\ \A u \in S : t[u.from].tag # "empty" /\ (u.kind # "class" => t[u.to].tag # "empty")
  BY <1>1, <1>2, PythonSpansAre
<1>7. BlocksSound(B, t, C)
  BY <1>1, <1>4, BlocksAre
<1>8. \A i : i \in C <=> \E s \in S : i \in s.from..s.to
  <2>1. C = (UNION {s.from .. s.to : s \in S}) \cup {}
    BY <1>3 DEF Cutting!Covered
  <2> QED BY <2>1
<1>9. \A b \in B : /\ b.from \in 1..n /\ b.to \in b.from..n /\ b.kind = "block" /\ b = Cutting!Span(b.from, b.to, b.kind)
                   /\ Cutting!Meaningful(t[b.from]) /\ Cutting!Meaningful(t[b.to])
                   /\ \A i \in b.from..b.to : i \notin C
  BY <1>1, <1>7 DEF BlocksSound
<1>10. Typed(U, n)
  BY <1>5, <1>6, <1>9 DEF Typed, SpanKinds
<1>11. \A u \in U : u.from \in 1..n /\ u.to \in u.from..n /\ u.from \in u.from..u.to
  BY <1>10 DEF Typed
<1>12. ASSUME NEW s \in S, NEW b \in B, NEW i \in s.from..s.to PROVE i \notin b.from..b.to
  BY <1>8, <1>9
<1>13. ASSUME NEW b \in B, NEW c \in B, b # c, NEW i, i \in b.from..b.to, i \in c.from..c.to PROVE FALSE
  <2>1. b.to < c.from \/ c.to < b.from
    BY <1>7, <1>13 DEF BlocksSound, Apart
  <2> QED BY <1>9, <1>13, <2>1
<1>14. Begins(U, n)
  <2> SUFFICES ASSUME NEW u \in U, NEW v \in U, u.from = v.from PROVE u = v
    BY <1>11 DEF Begins
  <2>1. u.from \in u.from..u.to /\ u.from \in v.from..v.to
    BY <1>11
  <2>2. CASE u \in S /\ v \in S
    BY <1>6, <2>2
  <2>3. CASE u \in S /\ v \in B
    BY <1>12, <2>1, <2>3
  <2>4. CASE u \in B /\ v \in S
    BY <1>12, <2>1, <2>4
  <2>5. CASE u \in B /\ v \in B
    BY <1>13, <2>1, <2>5
  <2> QED BY <1>5, <2>2, <2>3, <2>4, <2>5
<1>15. Cutting!Spans("python", t) = S
  BY <1>2 DEF Cutting!Spans
<1>16. Lists(d, Drawn(U))
  BY <1>3, <1>4, <1>5, <1>10, <1>14, <1>15, UnitsAre
<1>17. PICK P : P = Drawn(U)
  OBVIOUS
<1>18. /\ \A p \in Drawn(U) : p.cut = FALSE /\ \E u \in U : p.from = u.from /\ p.to = u.to /\ p.kind = u.kind
       /\ \A u \in U : \E p \in Drawn(U) : p.from = u.from /\ p.to = u.to /\ p.kind = u.kind
       /\ \A p, q \in Drawn(U) : p.from = q.from /\ p.to = q.to /\ p.kind = q.kind => p = q
  BY DrawnAre
<1>19. /\ \A p \in P : p.cut = FALSE /\ \E u \in U : p.from = u.from /\ p.to = u.to /\ p.kind = u.kind
       /\ \A u \in U : \E p \in P : p.from = u.from /\ p.to = u.to /\ p.kind = u.kind
       /\ \A p, q \in P : p.from = q.from /\ p.to = q.to /\ p.kind = q.kind => p = q
  BY <1>17, <1>18
<1>20. /\ Len(d) \in Nat /\ (\A k \in 1..Len(d) : d[k] \in P) /\ (\A p \in P : \E k \in 1..Len(d) : d[k] = p)
       /\ \A j, k \in 1..Len(d) : d[j] = d[k] => j = k
  BY <1>16, <1>17 DEF Lists, Distinct
<1>21. ASSUME NEW k \in 1..Len(d)
       PROVE  d[k].cut = FALSE /\ \E u \in U : d[k].from = u.from /\ d[k].to = u.to /\ d[k].kind = u.kind
  BY <1>19, <1>20
<1>22. ASSUME NEW j \in 1..Len(d), NEW k \in 1..Len(d), d[j].from = d[k].from, d[j].to = d[k].to, d[j].kind = d[k].kind
       PROVE  j = k
  BY <1>19, <1>20, <1>22
<1>23. ASSUME NEW u \in U PROVE \E k \in 1..Len(d) : d[k].from = u.from /\ d[k].to = u.to
  <2>1. PICK p \in P : p.from = u.from /\ p.to = u.to
    BY <1>19
  <2>2. PICK k \in 1..Len(d) : d[k] = p
    BY <1>20
  <2> QED BY <2>1, <2>2
<1>24. \A k \in 1..Len(d) : d[k].from \in 1..Len(t) /\ d[k].to \in d[k].from..Len(t)
  <2> SUFFICES ASSUME NEW k \in 1..Len(d) PROVE d[k].from \in 1..n /\ d[k].to \in d[k].from..n
    BY <1>1
  <2>1. PICK u \in U : d[k].from = u.from /\ d[k].to = u.to
    BY <1>21
  <2> QED BY <1>11, <2>1
<1>25. ASSUME NEW i \in 1..n, Cutting!Meaningful(t[i]) PROVE HoldersIn(d, i) # {}
  <2>1. PICK u \in U : i \in u.from..u.to
    <3>1. CASE i \in C
      BY <1>5, <1>8, <3>1
    <3>2. CASE i \notin C
      BY <1>1, <1>5, <1>7, <1>25, <3>2 DEF BlocksSound
    <3> QED BY <3>1, <3>2
  <2>2. PICK k \in 1..Len(d) : d[k].from = u.from /\ d[k].to = u.to
    BY <1>23
  <2>3. i \in d[k].from..d[k].to
    BY <2>1, <2>2
  <2>4. k \in HoldersIn(d, i)
    BY <2>3 DEF HoldersIn
  <2> QED BY <2>4
\* two units that hold a line are those of two headers, one before it and one behind it
<1>26. ASSUME NEW i \in 1..n, NEW a \in Cutting!HeaderLines(t), NEW b \in Cutting!HeaderLines(t), a # b,
              UnitHolds(t, a, i), UnitHolds(t, b, i)
       PROVE  t[i].tag \in {"@", "empty", "spaces"} /\ ((a < i /\ i < b) \/ (b < i /\ i < a))
  <2>1. a \in Cutting!Solid(t) /\ b \in Cutting!Solid(t)
    BY HeadersAre DEF Reaches
  <2>2. a \in Nat /\ b \in Nat
    BY <2>1, SolidIs
  <2>3. i \in 1..Len(t)
    BY <1>1
  <2>4. ASSUME NEW x \in Cutting!HeaderLines(t), NEW y \in Cutting!HeaderLines(t), x < y,
               UnitHolds(t, x, i), UnitHolds(t, y, i)
        PROVE  x < i /\ i < y /\ t[i].tag \in {"@", "empty", "spaces"}
    BY <2>3, <2>4, UnitsShare
  <2>5. CASE a < b
    BY <1>26, <2>4, <2>5
  <2>6. CASE b < a
    BY <1>26, <2>4, <2>6
  <2> QED BY <1>26, <2>2, <2>5, <2>6
<1>27. ASSUME NEW i \in 1..n, NEW u \in U, NEW v \in U, u # v, i \in u.from..u.to, i \in v.from..v.to
       PROVE  u \in S /\ v \in S /\ t[i].tag \in {"@", "empty", "spaces"}
  <2>1. u \in S /\ v \in S
    BY <1>5, <1>12, <1>13, <1>27
  <2>2. PICK a \in Cutting!HeaderLines(t) : u = Cutting!PythonUnit(t, a)
    BY <1>6, <2>1
  <2>3. PICK b \in Cutting!HeaderLines(t) : v = Cutting!PythonUnit(t, b)
    BY <1>6, <2>1
  <2>4. a # b
    BY <1>27, <2>2, <2>3
  <2>5. UnitHolds(t, a, i) /\ UnitHolds(t, b, i)
    BY <1>27, <2>2, <2>3 DEF UnitHolds
  <2> QED BY <1>26, <2>1, <2>4, <2>5
<1>28. ASSUME NEW i \in 1..n, NEW u \in U, NEW v \in U, NEW w \in U, u # v, u # w, v # w,
              i \in u.from..u.to, i \in v.from..v.to, i \in w.from..w.to
       PROVE  FALSE
  <2>1. u \in S /\ v \in S /\ w \in S
    BY <1>27, <1>28
  <2>2. PICK a \in Cutting!HeaderLines(t) : u = Cutting!PythonUnit(t, a)
    BY <1>6, <2>1
  <2>3. PICK b \in Cutting!HeaderLines(t) : v = Cutting!PythonUnit(t, b)
    BY <1>6, <2>1
  <2>4. PICK c \in Cutting!HeaderLines(t) : w = Cutting!PythonUnit(t, c)
    BY <1>6, <2>1
  <2>45. UnitHolds(t, a, i) /\ UnitHolds(t, b, i) /\ UnitHolds(t, c, i)
    BY <1>28, <2>2, <2>3, <2>4 DEF UnitHolds
  <2>5. (a < i /\ i < b) \/ (b < i /\ i < a)
    BY <1>26, <1>28, <2>45, <2>2, <2>3
  <2>6. (a < i /\ i < c) \/ (c < i /\ i < a)
    BY <1>26, <1>28, <2>45, <2>2, <2>4
  <2>7. (b < i /\ i < c) \/ (c < i /\ i < b)
    BY <1>26, <1>28, <2>45, <2>3, <2>4
  <2>8. a \in Nat /\ b \in Nat /\ c \in Nat
    <3>1. a \in Cutting!Solid(t) /\ b \in Cutting!Solid(t) /\ c \in Cutting!Solid(t)
      BY HeadersAre DEF Reaches
    <3> QED BY <3>1, SolidIs
  <2> QED BY <2>5, <2>6, <2>7, <2>8
<1>29. \A i : \A k \in HoldersIn(d, i) : k \in 1..Len(d) /\ i \in d[k].from..d[k].to
  BY DEF HoldersIn
<1>30. ASSUME NEW i \in 1..n, NEW j \in HoldersIn(d, i), NEW k \in HoldersIn(d, i), j # k
       PROVE  t[i].tag \in {"@", "empty", "spaces"}
  <2>1. PICK u \in U : d[j].from = u.from /\ d[j].to = u.to /\ d[j].kind = u.kind
    BY <1>21, <1>29
  <2>2. PICK v \in U : d[k].from = v.from /\ d[k].to = v.to /\ d[k].kind = v.kind
    BY <1>21, <1>29
  <2>3. u # v
    BY <1>22, <1>29, <1>30, <2>1, <2>2
  <2> QED BY <1>27, <1>29, <2>1, <2>2, <2>3
<1>31. ASSUME NEW i \in 1..n, NEW j \in HoldersIn(d, i), NEW k \in HoldersIn(d, i), NEW l \in HoldersIn(d, i)
       PROVE  j = k \/ j = l \/ k = l
  <2> SUFFICES ASSUME j # k, j # l, k # l PROVE FALSE
    OBVIOUS
  <2>1. PICK u \in U : d[j].from = u.from /\ d[j].to = u.to /\ d[j].kind = u.kind
    BY <1>21, <1>29
  <2>2. PICK v \in U : d[k].from = v.from /\ d[k].to = v.to /\ d[k].kind = v.kind
    BY <1>21, <1>29
  <2>3. PICK w \in U : d[l].from = w.from /\ d[l].to = w.to /\ d[l].kind = w.kind
    BY <1>21, <1>29
  <2>4. u # v /\ u # w /\ v # w
    BY <1>22, <1>29, <2>1, <2>2, <2>3
  <2>5. i \in u.from..u.to /\ i \in v.from..v.to /\ i \in w.from..w.to
    BY <1>29, <2>1, <2>2, <2>3
  <2> QED BY <1>28, <2>4, <2>5
<1>32. ASSUME NEW i \in 1..n PROVE Cardinality(HoldersIn(d, i)) <= 1 \/ Twice("python", t, d, i)
  <2>1. CASE \A j, k \in HoldersIn(d, i) : j = k
    BY <2>1, FewMembers
  <2>2. CASE \E j, k \in HoldersIn(d, i) : j # k
    <3>1. t[i].tag \in {"@", "empty", "spaces"}
      BY <1>30, <2>2
    <3>2. Cardinality(HoldersIn(d, i)) <= 1 \/ Cardinality(HoldersIn(d, i)) = 2
      BY <1>31, FewMembers
    <3> QED BY <3>1, <3>2 DEF Twice
  <2> QED BY <2>1, <2>2
<1>33. Held("python", t, d)
  BY <1>1, <1>20, <1>24, <1>25, <1>32 DEF Held
<1>34. ASSUME NEW k \in 1..Len(d)
       PROVE  Cutting!SliceMatches(t, d[k]) \/ (d[k].kind = "class" /\ t[d[k].to].tag = "empty")
  <2>1. PICK u \in U : d[k].from = u.from /\ d[k].to = u.to /\ d[k].kind = u.kind
    BY <1>21
  <2>2. CASE u \in S
    BY <1>6, <2>1, <2>2 DEF Cutting!SliceMatches
  <2>3. CASE u \in B
    BY <1>9, <2>1, <2>3 DEF Cutting!SliceMatches, Cutting!Meaningful, Cutting!Blank
  <2> QED BY <1>5, <2>2, <2>3
<1>35. ASSUME NEW k \in 1..Len(d), d[k].kind \in {"function", "method"}
       PROVE  Cutting!Span(d[k].from, d[k].to, d[k].kind) \in S
  <2>1. PICK u \in U : d[k].from = u.from /\ d[k].to = u.to /\ d[k].kind = u.kind
    BY <1>21
  <2>2. u \in S
    BY <1>5, <1>9, <1>35, <2>1
  <2>3. u = Cutting!Span(u.from, u.to, u.kind)
    BY <1>6, <2>2 DEF Typed
  <2> QED BY <2>1, <2>2, <2>3
<1> QED BY <1>2, <1>5, <1>21, <1>23, <1>33, <1>34, <1>35 DEF HeadsOnly, PythonCut

-----------------------------------------------------------------------------
(* Markdown: fences and headings.                                            *)

\* One line of the two scans.
FenceStep(t, x, i) ==
    IF x = "no" THEN IF t[i].tag \in Cutting!Fences THEN t[i].tag ELSE "no"
    ELSE IF t[i].tag = x THEN "no" ELSE x
RoleStep(t, fenced, x, i) ==
    IF x = "title" THEN "underline"
    ELSE IF i \in fenced THEN "line"
    ELSE IF t[i].tag \in {"h1", "h2", "h3"} THEN "heading"
    ELSE IF Cutting!Underlined(t, i) THEN "title" ELSE "line"

\* The fence that is open after a line depends on the line and on the one open before it.
LEMMA OpenFenceIs ==
    ASSUME NEW t, Len(t) \in Nat
    PROVE  \A i \in 0..Len(t) :
              Cutting!OpenFence(t)[i] = IF i = 0 THEN "no" ELSE FenceStep(t, Cutting!OpenFence(t)[i - 1], i)
<1>1. PICK n \in Nat : n = Len(t)
  OBVIOUS
<1> DEFINE X == {"no"} \cup Cutting!Fences
           F(f) == [i \in 0..n |-> IF i = 0 THEN "no" ELSE FenceStep(t, f[i - 1], i)]
           g == [p \in X \X (1..n) |-> FenceStep(t, p[1], p[2])]
<1>2. \A x \in X, i \in 1..n : g[<<x, i>>] = FenceStep(t, x, i)
  OBVIOUS
<1>3. \A x \in X, i \in 1..n : FenceStep(t, x, i) \in X
  BY DEF FenceStep
<1>4. g \in [X \X (1..n) -> X]
  BY <1>3
<1>5. PICK a : a = "no"
  OBVIOUS
<1>6. a \in X
  BY <1>5
<1> HIDE DEF g, X
<1>7. \E h : Computes(h, n, X, a, g)
  BY <1>4, <1>6, StepsExist
<1>8. PICK h \in [0..n -> X] : h[0] = a /\ \A i \in 1..n : h[i] = g[<<h[i - 1], i>>]
  BY <1>7 DEF Computes
<1>9. ASSUME NEW i \in 0..n PROVE h[i] = IF i = 0 THEN "no" ELSE FenceStep(t, h[i - 1], i)
  <2>1. CASE i = 0
    BY <1>5, <1>8, <2>1
  <2>2. CASE i # 0
    <3>1. i \in 1..n /\ i - 1 \in 0..n
      BY <2>2
    <3>2. h[i - 1] \in X
      BY <3>1
    <3> QED BY <1>2, <1>8, <2>2, <3>1, <3>2
  <2> QED BY <2>1, <2>2
<1>10. h = F(h)
  BY <1>9
<1>11. PICK u : u = CHOOSE f : f = F(f)
  OBVIOUS
<1>12. u = F(u)
  BY <1>10, <1>11
<1>13. \A i \in 0..n : u[i] = IF i = 0 THEN "no" ELSE FenceStep(t, u[i - 1], i)
  BY <1>12
<1>14. Cutting!OpenFence(t) = u
  BY <1>1, <1>11 DEF Cutting!OpenFence, FenceStep
<1> QED BY <1>1, <1>13, <1>14

\* The role of a line depends on the line and on the role of the line before.
LEMMA RolesAre ==
    ASSUME NEW t, Len(t) \in Nat
    PROVE  \A i \in 0..Len(t) :
              Cutting!Roles(t)[i] =
                IF i = 0 THEN "line" ELSE RoleStep(t, Cutting!Fenced(t), Cutting!Roles(t)[i - 1], i)
<1>1. PICK n \in Nat : n = Len(t)
  OBVIOUS
<1>2. PICK c : c = Cutting!Fenced(t)
  OBVIOUS
<1> DEFINE X == {"line", "underline", "heading", "title"}
           F(f) == [i \in 0..n |-> IF i = 0 THEN "line" ELSE RoleStep(t, c, f[i - 1], i)]
           g == [p \in X \X (1..n) |-> RoleStep(t, c, p[1], p[2])]
<1>3. \A x \in X, i \in 1..n : g[<<x, i>>] = RoleStep(t, c, x, i)
  OBVIOUS
<1>4. \A x \in X, i \in 1..n : RoleStep(t, c, x, i) \in X
  BY DEF RoleStep
<1>5. g \in [X \X (1..n) -> X]
  BY <1>4
<1>6. PICK a : a = "line"
  OBVIOUS
<1>7. a \in X
  BY <1>6
<1> HIDE DEF g, X
<1>8. \E h : Computes(h, n, X, a, g)
  BY <1>5, <1>7, StepsExist
<1>9. PICK h \in [0..n -> X] : h[0] = a /\ \A i \in 1..n : h[i] = g[<<h[i - 1], i>>]
  BY <1>8 DEF Computes
<1>10. ASSUME NEW i \in 0..n PROVE h[i] = IF i = 0 THEN "line" ELSE RoleStep(t, c, h[i - 1], i)
  <2>1. CASE i = 0
    BY <1>6, <1>9, <2>1
  <2>2. CASE i # 0
    <3>1. i \in 1..n /\ i - 1 \in 0..n
      BY <2>2
    <3>2. h[i - 1] \in X
      BY <3>1
    <3> QED BY <1>3, <1>9, <2>2, <3>1, <3>2
  <2> QED BY <2>1, <2>2
<1>11. h = F(h)
  BY <1>10
<1>12. PICK u : u = CHOOSE f : f = F(f)
  OBVIOUS
<1>13. u = F(u)
  BY <1>11, <1>12
<1>14. \A i \in 0..n : u[i] = IF i = 0 THEN "line" ELSE RoleStep(t, c, u[i - 1], i)
  BY <1>13
<1>15. Cutting!Roles(t) = u
  BY <1>1, <1>2, <1>12 DEF Cutting!Roles, RoleStep
<1> QED BY <1>1, <1>2, <1>14, <1>15

\* A blank line inside a fence has lines of the fence before it, and behind it or no more lines.
LEMMA FencesAre ==
    ASSUME NEW t, NEW n \in Nat, n = Len(t)
    PROVE  /\ Cutting!Fenced(t) \subseteq 1..n
           /\ \A i \in Cutting!Fenced(t) : Cutting!Blank(t[i]) =>
                /\ i > 1 /\ i - 1 \in Cutting!Fenced(t)
                /\ (i < n => i + 1 \in Cutting!Fenced(t)) /\ (i = n => Cutting!Unclosed(t))
<1>1. PICK o : o = Cutting!OpenFence(t)
  OBVIOUS
<1>2. \A i \in 0..n : o[i] = IF i = 0 THEN "no" ELSE FenceStep(t, o[i - 1], i)
  BY <1>1, OpenFenceIs
<1>3. \A i : i \in Cutting!Fenced(t) <=> i \in 1..n /\ (o[i - 1] # "no" \/ o[i] # "no")
  BY <1>1 DEF Cutting!Fenced, Cutting!Lines
<1>4. ASSUME NEW i \in Cutting!Fenced(t), Cutting!Blank(t[i])
      PROVE  /\ i > 1 /\ i - 1 \in Cutting!Fenced(t)
             /\ (i < n => i + 1 \in Cutting!Fenced(t)) /\ (i = n => o[n] # "no")
  <2>1. i \in 1..n /\ (o[i - 1] # "no" \/ o[i] # "no")
    BY <1>3
  <2>2. o[i] = FenceStep(t, o[i - 1], i)
    BY <1>2, <2>1
  <2>3. t[i].tag \notin Cutting!Fences
    BY <1>4 DEF Cutting!Blank, Cutting!Fences
  <2>4. o[i - 1] # "no"
    BY <2>1, <2>2, <2>3 DEF FenceStep
  <2>5. i - 1 # 0 /\ i - 1 \in 1..n
    BY <1>2, <2>1, <2>4
  <2>6. o[i - 1] = FenceStep(t, o[(i - 1) - 1], i - 1)
    BY <1>2, <2>5
  <2>7. o[i - 1] \in Cutting!Fences \/ o[i - 1] = o[(i - 1) - 1]
    BY <2>4, <2>6 DEF FenceStep
  <2>8. o[i] # "no"
    <3> SUFFICES t[i].tag # o[i - 1]
      BY <2>2, <2>4 DEF FenceStep
    <3> DEFINE U == {k \in 0..n : o[k] \in {"no"} \cup Cutting!Fences}
    <3>1. 0 \in U
      BY <1>2
    <3>2. ASSUME NEW k \in 0..n - 1, k \in U PROVE k + 1 \in U
      <4>1. k + 1 \in 0..n /\ k + 1 # 0 /\ (k + 1) - 1 = k
        OBVIOUS
      <4>2. o[k + 1] = FenceStep(t, o[k], k + 1)
        BY <1>2, <4>1
      <4> QED BY <3>2, <4>1, <4>2 DEF FenceStep
    <3>3. U = {k \in 0..n : o[k] \in {"no"} \cup Cutting!Fences}
      OBVIOUS
    <3> HIDE DEF U
    <3>4. 0..n \subseteq U
      BY <3>1, <3>2, Climb
    <3>5. o[i - 1] \in {"no"} \cup Cutting!Fences
      BY <2>5, <3>3, <3>4
    <3> QED BY <2>3, <2>4, <3>5
  <2>9. i - 1 \in Cutting!Fenced(t)
    BY <1>3, <2>4, <2>5
  <2>10. i < n => i + 1 \in Cutting!Fenced(t)
    <3> SUFFICES ASSUME i < n PROVE i + 1 \in 1..n /\ (i + 1) - 1 = i
      BY <1>3, <2>8
    <3> QED BY <2>1
  <2>11. i = n => o[n] # "no"
    BY <2>8
  <2>12. i > 1
    BY <2>1, <2>5
  <2> QED BY <2>9, <2>10, <2>11, <2>12
<1> QED BY <1>1, <1>3, <1>4 DEF Cutting!Unclosed

\* Headings of a text are apart, their lines outside every fence and not blank.
HeadingsSound(H, t) ==
    /\ InText(H, Len(t)) /\ Apart(H)
    /\ \A h \in H : /\ h.level \in 1..3 /\ ~Cutting!Blank(t[h.from]) /\ ~Cutting!Blank(t[h.to])
                    /\ h.from \notin Cutting!Fenced(t) /\ h.to \notin Cutting!Fenced(t)

\* Headings lie in the text one behind the other, and begin and end outside fences.
LEMMA HeadingsOfAre ==
    ASSUME NEW t, Len(t) \in Nat
    PROVE  HeadingsSound(Cutting!HeadingsOf(t), t)
<1>1. PICK n \in Nat : n = Len(t)
  OBVIOUS
<1>2. PICK o : o = Cutting!Roles(t)
  OBVIOUS
<1>3. PICK c : c = Cutting!Fenced(t)
  OBVIOUS
<1>4. PICK H : H = Cutting!HeadingsOf(t)
  OBVIOUS
<1>5. \A i \in 0..n : o[i] = IF i = 0 THEN "line" ELSE RoleStep(t, c, o[i - 1], i)
  BY <1>1, <1>2, <1>3, RolesAre
<1>6. ASSUME NEW h \in H
      PROVE  \E i \in 1..n : /\ h.from = i
                             /\ \/ o[i] = "heading" /\ h.to = i /\ h.level = Cutting!Level(t[i].tag)
                                                    /\ h = Cutting!Heading(i, i, Cutting!Level(t[i].tag))
                                \/ o[i] = "title" /\ h.to = i + 1 /\ h.level = 2 /\ h = Cutting!Heading(i, i + 1, 2)
  BY <1>1, <1>2, <1>4 DEF Cutting!HeadingsOf, Cutting!Heading, Cutting!Lines
<1>7. ASSUME NEW i \in 1..n, o[i] = "heading" PROVE i \notin c /\ ~Cutting!Blank(t[i])
  <2>1. o[i] = RoleStep(t, c, o[i - 1], i)
    BY <1>5
  <2> QED BY <1>7, <2>1 DEF RoleStep, Cutting!Blank
<1>8. ASSUME NEW i \in 1..n, o[i] = "title"
      PROVE  /\ i \notin c /\ ~Cutting!Blank(t[i]) /\ i < n /\ i + 1 \notin c /\ ~Cutting!Blank(t[i + 1])
             /\ o[i + 1] = "underline"
  <2>1. o[i] = RoleStep(t, c, o[i - 1], i)
    BY <1>5
  <2>2. i \notin c /\ Cutting!Underlined(t, i)
    BY <1>8, <2>1 DEF RoleStep
  <2>3. i < n /\ i + 1 \notin c /\ ~Cutting!Blank(t[i]) /\ t[i + 1].tag = "rule"
    BY <1>1, <1>3, <2>2 DEF Cutting!Underlined
  <2>4. i + 1 \in 0..n /\ (i + 1) - 1 = i /\ i + 1 # 0
    BY <2>3
  <2>5. o[i + 1] = RoleStep(t, c, o[i], i + 1)
    BY <1>5, <2>4
  <2> QED BY <1>8, <2>2, <2>3, <2>5 DEF RoleStep, Cutting!Blank
<1>9. ASSUME NEW h \in H
      PROVE  /\ h.from \in 1..n /\ h.to \in h.from..n /\ h.level \in 1..3
             /\ ~Cutting!Blank(t[h.from]) /\ ~Cutting!Blank(t[h.to]) /\ h.from \notin c /\ h.to \notin c
  <2>1. \A i : Cutting!Level(t[i].tag) \in 1..3
    BY DEF Cutting!Level
  <2>2. PICK i \in 1..n : /\ h.from = i
                          /\ \/ o[i] = "heading" /\ h.to = i /\ h.level = Cutting!Level(t[i].tag)
                             \/ o[i] = "title" /\ h.to = i + 1 /\ h.level = 2
    BY <1>6
  <2>3. CASE o[i] = "heading"
    BY <1>7, <2>1, <2>2, <2>3
  <2>4. CASE o[i] = "title"
    BY <1>8, <2>2, <2>4
  <2> QED BY <2>2, <2>3, <2>4
<1>10. ASSUME NEW h \in H, NEW g \in H, h # g PROVE h.to < g.from \/ g.to < h.from
  <2>1. PICK i \in 1..n : /\ h.from = i
                          /\ \/ o[i] = "heading" /\ h.to = i
                                                 /\ h = Cutting!Heading(i, i, Cutting!Level(t[i].tag))
                             \/ o[i] = "title" /\ h.to = i + 1 /\ h = Cutting!Heading(i, i + 1, 2)
    BY <1>6
  <2>2. PICK j \in 1..n : /\ g.from = j
                          /\ \/ o[j] = "heading" /\ g.to = j
                                                 /\ g = Cutting!Heading(j, j, Cutting!Level(t[j].tag))
                             \/ o[j] = "title" /\ g.to = j + 1 /\ g = Cutting!Heading(j, j + 1, 2)
    BY <1>6
  <2>3. i # j
    BY <1>10, <2>1, <2>2
  <2>4. CASE i < j
    <3>1. ASSUME o[i] = "title", h.to = i + 1 PROVE h.to < g.from
      <4>1. o[i + 1] = "underline"
        BY <1>8, <3>1
      <4>2. j # i + 1
        BY <2>2, <4>1
      <4> QED BY <2>2, <2>4, <3>1, <4>2
    <3> QED BY <2>1, <2>2, <2>4, <3>1
  <2>5. CASE j < i
    <3>1. ASSUME o[j] = "title", g.to = j + 1 PROVE g.to < h.from
      <4>1. o[j + 1] = "underline"
        BY <1>8, <3>1
      <4>2. i # j + 1
        BY <2>1, <4>1
      <4> QED BY <2>1, <2>5, <3>1, <4>2
    <3> QED BY <2>1, <2>2, <2>5, <3>1
  <2> QED BY <2>3, <2>4, <2>5
<1> QED BY <1>1, <1>3, <1>4, <1>9, <1>10 DEF HeadingsSound, InText, Apart

\* The headings of a text in order.
Titled(hs, t) ==
    /\ Len(hs) \in Nat
    /\ \A m \in 1..Len(hs) :
          /\ hs[m].from \in 1..Len(t) /\ hs[m].to \in hs[m].from..Len(t) /\ hs[m].level \in 1..3
          /\ ~Cutting!Blank(t[hs[m].from]) /\ ~Cutting!Blank(t[hs[m].to])
          /\ hs[m].from \notin Cutting!Fenced(t) /\ hs[m].to \notin Cutting!Fenced(t)
    /\ \A m, k \in 1..Len(hs) : m < k => hs[m].to < hs[k].from

\* In order, they are the list that the sections are made of.
LEMMA HeadingsAre ==
    ASSUME NEW t, Len(t) \in Nat
    PROVE  Titled(Cutting!Headings(t), t)
<1>1. PICK H, hs : H = Cutting!HeadingsOf(t) /\ hs = Cutting!Headings(t)
  OBVIOUS
<1>2. HeadingsSound(H, t) /\ InText(H, Len(t)) /\ Apart(H)
  BY <1>1, HeadingsOfAre DEF HeadingsSound
<1>3. Begins(H, Len(t))
  BY <1>2, ApartBegin
<1>4. hs = Cutting!InOrder(H, Cutting!ByFrom(H))
  BY <1>1 DEF Cutting!Headings
<1>5. \A p, q \in H : <<p, q>> \in Cutting!ByFrom(H) <=> p.from < q.from
  BY ByFromIs
<1>6. Lists(hs, H)
  BY <1>3, <1>4, <1>5, PartsInOrder
<1>7. hs \in Seq(H) /\ Len(hs) \in Nat /\ \A m \in 1..Len(hs) : hs[m] \in H
  BY <1>6 DEF Lists
<1>8. \A m \in 1..Len(hs) : hs[m].from \in 1..Len(t) /\ hs[m].to \in hs[m].from..Len(t)
  BY <1>2, <1>7 DEF InText
<1>9. ASSUME NEW m \in 1..Len(hs), NEW k \in 1..Len(hs), m < k PROVE hs[m].to < hs[k].from
  <2>1. hs[m] # hs[k]
    BY <1>6, <1>9 DEF Lists, Distinct
  <2>2. hs[m].to < hs[k].from \/ hs[k].to < hs[m].from
    BY <1>2, <1>7, <2>1 DEF Apart
  <2>3. ASSUME hs[k].to < hs[m].from PROVE FALSE
    <3>1. hs[k].from < hs[m].from
      BY <1>8, <2>3
    <3>2. k < m
      BY <1>6, <3>1 DEF Lists
    <3> QED BY <1>9, <3>2
  <2> QED BY <2>2, <2>3
<1> QED BY <1>1, <1>2, <1>7, <1>8, <1>9 DEF Titled, HeadingsSound

-----------------------------------------------------------------------------
(* Markdown: sections.                                                       *)

\* What a part of a text may end with: a line that is not blank, or the text and its open fence.
EndsWell(t, i) == ~Cutting!Blank(t[i]) \/ (i = Len(t) /\ Cutting!Unclosed(t))

\* The blocks between two lines begin with a line that is not blank, end well, and hold the rest.
BlocksWhole(R, t, first, last) ==
    /\ \A r \in R : /\ r[1] \in first..last /\ r[2] \in r[1]..last
                    /\ ~Cutting!Blank(t[r[1]]) /\ EndsWell(t, r[2])
    /\ \A r, q \in R : r = q \/ r[2] < q[1] \/ q[2] < r[1]
    /\ \A i \in first..last : ~Cutting!Blank(t[i]) => \E r \in R : i \in r[1]..r[2]

\* The blocks of a section end with its lines and leave no line that is not blank.
LEMMA LogicalBlocksAre ==
    ASSUME NEW t, NEW n \in Nat, n = Len(t), NEW first \in Nat, NEW last \in Int, first >= 1, last <= n,
           first - 1 \notin Cutting!Fenced(t), last + 1 \notin Cutting!Fenced(t)
    PROVE  BlocksWhole(Cutting!LogicalBlocks(t, first, last), t, first, last)
<1>1. PICK c : c = Cutting!Fenced(t)
  OBVIOUS
<1>2. PICK S : S = c \cup {i \in first .. last : ~Cutting!Blank(t[i])}
  OBVIOUS
<1>3. PICK R : R = Cutting!LogicalBlocks(t, first, last)
  OBVIOUS
<1>4. R = Cutting!Runs(first, last, S)
  BY <1>1, <1>2, <1>3 DEF Cutting!LogicalBlocks
<1>5. RunsSound(R, first, last, S)
  BY <1>4, RunsAre
<1>6. \A i \in c : Cutting!Blank(t[i]) => /\ i > 1 /\ i - 1 \in c
                                          /\ (i < n => i + 1 \in c) /\ (i = n => Cutting!Unclosed(t))
  BY <1>1, FencesAre
<1>7. first - 1 \notin c /\ last + 1 \notin c
  BY <1>1
<1>8. ASSUME NEW r \in R
      PROVE  r[1] \in first..last /\ r[2] \in r[1]..last /\ ~Cutting!Blank(t[r[1]]) /\ EndsWell(t, r[2])
  <2>1. PICK a, b : a = r[1] /\ b = r[2]
    OBVIOUS
  <2>2. a \in first..last /\ b \in first..last /\ a <= b
    BY <1>5, <2>1 DEF RunsSound
  <2>3. (\A i \in a..b : i \in S) /\ (a > first => a - 1 \notin S) /\ (b < last => b + 1 \notin S)
    BY <1>5, <2>1 DEF RunsSound
  <2>4. a \in S /\ b \in S
    BY <2>2, <2>3
  <2>5. ASSUME Cutting!Blank(t[a]) PROVE FALSE
    <3>1. a \in c
      BY <1>2, <2>4, <2>5
    <3>2. a - 1 \in c
      BY <1>6, <2>5, <3>1
    <3>3. a # first
      BY <1>7, <3>2
    <3>4. a > first
      BY <2>2, <3>3
    <3> QED BY <1>2, <2>3, <3>2, <3>4
  <2>6. ASSUME Cutting!Blank(t[b]) PROVE b = n /\ Cutting!Unclosed(t)
    <3>1. b \in c
      BY <1>2, <2>4, <2>6
    <3>2. (b < n => b + 1 \in c) /\ (b = n => Cutting!Unclosed(t))
      BY <1>6, <2>6, <3>1
    <3>3. ASSUME b < n PROVE FALSE
      <4>1. b + 1 \in c
        BY <3>2, <3>3
      <4>2. b # last
        BY <1>7, <4>1
      <4>3. b < last
        BY <2>2, <4>2
      <4> QED BY <1>2, <2>3, <4>1, <4>3
    <3>4. b = n
      BY <2>2, <3>3
    <3> QED BY <3>2, <3>4
  <2>7. b \in a..last
    BY <2>2
  <2> QED BY <2>1, <2>2, <2>5, <2>6, <2>7 DEF EndsWell
<1>9. ASSUME NEW r \in R, NEW q \in R PROVE r = q \/ r[2] < q[1] \/ q[2] < r[1]
  <2>1. r = q \/ r[2] + 1 < q[1] \/ q[2] + 1 < r[1]
    BY <1>5 DEF RunsSound
  <2> QED BY <1>8, <2>1
<1>10. \A i \in first..last : ~Cutting!Blank(t[i]) => \E r \in R : i \in r[1]..r[2]
  BY <1>2, <1>5 DEF RunsSound
<1> QED BY <1>3, <1>8, <1>9, <1>10 DEF BlocksWhole

\* Parts of the lines between two lines that are apart, begin and end well and hold the rest.
PartsWhole(P, t, first, last) ==
    /\ \A p \in P : /\ p.from \in first..last /\ p.to \in p.from..last /\ p.cut = FALSE
                    /\ ~Cutting!Blank(t[p.from]) /\ EndsWell(t, p.to)
    /\ Apart(P)
    /\ \A i \in first..last : ~Cutting!Blank(t[i]) => \E p \in P : i \in p.from..p.to

\* What is before the first heading.
LEMMA PreambleIs ==
    ASSUME NEW t, NEW n \in Nat, n = Len(t), NEW R, NEW last \in Int, BlocksWhole(R, t, 1, last), NEW P,
           P = {Cutting!Draft(r[1], r[2], 0, FALSE) : r \in R}
    PROVE  PartsWhole(P, t, 1, last)
<1>1. \A p \in P : \E r \in R : p.from = r[1] /\ p.to = r[2] /\ p.cut = FALSE /\ p = Cutting!Draft(r[1], r[2], 0, FALSE)
  BY DEF Cutting!Draft
<1>2. ASSUME NEW r \in R PROVE \E p \in P : p.from = r[1] /\ p.to = r[2]
  <2>1. PICK d : d = Cutting!Draft(r[1], r[2], 0, FALSE)
    OBVIOUS
  <2>2. d \in P
    BY <2>1
  <2>3. d.from = r[1] /\ d.to = r[2]
    BY <2>1 DEF Cutting!Draft
  <2> QED BY <2>2, <2>3
<1>3. \A p \in P : /\ p.from \in 1..last /\ p.to \in p.from..last /\ p.cut = FALSE
                   /\ ~Cutting!Blank(t[p.from]) /\ EndsWell(t, p.to)
  BY <1>1 DEF BlocksWhole
<1>4. Apart(P)
  <2> SUFFICES ASSUME NEW p \in P, NEW q \in P, p # q PROVE p.to < q.from \/ q.to < p.from
    BY DEF Apart
  <2>1. PICK r \in R : p.from = r[1] /\ p.to = r[2] /\ p = Cutting!Draft(r[1], r[2], 0, FALSE)
    BY <1>1
  <2>2. PICK s \in R : q.from = s[1] /\ q.to = s[2] /\ q = Cutting!Draft(s[1], s[2], 0, FALSE)
    BY <1>1
  <2>3. r # s
    BY <2>1, <2>2
  <2> QED BY <2>1, <2>2, <2>3 DEF BlocksWhole
<1>5. \A i \in 1..last : ~Cutting!Blank(t[i]) => \E p \in P : i \in p.from..p.to
  BY <1>2 DEF BlocksWhole
<1> QED BY <1>3, <1>4, <1>5 DEF PartsWhole

\* The parts of the section under a heading in lines a to b, with the heading in its first block.
Headline(R, a, b, m) ==
    IF R = {} THEN {Cutting!Draft(a, b, m, FALSE)}
    ELSE {Cutting!Draft(IF \A q \in R : r[1] <= q[1] THEN a ELSE r[1], r[2], m, FALSE) : r \in R}

\* A heading and its blocks make the parts of a section.
LEMMA SectionIs ==
    ASSUME NEW t, NEW n \in Nat, n = Len(t), NEW a \in 1..n, NEW b \in a..n, NEW last \in b..n,
           ~Cutting!Blank(t[a]), ~Cutting!Blank(t[b]), NEW R, BlocksWhole(R, t, b + 1, last), NEW m, NEW P,
           P = Headline(R, a, b, m)
    PROVE  PartsWhole(P, t, a, last)
<1>1. CASE R = {}
  <2>1. PICK d : d = Cutting!Draft(a, b, m, FALSE)
    OBVIOUS
  <2>2. P = {d} /\ d.from = a /\ d.to = b /\ d.cut = FALSE
    BY <1>1, <2>1 DEF Headline, Cutting!Draft
  <2>3. a \in a..last /\ b \in a..last
    OBVIOUS
  <2>4. \A i \in a..last : ~Cutting!Blank(t[i]) => i \in a..b
    <3> SUFFICES ASSUME NEW i \in a..last, ~Cutting!Blank(t[i]), ~(i \in a..b) PROVE FALSE
      OBVIOUS
    <3>1. i \in b + 1..last
      OBVIOUS
    <3> QED BY <1>1, <3>1 DEF BlocksWhole
  <2>5. EndsWell(t, b)
    BY DEF EndsWell
  <2>6. Apart(P)
    BY <2>2 DEF Apart
  <2> QED BY <2>2, <2>3, <2>4, <2>5, <2>6 DEF PartsWhole
<1>2. CASE R # {}
  <2> DEFINE first(r) == \A q \in R : r[1] <= q[1]
             start(r) == IF first(r) THEN a ELSE r[1]
  <2>1. P = {Cutting!Draft(start(r), r[2], m, FALSE) : r \in R}
    BY <1>2 DEF Headline
  <2>2. \A r \in R : r[1] \in b + 1..last /\ r[2] \in r[1]..last /\ ~Cutting!Blank(t[r[1]]) /\ EndsWell(t, r[2])
    BY DEF BlocksWhole
  <2>3. \A r \in R : (start(r) = a \/ start(r) = r[1]) /\ (first(r) => start(r) = a) /\ (~first(r) => start(r) = r[1])
    OBVIOUS
  <2>4. \A r \in R : first(r) <=> \A q \in R : r[1] <= q[1]
    OBVIOUS
  <2>5. PICK z \in R : first(z)
    <3> DEFINE T == {r[1] : r \in R}
    <3>1. T \in SUBSET Nat /\ T # {}
      BY <1>2, <2>2
    <3>2. PICK k \in T : \A j \in T : k <= j
      BY <3>1, LeastOf
    <3>3. PICK z \in R : z[1] = k
      BY <3>2
    <3>4. \A q \in R : z[1] <= q[1]
      BY <3>2, <3>3
    <3> QED BY <2>4, <3>4
  <2> HIDE DEF start, first
  <2>6. \A p \in P : \E r \in R : /\ p.from = start(r) /\ p.to = r[2] /\ p.cut = FALSE
                                  /\ p = Cutting!Draft(start(r), r[2], m, FALSE)
    BY <2>1 DEF Cutting!Draft
  <2>7. ASSUME NEW r \in R PROVE \E p \in P : p.from = start(r) /\ p.to = r[2]
    <3>1. PICK d : d = Cutting!Draft(start(r), r[2], m, FALSE)
      OBVIOUS
    <3>2. d \in P
      BY <2>1, <3>1
    <3>3. d.from = start(r) /\ d.to = r[2]
      BY <3>1 DEF Cutting!Draft
    <3> QED BY <3>2, <3>3
  <2>8. ASSUME NEW r \in R
        PROVE  /\ start(r) \in a..last /\ start(r) <= r[1] /\ r[2] \in start(r)..last
               /\ ~Cutting!Blank(t[start(r)]) /\ EndsWell(t, r[2])
    <3>1. r[1] \in b + 1..last /\ r[2] \in r[1]..last
      BY <2>2
    <3> QED BY <2>2, <2>3, <3>1
  <2>9. \A p \in P : /\ p.from \in a..last /\ p.to \in p.from..last /\ p.cut = FALSE
                     /\ ~Cutting!Blank(t[p.from]) /\ EndsWell(t, p.to)
    BY <2>6, <2>8
  <2>10. ASSUME NEW r \in R, NEW q \in R, r # q, r[2] < q[1] PROVE r[2] < start(q)
    <3>1. ~(q[1] <= r[1])
      BY <2>2, <2>10
    <3>2. ~first(q)
      BY <2>4, <3>1
    <3> QED BY <2>3, <2>10, <3>2
  <2>11. Apart(P)
    <3> SUFFICES ASSUME NEW p \in P, NEW q \in P, p # q PROVE p.to < q.from \/ q.to < p.from
      BY DEF Apart
    <3>1. PICK r \in R : p.from = start(r) /\ p.to = r[2] /\ p = Cutting!Draft(start(r), r[2], m, FALSE)
      BY <2>6
    <3>2. PICK s \in R : q.from = start(s) /\ q.to = s[2] /\ q = Cutting!Draft(start(s), s[2], m, FALSE)
      BY <2>6
    <3>3. r # s
      BY <3>1, <3>2
    <3>4. r[2] < s[1] \/ s[2] < r[1]
      BY <3>3 DEF BlocksWhole
    <3> QED BY <2>10, <3>1, <3>2, <3>3, <3>4
  <2>12. ASSUME NEW i \in a..last, ~Cutting!Blank(t[i]) PROVE \E p \in P : i \in p.from..p.to
    <3>1. CASE i \in b + 1..last
      <4>1. PICK r \in R : i \in r[1]..r[2]
        BY <2>12, <3>1 DEF BlocksWhole
      <4>2. i \in start(r)..r[2]
        BY <2>2, <2>8, <4>1
      <4> QED BY <2>7, <4>2
    <3>2. CASE i \notin b + 1..last
      <4>1. i \in a..b
        BY <3>2
      <4>2. start(z) = a /\ z[1] \in b + 1..last /\ z[2] \in z[1]..last
        BY <2>2, <2>3, <2>5
      <4>3. i \in start(z)..z[2]
        BY <4>1, <4>2
      <4> QED BY <2>7, <4>3
    <3> QED BY <3>1, <3>2
  <2> QED BY <2>9, <2>11, <2>12 DEF PartsWhole
<1> QED BY <1>1, <1>2

\* Where section m of a text ends.
LastOf(hs, m, n) == IF m < Len(hs) THEN hs[m + 1].from - 1 ELSE n

\* Every section reaches from its heading to the line before the next heading.
LEMMA SectionsAre ==
    ASSUME NEW t, NEW n \in Nat, n = Len(t), NEW hs, hs = Cutting!Headings(t), Titled(hs, t), NEW m \in 1..Len(hs)
    PROVE  /\ LastOf(hs, m, n) \in hs[m].to..n
           /\ PartsWhole(Cutting!Section(t, m), t, hs[m].from, LastOf(hs, m, n))
<1>1. PICK a, b, last : a = hs[m].from /\ b = hs[m].to /\ last = LastOf(hs, m, n)
  OBVIOUS
<1>2. PICK c : c = Cutting!Fenced(t)
  OBVIOUS
<1>3. /\ a \in 1..n /\ b \in a..n /\ ~Cutting!Blank(t[a]) /\ ~Cutting!Blank(t[b]) /\ b \notin c
  BY <1>1, <1>2 DEF Titled
<1>4. last \in b..n /\ last + 1 \notin c
  <2>1. CASE m < Len(hs)
    <3>1. Len(hs) \in Nat
      BY DEF Titled
    <3>2. m + 1 \in 1..Len(hs) /\ m < m + 1
      BY <2>1, <3>1
    <3>3. hs[m + 1].from \in 1..n /\ b < hs[m + 1].from /\ hs[m + 1].from \notin c
      BY <1>1, <1>2, <3>2 DEF Titled
    <3>4. last = hs[m + 1].from - 1
      BY <1>1, <2>1 DEF LastOf
    <3>5. last + 1 = hs[m + 1].from
      BY <3>3, <3>4
    <3> QED BY <1>3, <3>3, <3>4, <3>5
  <2>2. CASE ~(m < Len(hs))
    <3>1. last = n
      BY <1>1, <2>2 DEF LastOf
    <3>2. c \subseteq 1..n
      BY <1>2, FencesAre
    <3>3. n + 1 \notin c
      BY <3>2
    <3> QED BY <1>3, <3>1, <3>3
  <2> QED BY <2>1, <2>2
<1>5. PICK R : R = Cutting!LogicalBlocks(t, b + 1, last)
  OBVIOUS
<1>6. BlocksWhole(R, t, b + 1, last)
  <2>1. b + 1 \in Nat /\ last \in Int /\ b + 1 >= 1 /\ last <= n /\ (b + 1) - 1 = b
    BY <1>3, <1>4
  <2> QED BY <1>2, <1>3, <1>4, <1>5, <2>1, LogicalBlocksAre
<1>7. Cutting!Section(t, m) = Headline(R, a, b, m)
  <2> DEFINE g == Cutting!Headings(t)
             e == IF m < Len(g) THEN g[m + 1].from - 1 ELSE Len(t)
             B == Cutting!LogicalBlocks(t, g[m].to + 1, e)
  <2>1. Cutting!Section(t, m) = Headline(B, g[m].from, g[m].to, m)
    BY DEF Cutting!Section, Headline
  <2>2. g = hs /\ e = last
    BY <1>1 DEF LastOf
  <2>3. B = R
    BY <1>1, <1>5, <2>2
  <2> HIDE DEF g, e, B
  <2>4. g[m].from = a /\ g[m].to = b
    BY <1>1, <2>2
  <2> QED BY <2>1, <2>3, <2>4
<1>8. PartsWhole(Cutting!Section(t, m), t, a, last)
  BY <1>3, <1>4, <1>6, <1>7, SectionIs
<1> QED BY <1>1, <1>4, <1>8

\* Markdown is cut into parts that end well, none of them for its length.
LEMMA MarkdownIsCut ==
    ASSUME NEW t, Len(t) \in Nat
    PROVE  /\ Parted(t, Cutting!Markdown(t))
           /\ \A k \in 1..Len(Cutting!Markdown(t)) :
                /\ Cutting!Markdown(t)[k].cut = FALSE
                /\ \/ Cutting!SliceMatches(t, Cutting!Markdown(t)[k])
                   \/ Cutting!Unclosed(t) /\ t[Len(t)].tag = "empty"
<1>1. PICK n \in Nat : n = Len(t)
  OBVIOUS
<1>2. PICK hs : hs = Cutting!Headings(t)
  OBVIOUS
<1>3. Titled(hs, t) /\ Len(hs) \in Nat
  BY <1>2, HeadingsAre DEF Titled
<1>4. /\ \A m \in 1..Len(hs) : hs[m].from \in 1..n /\ hs[m].to \in hs[m].from..n
      /\ \A m, k \in 1..Len(hs) : m < k => hs[m].to < hs[k].from
  BY <1>1, <1>3 DEF Titled
<1>5. PICK last : last = IF hs = <<>> THEN n ELSE hs[1].from - 1
  OBVIOUS
<1>6. PICK Q : Q = Cutting!Preamble(t)
  OBVIOUS
<1>7. (hs = <<>> => Len(hs) = 0) /\ (hs # <<>> => Len(hs) > 0)
  <2>1. PICK H : H = Cutting!HeadingsOf(t)
    OBVIOUS
  <2>2. HeadingsSound(H, t) /\ InText(H, n) /\ Apart(H)
    BY <1>1, <2>1, HeadingsOfAre DEF HeadingsSound
  <2>3. Begins(H, n)
    BY <2>2, ApartBegin
  <2>4. \A p, q \in H : <<p, q>> \in Cutting!ByFrom(H) <=> p.from < q.from
    BY ByFromIs
  <2>5. Lists(hs, H)
    BY <1>2, <2>1, <2>3, <2>4, PartsInOrder DEF Cutting!Headings
  <2>6. hs \in Seq(H)
    BY <2>5 DEF Lists
  <2> QED BY <2>6
<1>8. last \in 0..n /\ PartsWhole(Q, t, 1, last)
  <2>1. last \in 0..n /\ last + 1 \notin Cutting!Fenced(t)
    <3>1. CASE hs = <<>>
      <4>1. Cutting!Fenced(t) \subseteq 1..n
        BY <1>1, FencesAre
      <4> QED BY <1>5, <3>1, <4>1
    <3>2. CASE hs # <<>>
      <4>1. 1 \in 1..Len(hs)
        BY <1>3, <1>7, <3>2
      <4>2. hs[1].from \in 1..n /\ hs[1].from \notin Cutting!Fenced(t)
        BY <1>1, <1>3, <4>1 DEF Titled
      <4>3. last = hs[1].from - 1 /\ last + 1 = hs[1].from
        BY <1>5, <3>2, <4>2
      <4> QED BY <4>2, <4>3
    <3> QED BY <3>1, <3>2
  <2>2. 1 - 1 \notin Cutting!Fenced(t) /\ 1 >= 1 /\ 1 \in Nat
    <3>1. Cutting!Fenced(t) \subseteq 1..n
      BY <1>1, FencesAre
    <3> QED BY <3>1
  <2>3. PICK R : R = Cutting!LogicalBlocks(t, 1, last)
    OBVIOUS
  <2>4. last \in Int /\ last <= n
    BY <2>1
  <2>5. BlocksWhole(R, t, 1, last)
    BY <1>1, <2>1, <2>2, <2>3, <2>4, LogicalBlocksAre
  <2>6. Q = {Cutting!Draft(r[1], r[2], 0, FALSE) : r \in R}
    BY <1>1, <1>2, <1>5, <1>6, <2>3 DEF Cutting!Preamble
  <2> QED BY <1>1, <2>1, <2>4, <2>5, <2>6, PreambleIs
<1> DEFINE E(m) == LastOf(hs, m, n)
           D(m) == Cutting!Section(t, m)
<1>9. \A m \in 1..Len(hs) : E(m) \in hs[m].to..n /\ PartsWhole(D(m), t, hs[m].from, E(m))
  BY <1>1, <1>2, <1>3, SectionsAre
<1>10. ASSUME NEW m \in 1..Len(hs), NEW k \in 1..Len(hs), m < k PROVE E(m) < hs[k].from
  <2>1. m + 1 \in 1..Len(hs) /\ m < Len(hs) /\ (m + 1 = k \/ m + 1 < k)
    BY <1>3, <1>10
  <2>2. E(m) = hs[m + 1].from - 1
    BY <2>1 DEF LastOf
  <2>3. hs[m + 1].from <= hs[k].from
    BY <1>4, <2>1
  <2> QED BY <1>4, <2>1, <2>2, <2>3
<1>11. ASSUME NEW m \in 1..Len(hs) PROVE last < hs[m].from
  <2>1. 1 \in 1..Len(hs) /\ hs # <<>> /\ (m = 1 \/ 1 < m)
    BY <1>3, <1>7
  <2>2. last = hs[1].from - 1
    BY <1>5, <2>1
  <2> QED BY <1>4, <2>1, <2>2
<1>12. PICK P : P = Q \cup UNION {D(m) : m \in 1..Len(hs)}
  OBVIOUS
<1>13. \A p \in P : p \in Q \/ \E m \in 1..Len(hs) : p \in D(m)
  BY <1>12
<1>14. Q \subseteq P /\ \A m \in 1..Len(hs) : \A p \in D(m) : p \in P
  BY <1>12
<1>15. Cutting!Markdown(t) = Cutting!InOrder(P, Cutting!ByFrom(P))
  <2>1. P = Q \cup UNION {Cutting!Section(t, k) : k \in Cutting!Lines(hs)}
    BY <1>12 DEF Cutting!Lines
  <2> QED BY <1>2, <1>6, <2>1 DEF Cutting!Markdown
<1> HIDE DEF E, D
<1>16. ASSUME NEW p \in P
       PROVE  p.from \in 1..n /\ p.to \in p.from..n /\ p.cut = FALSE /\ ~Cutting!Blank(t[p.from]) /\ EndsWell(t, p.to)
  <2>1. CASE p \in Q
    <3>1. /\ p.from \in 1..last /\ p.to \in p.from..last
          /\ p.cut = FALSE /\ ~Cutting!Blank(t[p.from]) /\ EndsWell(t, p.to)
      BY <1>8, <2>1 DEF PartsWhole
    <3>2. p.from \in 1..n /\ p.to \in p.from..n
      BY <1>8, <3>1
    <3> QED BY <3>1, <3>2
  <2>2. CASE \E m \in 1..Len(hs) : p \in D(m)
    <3>1. PICK m \in 1..Len(hs) : p \in D(m)
      BY <2>2
    <3>2. /\ p.from \in hs[m].from..E(m) /\ p.to \in p.from..E(m)
          /\ p.cut = FALSE /\ ~Cutting!Blank(t[p.from]) /\ EndsWell(t, p.to)
      BY <1>9, <3>1 DEF PartsWhole
    <3>3. hs[m].from \in 1..n /\ hs[m].to \in hs[m].from..n /\ E(m) \in hs[m].to..n
      BY <1>4, <1>9
    <3>4. p.from \in 1..n /\ p.to \in p.from..n
      BY <3>2, <3>3
    <3> QED BY <3>2, <3>4
  <2> QED BY <1>13, <2>1, <2>2
<1>17. ASSUME NEW p \in P, NEW q \in P, NEW m \in 1..Len(hs), p \in D(m), p # q PROVE p.to < q.from \/ q.to < p.from
  <2>1. p.from \in hs[m].from..E(m) /\ p.to \in p.from..E(m)
    BY <1>9, <1>17 DEF PartsWhole
  <2>2. hs[m].from \in 1..n /\ E(m) \in 1..n
    BY <1>4, <1>9
  <2>3. CASE q \in Q
    <3>1. q.from \in 1..last /\ q.to \in q.from..last
      BY <1>8, <2>3 DEF PartsWhole
    <3>2. last < hs[m].from
      BY <1>11
    <3>3. q.to < p.from
      BY <1>8, <2>1, <2>2, <3>1, <3>2
    <3> QED BY <3>3
  <2>4. CASE \E k \in 1..Len(hs) : q \in D(k)
    <3>1. PICK k \in 1..Len(hs) : q \in D(k)
      BY <2>4
    <3>2. q.from \in hs[k].from..E(k) /\ q.to \in q.from..E(k)
      BY <1>9, <3>1 DEF PartsWhole
    <3>3. hs[k].from \in 1..n /\ E(k) \in 1..n
      BY <1>4, <1>9
    <3>4. CASE m = k
      BY <1>9, <1>17, <3>1, <3>4 DEF PartsWhole, Apart
    <3>5. CASE m < k
      BY <1>10, <2>1, <2>2, <3>2, <3>3, <3>5
    <3>6. CASE k < m
      <4>1. E(k) < hs[m].from
        BY <1>10, <3>6
      <4>2. q.to \in Nat /\ q.to <= E(k)
        BY <3>2, <3>3
      <4>3. p.from \in hs[m].from..E(m) /\ hs[m].from \in 1..n /\ E(m) \in 1..n
        BY <2>1, <2>2
      <4> QED BY <2>2, <3>3, <4>1, <4>2, <4>3
    <3> QED BY <3>4, <3>5, <3>6
  <2> QED BY <1>13, <2>3, <2>4
<1>18. Apart(P)
  <2> SUFFICES ASSUME NEW p \in P, NEW q \in P, p # q PROVE p.to < q.from \/ q.to < p.from
    BY DEF Apart
  <2>1. CASE p \in Q /\ q \in Q
    BY <1>8, <2>1 DEF PartsWhole, Apart
  <2>2. CASE \E m \in 1..Len(hs) : p \in D(m)
    BY <1>17, <2>2
  <2>3. CASE \E m \in 1..Len(hs) : q \in D(m)
    BY <1>17, <2>3
  <2> QED BY <1>13, <2>1, <2>2, <2>3
<1>19. Covers(t, P)
  <2> SUFFICES ASSUME NEW i \in 1..n, Cutting!Meaningful(t[i]) PROVE \E p \in P : i \in p.from..p.to
    BY <1>1 DEF Covers
  <2>1. ~Cutting!Blank(t[i])
    BY DEF Cutting!Meaningful
  <2> DEFINE T == {m \in 1..Len(hs) : hs[m].from <= i}
  <2>2. CASE T = {}
    <3>1. i \in 1..last
      <4>1. CASE hs = <<>>
        BY <1>5, <4>1
      <4>2. CASE hs # <<>>
        <5>1. 1 \in 1..Len(hs)
          BY <1>3, <1>7, <4>2
        <5>2. ~(hs[1].from <= i)
          BY <2>2, <5>1
        <5> QED BY <1>4, <1>5, <4>2, <5>1, <5>2
      <4> QED BY <4>1, <4>2
    <3>2. PICK p \in Q : i \in p.from..p.to
      BY <1>8, <2>1, <3>1 DEF PartsWhole
    <3> QED BY <1>14, <3>2
  <2>3. CASE T # {}
    <3>1. T \in SUBSET Nat /\ \A m \in T : m <= Len(hs)
      OBVIOUS
    <3>2. PICK m \in T : \A k \in T : k <= m
      BY <1>3, <2>3, <3>1, MaxOf
    <3>3. m \in 1..Len(hs) /\ hs[m].from <= i
      BY <3>2
    <3>4. i <= E(m)
      <4>1. CASE m < Len(hs)
        <5>1. m + 1 \in 1..Len(hs) /\ ~(m + 1 <= m)
          BY <1>3, <3>3, <4>1
        <5>2. ~(hs[m + 1].from <= i)
          BY <3>2, <5>1
        <5>3. E(m) = hs[m + 1].from - 1
          BY <4>1 DEF LastOf, E
        <5> QED BY <1>4, <5>1, <5>2, <5>3
      <4>2. CASE ~(m < Len(hs))
        <5>1. E(m) = n
          BY <4>2 DEF LastOf, E
        <5> QED BY <5>1
      <4> QED BY <4>1, <4>2
    <3>5. i \in hs[m].from..E(m)
      BY <1>4, <1>9, <3>3, <3>4
    <3>6. PICK p \in D(m) : i \in p.from..p.to
      BY <1>9, <2>1, <3>3, <3>5 DEF PartsWhole
    <3> QED BY <1>14, <3>3, <3>6
  <2> QED BY <2>2, <2>3
<1>20. InText(P, n)
  BY <1>16 DEF InText
<1>21. PICK d : d = Cutting!Markdown(t)
  OBVIOUS
<1>22. Lists(d, P)
  <2>1. Begins(P, n)
    BY <1>18, <1>20, ApartBegin
  <2>2. \A p, q \in P : <<p, q>> \in Cutting!ByFrom(P) <=> p.from < q.from
    BY ByFromIs
  <2> QED BY <1>15, <1>21, <2>1, <2>2, PartsInOrder
<1>23. Parted(t, d)
  BY <1>1, <1>18, <1>19, <1>20, <1>22, ListIsCut
<1>24. ASSUME NEW k \in 1..Len(d)
       PROVE  d[k].cut = FALSE /\ (Cutting!SliceMatches(t, d[k]) \/ (Cutting!Unclosed(t) /\ t[Len(t)].tag = "empty"))
  <2>1. d[k] \in P
    BY <1>22 DEF Lists
  <2>2. d[k].cut = FALSE /\ ~Cutting!Blank(t[d[k].from]) /\ EndsWell(t, d[k].to)
    BY <1>16, <2>1
  <2> QED BY <2>2 DEF EndsWell, Cutting!SliceMatches, Cutting!Blank
<1> QED BY <1>21, <1>23, <1>24

-----------------------------------------------------------------------------
(* Markdown: paths of headings.                                              *)

\* s lists the numbers of S from the least on.
Climbs(s, S) ==
    /\ s \in Seq(S) /\ \A x \in S : \E i \in 1..Len(s) : s[i] = x
    /\ \A i, j \in 1..Len(s) : i < j => s[i] < s[j]

\* Numbers in order climb.
LEMMA NumbersInOrder ==
    ASSUME NEW n \in Nat, NEW S \in SUBSET (1..n)
    PROVE  Climbs(Cutting!InOrder(S, {p \in S \X S : p[1] < p[2]}), S)
<1>1. IsFiniteSet(S)
  <2>1. IsFiniteSet(1..n)
    BY FS_Interval
  <2> QED BY <2>1, FS_Subset
<1>2. PICK o : o = {p \in S \X S : p[1] < p[2]}
  OBVIOUS
<1>3. \A c, d \in S : <<c, d>> \in o <=> c < d
  BY <1>2
<1>4. \A c \in S : c \in Nat
  OBVIOUS
<1>5. IsOrder(o, S)
  <2>1. \A c \in S : <<c, c>> \notin o
    BY <1>3, <1>4
  <2>2. \A c, d, e \in S : <<c, d>> \in o /\ <<d, e>> \in o => <<c, e>> \in o
    BY <1>3, <1>4
  <2>3. ASSUME NEW c \in S, NEW d \in S PROVE c = d \/ <<c, d>> \in o \/ <<d, c>> \in o
    <3>1. c \in Nat /\ d \in Nat
      BY <1>4
    <3>2. c = d \/ c < d \/ d < c
      BY <3>1
    <3> QED BY <1>3, <3>2
  <2> QED BY <2>1, <2>2, <2>3 DEF IsOrder
<1>6. PICK s \in Seq(S) :
          /\ s = Cutting!InOrder(S, o) /\ Distinct(s) /\ (\A x \in S : \E i \in 1..Len(s) : s[i] = x)
          /\ \A i, j \in 1..Len(s) : <<s[i], s[j]>> \in o => i < j
  BY <1>1, <1>5, InOrderIs
<1>7. \A i \in 1..Len(s) : s[i] \in S
  BY <1>6
<1>8. ASSUME NEW i \in 1..Len(s), NEW j \in 1..Len(s), i < j PROVE s[i] < s[j]
  <2>1. s[i] # s[j]
    BY <1>6, <1>8 DEF Distinct
  <2>2. ASSUME s[j] < s[i] PROVE FALSE
    <3>1. j < i
      BY <1>3, <1>6, <1>7, <2>2
    <3> QED BY <1>8, <3>1
  <2>3. s[i] \in Nat /\ s[j] \in Nat
    BY <1>4, <1>7
  <2> QED BY <2>1, <2>2, <2>3
<1>9. Cutting!InOrder(S, {p \in S \X S : p[1] < p[2]}) = s
  BY <1>2, <1>6
<1>10. Climbs(s, S)
  BY <1>6, <1>8 DEF Climbs
<1> QED BY <1>9, <1>10

\* One sequence climbs through a set of numbers.
LEMMA OneClimb ==
    ASSUME NEW S \in SUBSET Nat, NEW r, NEW s, Climbs(r, S), Climbs(s, S)
    PROVE  r = s
<1>1. PICK m, k : m = Len(r) /\ k = Len(s)
  OBVIOUS
<1>2. /\ m \in Nat /\ k \in Nat /\ r \in Seq(S) /\ s \in Seq(S)
      /\ (\A i \in 1..m : r[i] \in S) /\ (\A i \in 1..k : s[i] \in S)
      /\ (\A x \in S : \E i \in 1..m : r[i] = x) /\ (\A x \in S : \E i \in 1..k : s[i] = x)
      /\ (\A i, j \in 1..m : i < j => r[i] < r[j]) /\ (\A i, j \in 1..k : i < j => s[i] < s[j])
  BY <1>1 DEF Climbs
<1>3. \A x \in S : x \in Nat
  OBVIOUS
<1>35. (\A i \in 1..m : r[i] \in Nat) /\ (\A i \in 1..k : s[i] \in Nat)
  BY <1>2, <1>3
<1>4. ASSUME NEW i \in 1..m, i \in 1..k, r[i] # s[i] PROVE FALSE
  <2> DEFINE T == {j \in (1..m) \cap (1..k) : r[j] # s[j]}
  <2>1. T \in SUBSET Nat /\ T # {}
    BY <1>4
  <2>2. PICK l \in T : \A j \in T : l <= j
    BY <2>1, LeastOf
  <2>3. l \in 1..m /\ l \in 1..k /\ r[l] # s[l] /\ \A j \in 1..l - 1 : r[j] = s[j]
    <3>1. l \in 1..m /\ l \in 1..k /\ r[l] # s[l]
      BY <2>2
    <3>2. ASSUME NEW j \in 1..l - 1, r[j] # s[j] PROVE FALSE
      <4>1. j \in 1..m /\ j \in 1..k /\ ~(l <= j)
        BY <1>2, <3>1
      <4>2. j \in T
        BY <3>2, <4>1
      <4> QED BY <2>2, <4>1, <4>2
    <3> QED BY <3>1, <3>2
  <2>4. ASSUME r[l] < s[l] PROVE FALSE
    <3>1. PICK j \in 1..k : s[j] = r[l]
      BY <1>2, <2>3
    <3>2. s[l] \in Nat /\ s[j] \in Nat /\ s[j] < s[l]
      BY <1>35, <2>3, <2>4, <3>1
    <3>3. l \in Nat /\ j \in Nat /\ (l < j \/ l = j \/ j < l)
      BY <2>3
    <3>4. ~(l < j)
      <4> SUFFICES ASSUME l < j PROVE FALSE
        OBVIOUS
      <4>1. s[l] < s[j]
        BY <1>2, <2>3
      <4> QED BY <3>2, <4>1
    <3>5. j # l
      BY <3>2
    <3>6. j \in 1..l - 1 /\ j \in 1..m /\ j < l
      BY <1>2, <2>3, <3>3, <3>4, <3>5
    <3>7. r[j] = s[j] /\ r[j] < r[l]
      BY <1>2, <2>3, <3>6
    <3>8. r[l] \in Nat
      BY <1>35, <2>3
    <3> QED BY <3>1, <3>7, <3>8
  <2>5. ASSUME s[l] < r[l] PROVE FALSE
    <3>1. PICK j \in 1..m : r[j] = s[l]
      BY <1>2, <2>3
    <3>2. r[l] \in Nat /\ r[j] \in Nat /\ r[j] < r[l]
      BY <1>35, <2>3, <2>5, <3>1
    <3>3. l \in Nat /\ j \in Nat /\ (l < j \/ l = j \/ j < l)
      BY <2>3
    <3>4. ~(l < j)
      <4> SUFFICES ASSUME l < j PROVE FALSE
        OBVIOUS
      <4>1. r[l] < r[j]
        BY <1>2, <2>3
      <4> QED BY <3>2, <4>1
    <3>5. j # l
      BY <3>2
    <3>6. j \in 1..l - 1 /\ j \in 1..k /\ j < l
      BY <1>2, <2>3, <3>3, <3>4, <3>5
    <3>7. r[j] = s[j] /\ s[j] < s[l]
      BY <1>2, <2>3, <3>6
    <3>8. s[l] \in Nat
      BY <1>35, <2>3
    <3> QED BY <3>1, <3>7, <3>8
  <2>6. r[l] \in Nat /\ s[l] \in Nat
    BY <1>35, <2>3
  <2>7. r[l] < s[l] \/ s[l] < r[l]
    BY <2>3, <2>6
  <2> QED BY <2>4, <2>5, <2>7
<1>5. ~(m < k)
  <2> SUFFICES ASSUME m < k PROVE FALSE
    OBVIOUS
  <2>1. m + 1 \in 1..k
    BY <1>2
  <2>2. PICK j \in 1..m : r[j] = s[m + 1]
    BY <1>2, <2>1
  <2>3. j \in 1..k /\ j < m + 1
    BY <1>2
  <2>4. s[j] = s[m + 1] /\ s[j] < s[m + 1]
    BY <1>2, <1>4, <2>1, <2>2, <2>3
  <2> QED BY <1>35, <2>1, <2>4
<1>6. ~(k < m)
  <2> SUFFICES ASSUME k < m PROVE FALSE
    OBVIOUS
  <2>1. k + 1 \in 1..m
    BY <1>2
  <2>2. PICK j \in 1..k : s[j] = r[k + 1]
    BY <1>2, <2>1
  <2>3. j \in 1..m /\ j < k + 1
    BY <1>2
  <2>4. r[j] = r[k + 1] /\ r[j] < r[k + 1]
    BY <1>2, <1>4, <2>1, <2>2, <2>3
  <2> QED BY <1>35, <2>1, <2>4
<1>7. m = k
  BY <1>2, <1>5, <1>6
<1>8. Len(r) = Len(s) /\ \A i \in 1..Len(r) : r[i] = s[i]
  BY <1>1, <1>4, <1>7
<1>9. r \in Seq(S) /\ s \in Seq(S)
  BY <1>2
<1> QED BY <1>8, <1>9

\* The stack when heading n has been pushed.
Pushed(x, level, n) == [l \in Cutting!Levels |-> IF l < level THEN x[l] ELSE IF l = level THEN n ELSE 0]

\* The stack of headings is defined heading by heading, so the recursion has a solution.
LEMMA StackExists ==
    ASSUME NEW t, NEW hs, hs = Cutting!Headings(t), Titled(hs, t)
    PROVE  \A n \in 0..Len(hs) :
              Cutting!HeadingStack(t)[n] =
                 IF n = 0 THEN [l \in Cutting!Levels |-> 0]
                 ELSE Pushed(Cutting!HeadingStack(t)[n - 1], hs[n].level, n)
<1>1. PICK m \in Nat : m = Len(hs)
  BY DEF Titled
<1> DEFINE g == Cutting!Headings(t)
           X == [Cutting!Levels -> Nat]
           z == [l \in Cutting!Levels |-> 0]
           F(f) == [n \in 0..Len(g) |-> IF n = 0 THEN z ELSE Pushed(f[n - 1], g[n].level, n)]
           p == [q \in X \X (1..m) |-> Pushed(q[1], g[q[2]].level, q[2])]
<1>2. \A x \in X, n \in 1..m : p[<<x, n>>] = Pushed(x, g[n].level, n)
  OBVIOUS
<1>3. \A x \in X, n \in 1..m : Pushed(x, g[n].level, n) \in X
  BY DEF Pushed
<1>4. p \in [X \X (1..m) -> X]
  BY <1>3
<1>5. z \in X
  OBVIOUS
<1>6. g = hs /\ Len(g) = m
  BY <1>1
<1>7. PICK u : u = CHOOSE f : f = F(f)
  OBVIOUS
<1>8. Cutting!HeadingStack(t) = u
  BY <1>7 DEF Cutting!HeadingStack, Pushed
<1> HIDE DEF g, p, X, z
<1>9. \E h : Computes(h, m, X, z, p)
  BY <1>4, <1>5, StepsExist
<1>10. PICK h \in [0..m -> X] : h[0] = z /\ \A i \in 1..m : h[i] = p[<<h[i - 1], i>>]
  BY <1>9 DEF Computes
<1>11. ASSUME NEW i \in 0..m PROVE h[i] = IF i = 0 THEN z ELSE Pushed(h[i - 1], g[i].level, i)
  <2>1. CASE i = 0
    BY <1>10, <2>1
  <2>2. CASE i # 0
    <3>1. i \in 1..m /\ i - 1 \in 0..m
      BY <2>2
    <3>2. h[i - 1] \in X
      BY <3>1
    <3> QED BY <1>2, <1>10, <2>2, <3>1, <3>2
  <2> QED BY <2>1, <2>2
<1>12. h = F(h)
  BY <1>6, <1>11
<1>13. u = F(u)
  BY <1>7, <1>12
<1>14. \A i \in 0..m : u[i] = IF i = 0 THEN z ELSE Pushed(u[i - 1], g[i].level, i)
  BY <1>6, <1>13
<1> QED BY <1>1, <1>6, <1>8, <1>14 DEF z

\* The stack holds at a level the last heading of it that none of its level or higher has ended.
StackTrue(x, hs, n) ==
    \A l \in 1..6 :
        /\ x[l] \in 0..n
        /\ \A g \in 1..n : x[l] = g <=> hs[g].level = l /\ \A k \in g + 1..n : hs[k].level > l

\* At every level the stack holds the last heading of that level, unless one that is
\* no deeper came after it.
LEMMA StackIs ==
    ASSUME NEW t, NEW hs, hs = Cutting!Headings(t), Titled(hs, t), NEW n \in 0..Len(hs)
    PROVE  StackTrue(Cutting!HeadingStack(t)[n], hs, n)
<1>1. PICK m \in Nat : m = Len(hs)
  BY DEF Titled
<1>2. PICK u : u = Cutting!HeadingStack(t)
  OBVIOUS
<1>3. \A i \in 0..m : u[i] = IF i = 0 THEN [l \in Cutting!Levels |-> 0] ELSE Pushed(u[i - 1], hs[i].level, i)
  BY <1>1, <1>2, StackExists
<1>4. \A k \in 1..m : hs[k].level \in 1..3
  BY <1>1 DEF Titled
<1> DEFINE U == {i \in 0..m : StackTrue(u[i], hs, i)}
<1>5. 0 \in U
  <2>1. 0 \in 0..m
    OBVIOUS
  <2>2. u[0] = [l \in 1..6 |-> 0]
    BY <1>3, <2>1 DEF Cutting!Levels
  <2>3. \A l \in 1..6 : u[0][l] = 0
    BY <2>2
  <2> QED BY <2>1, <2>3 DEF StackTrue
<1>6. ASSUME NEW i \in 0..m - 1, i \in U PROVE i + 1 \in U
  <2>1. i + 1 \in 0..m /\ i + 1 # 0 /\ (i + 1) - 1 = i /\ i + 1 \in 1..m
    OBVIOUS
  <2>2. PICK v, x : v = hs[i + 1].level /\ x = u[i]
    OBVIOUS
  <2>3. v \in 1..3 /\ StackTrue(x, hs, i)
    BY <1>4, <1>6, <2>1, <2>2
  <2>4. u[i + 1] = [l \in 1..6 |-> IF l < v THEN x[l] ELSE IF l = v THEN i + 1 ELSE 0]
    BY <1>3, <2>1, <2>2 DEF Pushed, Cutting!Levels
  <2>5. PICK y : y = u[i + 1]
    OBVIOUS
  <2>6. \A l \in 1..6 : y[l] = IF l < v THEN x[l] ELSE IF l = v THEN i + 1 ELSE 0
    BY <2>4, <2>5
  <2>7. ASSUME NEW l \in 1..6
        PROVE  /\ y[l] \in 0..i + 1
               /\ \A g \in 1..i + 1 : y[l] = g <=> hs[g].level = l /\ \A k \in g + 1..i + 1 : hs[k].level > l
    <3>1. /\ x[l] \in 0..i
          /\ \A g \in 1..i : x[l] = g <=> hs[g].level = l /\ \A k \in g + 1..i : hs[k].level > l
      BY <2>3 DEF StackTrue
    <3>2. y[l] = IF l < v THEN x[l] ELSE IF l = v THEN i + 1 ELSE 0
      BY <2>6
    <3>3. y[l] \in 0..i + 1
      BY <3>1, <3>2
    <3>4. ASSUME NEW g \in 1..i
          PROVE  y[l] = g <=> hs[g].level = l /\ \A k \in g + 1..i + 1 : hs[k].level > l
      <4>1. (\A k \in g + 1..i + 1 : hs[k].level > l) <=> (\A k \in g + 1..i : hs[k].level > l) /\ v > l
        <5>1. g + 1..i + 1 = (g + 1..i) \cup {i + 1}
          OBVIOUS
        <5> QED BY <2>2, <5>1
      <4>2. CASE l < v
        BY <2>3, <3>1, <3>2, <4>1, <4>2
      <4>3. CASE ~(l < v)
        <5>1. y[l] # g
          BY <2>3, <3>2, <4>3
        <5>2. ~(v > l)
          BY <2>3, <4>3
        <5> QED BY <4>1, <5>1, <5>2
      <4> QED BY <4>2, <4>3
    <3>5. y[l] = i + 1 <=> l = v
      BY <2>3, <3>1, <3>2
    <3>6. y[l] = i + 1 <=> hs[i + 1].level = l /\ \A k \in (i + 1) + 1..i + 1 : hs[k].level > l
      <4>1. \A k \in (i + 1) + 1..i + 1 : FALSE
        OBVIOUS
      <4> QED BY <2>2, <3>5, <4>1
    <3>7. \A g \in 1..i + 1 : g \in 1..i \/ g = i + 1
      OBVIOUS
    <3> QED BY <3>3, <3>4, <3>6, <3>7
  <2>8. StackTrue(y, hs, i + 1)
    BY <2>7 DEF StackTrue
  <2> QED BY <2>1, <2>5, <2>8
<1> HIDE DEF U
<1>7. 0..m \subseteq U
  BY <1>5, <1>6, Climb
<1> QED BY <1>1, <1>2, <1>7 DEF U

\* The path of a heading names the headings it stands under.
LEMMA HeadingPathIs ==
    ASSUME NEW t, NEW hs, hs = Cutting!Headings(t), Titled(hs, t), NEW h \in 1..Len(hs), NEW S,
           \A g : g \in S <=> g = h \/ /\ g \in 1..Len(hs) /\ g < h /\ hs[g].level < hs[h].level
                                       /\ \A k \in g + 1..h - 1 : hs[k].level > hs[g].level
    PROVE  Cutting!HeadingPath(t, h) = Cutting!InOrder(S, {p \in S \X S : p[1] < p[2]})
<1>1. PICK m \in Nat : m = Len(hs)
  BY DEF Titled
<1>2. PICK x : x = Cutting!HeadingStack(t)[h]
  OBVIOUS
<1>3. StackTrue(x, hs, h)
  BY <1>1, <1>2, StackIs
<1>4. \A l \in 1..6 : x[l] \in 0..h
  BY <1>3 DEF StackTrue
<1>5. \A k \in 1..m : hs[k].level \in 1..3
  BY <1>1 DEF Titled
<1>6. ASSUME NEW l \in 1..6, NEW g \in 1..h
      PROVE  x[l] = g <=> hs[g].level = l /\ \A k \in g + 1..h : hs[k].level > l
  BY <1>3 DEF StackTrue
<1>7. PICK W : W = {l \in 1..6 : x[l] # 0}
  OBVIOUS
<1>8. PICK o : o = Cutting!InOrder(W, {p \in W \X W : p[1] < p[2]})
  OBVIOUS
<1>9. W \in SUBSET (1..6) /\ Climbs(o, W)
  <2>1. PICK six \in Nat : six = 6
    OBVIOUS
  <2>2. W \in SUBSET (1..six)
    BY <1>7, <2>1
  <2> QED BY <1>8, <2>1, <2>2, NumbersInOrder
<1>10. PICK r : r = [k \in 1..Len(o) |-> x[o[k]]]
  OBVIOUS
<1>11. Cutting!HeadingPath(t, h) = r
  BY <1>2, <1>7, <1>8, <1>10 DEF Cutting!HeadingPath, Cutting!Levels, Cutting!Lines
<1>12. ASSUME NEW l \in W PROVE l \in 1..6 /\ x[l] \in 1..h
  <2>1. l \in 1..6 /\ x[l] # 0
    BY <1>7
  <2>2. x[l] \in 0..h /\ h \in Nat
    BY <1>4, <2>1
  <2> QED BY <2>1, <2>2
<1>13. ASSUME NEW l \in W PROVE x[l] \in S
  <2>1. PICK g : g = x[l]
    OBVIOUS
  <2>2. g \in 1..h /\ l \in 1..6 /\ hs[g].level = l /\ \A k \in g + 1..h : hs[k].level > l
    BY <1>6, <1>12, <2>1
  <2>3. CASE g = h
    BY <2>1, <2>3
  <2>4. CASE g # h
    <3>1. g < h /\ g \in 1..Len(hs) /\ h \in g + 1..h /\ \A k \in g + 1..h - 1 : k \in g + 1..h
      BY <1>1, <2>2, <2>4
    <3>2. hs[h].level > l /\ \A k \in g + 1..h - 1 : hs[k].level > hs[g].level
      BY <2>2, <3>1
    <3>3. hs[g].level < hs[h].level
      BY <1>1, <1>5, <2>2, <3>2
    <3> QED BY <2>1, <3>1, <3>2, <3>3
  <2> QED BY <2>3, <2>4
<1>14. ASSUME NEW g \in S PROVE \E l \in W : x[l] = g
  <2>1. g \in 1..h /\ g \in 1..m
    BY <1>1
  <2>2. PICK l \in 1..6 : l = hs[g].level
    BY <1>5, <2>1
  <2>3. \A k \in g + 1..h : hs[k].level > l
    <3>1. CASE g = h
      BY <2>1, <3>1
    <3>2. CASE g # h
      <4>1. /\ g < h /\ hs[g].level < hs[h].level /\ \A k \in g + 1..h - 1 : hs[k].level > hs[g].level
        BY <3>2
      <4>2. \A k \in g + 1..h : k \in g + 1..h - 1 \/ k = h
        BY <2>1
      <4>3. hs[h].level > l
        BY <1>1, <1>5, <2>1, <2>2, <4>1
      <4> QED BY <2>2, <4>1, <4>2, <4>3
    <3> QED BY <3>1, <3>2
  <2>4. x[l] = g
    <3>1. hs[g].level = l /\ g \in 1..h
      BY <2>1, <2>2
    <3> QED BY <1>6, <2>3, <3>1
  <2> QED BY <1>7, <2>1, <2>4
<1>15. ASSUME NEW k \in W, NEW l \in W, k < l PROVE x[k] < x[l]
  <2>1. PICK f, g : f = x[k] /\ g = x[l]
    OBVIOUS
  <2>2. /\ f \in 1..h /\ k \in 1..6 /\ hs[f].level = k /\ \A j \in f + 1..h : hs[j].level > k
        /\ g \in 1..h /\ l \in 1..6 /\ hs[g].level = l /\ \A j \in g + 1..h : hs[j].level > l
    BY <1>6, <1>12, <2>1
  <2>3. f # g
    BY <1>15, <2>2
  <2>4. ASSUME g < f PROVE FALSE
    <3>1. f \in g + 1..h
      BY <2>2, <2>4
    <3>2. k > l
      BY <2>2, <3>1
    <3> QED BY <1>15, <2>2, <3>2
  <2> QED BY <2>1, <2>2, <2>3, <2>4
<1>16. Climbs(r, S)
  <2>1. Len(o) \in Nat /\ \A k \in 1..Len(o) : o[k] \in W
    BY <1>9 DEF Climbs
  <2>2. Len(r) = Len(o) /\ \A k \in 1..Len(o) : r[k] = x[o[k]] /\ r[k] \in S
    BY <1>10, <1>13, <2>1
  <2>3. r \in Seq(S)
    BY <1>10, <1>13, <2>1
  <2>4. ASSUME NEW i \in 1..Len(r), NEW j \in 1..Len(r), i < j PROVE r[i] < r[j]
    <3>1. o[i] < o[j]
      BY <1>9, <2>2, <2>4 DEF Climbs
    <3> QED BY <1>15, <2>1, <2>2, <3>1
  <2>5. ASSUME NEW g \in S PROVE \E i \in 1..Len(r) : r[i] = g
    <3>1. PICK l \in W : x[l] = g
      BY <1>14
    <3>2. PICK k \in 1..Len(o) : o[k] = l
      BY <1>9 DEF Climbs
    <3> QED BY <2>2, <3>1, <3>2
  <2> QED BY <2>3, <2>4, <2>5 DEF Climbs
<1>17. S \in SUBSET (1..m) /\ S \in SUBSET Nat
  BY <1>1
<1>18. Climbs(Cutting!InOrder(S, {p \in S \X S : p[1] < p[2]}), S)
  BY <1>17, NumbersInOrder
<1>19. PICK q : q = Cutting!InOrder(S, {p \in S \X S : p[1] < p[2]})
  OBVIOUS
<1>20. Climbs(q, S)
  BY <1>18, <1>19
<1>21. r = q
  BY <1>16, <1>17, <1>20, OneClimb
<1> QED BY <1>11, <1>19, <1>21

-----------------------------------------------------------------------------
(* Overlap.                                                                  *)

\* What is repeated before a draft is what was cut off before it, and no more.
Repeats(d, n, o) ==
    /\ o \in Nat
    /\ o > 0 => /\ n # 1 /\ d[n].cut /\ d[n - 1].to + 1 = d[n].from
                /\ o <= Cutting!Cardinality(Cutting!Within(d[n - 1]))

\* What a draft repeats are the last lines of the draft it was cut off from, and nothing elsewhere.
LEMMA OverlapIs ==
    ASSUME NEW d, Len(d) \in Nat, \A k \in 1..Len(d) : d[k].from \in Nat /\ d[k].to \in Nat, NEW n \in 1..Len(d)
    PROVE  Repeats(d, n, Cutting!Overlap(d, n, OverlapLines, OverlapShare))
<1>1. PICK o : o = Cutting!Overlap(d, n, OverlapLines, OverlapShare)
  OBVIOUS
<1>2. CASE n = 1 \/ ~d[n].cut
  BY <1>1, <1>2 DEF Repeats, Cutting!Overlap
<1>3. CASE n # 1 /\ d[n].cut /\ (d[n - 1].to + 1 # d[n].from \/ d[n - 1].kind # d[n].kind)
  BY <1>1, <1>3 DEF Repeats, Cutting!Overlap
<1>4. CASE n # 1 /\ d[n].cut /\ d[n - 1].to + 1 = d[n].from /\ d[n - 1].kind = d[n].kind
  <2> DEFINE a == Cutting!Cardinality(Cutting!Within(d[n]))
             b == Cutting!Cardinality(Cutting!Within(d[n - 1]))
             q == Cutting!Max({1, a \div OverlapShare})
  <2>1. n - 1 \in 1..Len(d)
    BY <1>4
  <2>2. ASSUME NEW i \in Nat, NEW j \in Nat PROVE Cardinality(i..j) \in Nat
    <3>1. IsFiniteSet(i..j)
      BY FS_Interval
    <3> QED BY <3>1, FS_CardinalityType
  <2>3. a \in Nat /\ b \in Nat
    <3>1. Cutting!Within(d[n]) = d[n].from..d[n].to /\ Cutting!Within(d[n - 1]) = d[n - 1].from..d[n - 1].to
      BY DEF Cutting!Within
    <3>2. a = Cardinality(d[n].from..d[n].to) /\ b = Cardinality(d[n - 1].from..d[n - 1].to)
      BY <3>1 DEF Cutting!Cardinality, Cardinality
    <3> QED BY <2>1, <2>2, <3>2
  <2>4. o = Cutting!Min({OverlapLines, q, b})
    BY <1>1, <1>4 DEF Cutting!Overlap
  <2> HIDE DEF a, b
  <2>5. OverlapLines \in Nat /\ OverlapShare \in Nat \ {0}
    BY LinesAssumption DEF LinesAssumption
  <2>6. a \div OverlapShare \in Nat
    BY <2>3, <2>5
  <2>7. PICK v : v = a \div OverlapShare
    OBVIOUS
  <2>8. q \in {1, v}
    BY <2>6, <2>7, MaxOfTwo
  <2>9. q \in Nat
    BY <2>6, <2>7, <2>8
  <2> HIDE DEF q
  <2>10. {OverlapLines, q, b} \in SUBSET Nat /\ {OverlapLines, q, b} # {} /\ b \in {OverlapLines, q, b}
    BY <2>3, <2>5, <2>9
  <2>11. o \in {OverlapLines, q, b} /\ \A k \in {OverlapLines, q, b} : o <= k
    BY <2>4, <2>10, MinOf
  <2>12. o \in Nat /\ o <= b
    BY <2>10, <2>11
  <2> QED BY <1>1, <1>4, <2>12 DEF Repeats, b
<1> QED BY <1>2, <1>3, <1>4

-----------------------------------------------------------------------------
(* What a text is cut into.                                                  *)

\* A text that is refused.
Refused(l, t, d) ==
    \/ l = "markdown" /\ Cutting!Unclosed(t) /\ t[Len(t)].tag = "empty"
    \/ l = "python" /\ \E n \in 1..Len(d) : d[n].kind = "class" /\ t[d[n].to].tag = "empty"

\* The drafts of a text: they hold its lines, are what they say, and a forced cut is none at a marker.
CutWell(l, t, d) ==
    /\ Held(l, t, d) /\ CutInside(t, d)
    /\ (\E n \in 1..Len(d) : ~Cutting!SliceMatches(t, d[n])) => Refused(l, t, d)

\* Every text the reader accepts is cut well, whatever its language.
LEMMA DraftsAreCut ==
    ASSUME NEW l \in DOMAIN LineKinds, NEW t \in Seq(LineKinds[l]), NEW d, d = Cutting!Drafts(l, t)
    PROVE  CutWell(l, t, d)
<1>1. PICK n \in Nat : n = Len(t) /\ \A i \in 1..n : t[i] \in LineKinds[l]
  OBVIOUS
<1>2. ASSUME l # "log", NEW i \in 1..n PROVE t[i].tag \notin Cutting!Markers
  BY <1>1, <1>2, LinesAssumption DEF LinesAssumption, Cutting!Markers
<1>3. ASSUME Parted(t, d), Exact(t, d), CutInside(t, d) PROVE CutWell(l, t, d)
  <2>1. Held(l, t, d)
    BY <1>1, <1>3, PartedHolds
  <2> QED BY <1>3, <2>1 DEF CutWell, Exact
<1>4. ASSUME l # "log", \A k \in 1..Len(d) : d[k].from \in 1..n PROVE CutInside(t, d)
  BY <1>2, <1>4 DEF CutInside
<1>5. CASE l = "log"
  <2>1. d = Cutting!TextLog(t, MostLines)
    BY <1>5 DEF Cutting!Drafts
  <2> QED BY <1>1, <1>3, <2>1, LogIsCut
<1>6. CASE l = "markdown"
  <2>1. d = Cutting!Markdown(t)
    BY <1>6 DEF Cutting!Drafts
  <2>2. /\ Parted(t, d)
        /\ \A k \in 1..Len(d) : Cutting!SliceMatches(t, d[k]) \/ (Cutting!Unclosed(t) /\ t[Len(t)].tag = "empty")
    BY <1>1, <2>1, MarkdownIsCut
  <2>3. Held(l, t, d)
    BY <1>1, <2>2, PartedHolds
  <2>4. CutInside(t, d)
    BY <1>1, <1>4, <1>6, <2>2 DEF Parted
  <2> QED BY <1>6, <2>2, <2>3, <2>4 DEF CutWell, Refused
<1>7. CASE l \notin {"log", "markdown"}
  <2>1. d = Cutting!CodeDrafts(l, t, MostLines)
    BY <1>7 DEF Cutting!Drafts
  <2>2. CASE l = "other" \/ ~Cutting!Parses(l, t)
    <3>1. d = Cutting!Fallback(t, MostLines)
      BY <2>1, <2>2 DEF Cutting!CodeDrafts
    <3>2. Parted(t, d) /\ Exact(t, d)
      BY <1>1, <3>1, FallbackIsCut
    <3> QED BY <1>1, <1>3, <1>4, <1>7, <3>2 DEF Parted
  <2>3. CASE l # "other" /\ Cutting!Parses(l, t)
    <3>1. d = Cutting!Units(l, t)
      BY <2>1, <2>3 DEF Cutting!CodeDrafts
    <3>2. CASE l = "python"
      <4>1. PythonText(t)
        BY <1>1, <2>3, <3>2, LinesAssumption DEF LinesAssumption, PythonText, Cutting!Parses
      <4>2. Held(l, t, d) /\ HeadsOnly(t, d)
        BY <3>1, <3>2, <4>1, PythonIsCut DEF PythonCut
      <4>3. CutInside(t, d)
        BY <1>1, <1>4, <1>7, <4>2 DEF Held
      <4> QED BY <3>2, <4>2, <4>3 DEF CutWell, Refused, HeadsOnly
    <3>3. CASE l # "python"
      <4>1. BracedText(t) /\ Cutting!Balanced(t)
        BY <1>1, <1>7, <2>3, <3>3, LinesAssumption DEF LinesAssumption, BracedText, BraceKinds, Cutting!Parses
      <4>2. Parted(t, d) /\ Exact(t, d)
        BY <3>1, <3>3, <4>1, BracesAreCut
      <4> QED BY <1>1, <1>3, <1>4, <1>7, <4>2 DEF Parted
    <3> QED BY <3>2, <3>3
  <2> QED BY <2>2, <2>3
<1> QED BY <1>5, <1>6, <1>7

\* Units and symbols of Python.
LEMMA PythonSymbolsAre ==
    ASSUME NEW t, PythonText(t), NEW d, d = Cutting!Units("python", t)
    PROVE  /\ \A n \in 1..Len(d) : d[n].kind \in {"function", "method"} =>
                Cutting!Span(d[n].from, d[n].to, d[n].kind) \in Cutting!PythonSymbols(t)
           /\ \A s \in Cutting!PythonSymbols(t) : s.kind = "class" =>
                \E n \in 1..Len(d) : s.from \in d[n].from..d[n].to
<1>1. /\ \A n \in 1..Len(d) : d[n].kind \in {"function", "method"} =>
           Cutting!Span(d[n].from, d[n].to, d[n].kind) \in Cutting!PythonSpans(t)
      /\ \A u \in Cutting!PythonSpans(t) : \E n \in 1..Len(d) : d[n].from = u.from /\ d[n].to = u.to
      /\ \A n \in 1..Len(d) : d[n].from \in 1..Len(t) /\ d[n].to \in d[n].from..Len(t)
  <2>1. PICK l : l = "python"
    OBVIOUS
  <2>2. d = Cutting!Units(l, t)
    BY <2>1
  <2>3. PythonCut(t, d)
    BY <2>1, <2>2, PythonIsCut
  <2> QED BY <2>3 DEF PythonCut, Held
<1>2. PICK H : H = Cutting!HeaderLines(t)
  OBVIOUS
<1>3. \A u : u \in Cutting!PythonSpans(t) <=> \E a \in H : u = Cutting!PythonUnit(t, a)
  BY <1>2 DEF Cutting!PythonSpans
<1>4. \A a \in H : Cutting!Span(Cutting!NodeStart(t, a), Cutting!LastLine(t, a), Cutting!PythonUnit(t, a).kind)
                      \in Cutting!PythonSymbols(t)
  BY <1>2 DEF Cutting!PythonSymbols
<1>5. ASSUME NEW n \in 1..Len(d), d[n].kind \in {"function", "method"}
      PROVE  Cutting!Span(d[n].from, d[n].to, d[n].kind) \in Cutting!PythonSymbols(t)
  <2>1. PICK u : u = Cutting!Span(d[n].from, d[n].to, d[n].kind)
    OBVIOUS
  <2>2. u.kind \in {"function", "method"}
    BY <1>5, <2>1 DEF Cutting!Span
  <2>3. PICK a \in H : u = Cutting!PythonUnit(t, a)
    BY <1>1, <1>3, <1>5, <2>1
  <2>4. u = Cutting!Span(Cutting!NodeStart(t, a), Cutting!LastLine(t, a), Cutting!PythonUnit(t, a).kind)
    BY <2>2, <2>3 DEF Cutting!PythonUnit, Cutting!Span
  <2> QED BY <1>4, <2>1, <2>4
<1>6. ASSUME NEW s \in Cutting!PythonSymbols(t), s.kind = "class" PROVE \E n \in 1..Len(d) : s.from \in d[n].from..d[n].to
  <2>1. PICK a \in H : s = Cutting!Span(Cutting!NodeStart(t, a), Cutting!LastLine(t, a), Cutting!PythonUnit(t, a).kind)
    BY <1>2, <1>6 DEF Cutting!PythonSymbols, Cutting!Span
  <2>2. PICK u : u = Cutting!PythonUnit(t, a)
    OBVIOUS
  <2>3. u.from = s.from
    BY <2>1, <2>2 DEF Cutting!PythonUnit, Cutting!Span
  <2>4. PICK n \in 1..Len(d) : d[n].from = u.from
    BY <1>1, <1>3, <2>2
  <2> QED BY <1>1, <2>3, <2>4
<1> QED BY <1>5, <1>6

\* The classes of a language with braces start in a line that is held.
LEMMA BraceClassesAre ==
    ASSUME NEW t, BracedText(t), NEW d, Parted(t, d), NEW s \in Cutting!BraceSymbols(Cutting!Masked(t)), s.kind = "class"
    PROVE  \E n \in 1..Len(d) : s.from \in d[n].from..d[n].to
<1>1. PICK M : M = Cutting!Masked(t)
  OBVIOUS
<1>2. MaskOf(M, t)
  BY <1>1, MaskedIs
<1>3. PICK c \in Cutting!Classes(M) : s = Cutting!Span(c.from, c.to, "class")
  BY <1>1 DEF Cutting!BraceSymbols, Cutting!Span
<1>4. c.from \in Cutting!Lines(M) /\ M[c.from].tag = "class"
  BY DEF Cutting!Classes
<1>5. c.from \in 1..Len(t) /\ t[c.from].tag = "class"
  BY <1>2, <1>4 DEF MaskOf, Cutting!Lines
<1>6. Cutting!Meaningful(t[c.from])
  BY <1>5 DEF Cutting!Meaningful, Cutting!Blank
<1>7. s.from = c.from
  BY <1>3 DEF Cutting!Span
<1> QED BY <1>5, <1>6, <1>7 DEF Parted

-----------------------------------------------------------------------------
(* The reading and cutting of a file.                                        *)

ChunksInv ==
    part = "chunking" =>
        /\ language \in DOMAIN LineKinds /\ text \in Seq(LineKinds[language]) /\ Len(text) <= MaxLines[language]
        /\ phase \in {"reading", "attached", "refused"}
        /\ phase = "reading" => drafts = <<>> /\ overlap = <<>>
        /\ phase # "reading" =>
              /\ drafts = Cutting!Drafts(language, text)
              /\ overlap = [n \in 1..Len(drafts) |-> Cutting!Overlap(drafts, n, OverlapLines, OverlapShare)]
              /\ phase = "refused" => \E n \in 1..Len(drafts) : ~Cutting!SliceMatches(text, drafts[n])

\* At first a text is empty and uncut.
LEMMA ChunksInit == ASSUME Init PROVE ChunksInv
<1>1. language \in DOMAIN LineKinds /\ text = <<>> /\ phase = "reading" /\ drafts = <<>> /\ overlap = <<>>
  BY DEF Init, Cutting!ChunkInit, Cutting!Languages
<1>2. MaxLines[language] \in Nat
  BY <1>1, LinesAssumption DEF LinesAssumption
<1>3. text \in Seq(LineKinds[language]) /\ Len(text) <= MaxLines[language]
  BY <1>1, <1>2
<1> QED BY <1>1, <1>3 DEF ChunksInv

\* A text grows while it is read; then it is cut, and what is cut stays.
LEMMA ChunksNext == ASSUME ChunksInv, [Next]_vars PROVE ChunksInv'
<1> SUFFICES ASSUME part' = "chunking" PROVE ChunksInv'
  BY DEF ChunksInv
<1>1. part = "chunking"
  BY DEF Next, vars
<1>2. CASE UNCHANGED <<language, text, phase, drafts, overlap>>
  BY <1>1, <1>2 DEF ChunksInv, Cutting!Drafts
<1>3. /\ language \in DOMAIN LineKinds /\ text \in Seq(LineKinds[language]) /\ Len(text) <= MaxLines[language]
      /\ phase = "reading" => drafts = <<>> /\ overlap = <<>>
  BY <1>1 DEF ChunksInv
<1>4. ASSUME NEW line \in LineKinds[language], Cutting!ReadLine(line) PROVE ChunksInv'
  <2>1. /\ phase = "reading" /\ Len(text) < MaxLines[language] /\ text' = Append(text, line)
        /\ UNCHANGED <<language, phase, drafts, overlap>>
    BY <1>4 DEF Cutting!ReadLine
  <2>2. text' \in Seq(LineKinds[language]) /\ Len(text') = Len(text) + 1
    BY <1>3, <1>4, <2>1
  <2>3. MaxLines[language] \in Nat
    BY <1>3, LinesAssumption DEF LinesAssumption
  <2>4. Len(text') <= MaxLines[language]
    BY <1>3, <2>1, <2>2, <2>3
  <2> QED BY <1>3, <2>1, <2>2, <2>4 DEF ChunksInv
<1>5. CASE Cutting!Cut
  <2>1. /\ drafts' = Cutting!Drafts(language, text)
        /\ overlap' = [n \in 1..Len(drafts') |-> Cutting!Overlap(drafts', n, OverlapLines, OverlapShare)]
        /\ phase' = IF \A n \in 1..Len(drafts') : Cutting!SliceMatches(text, drafts'[n]) THEN "attached" ELSE "refused"
        /\ UNCHANGED <<language, text>>
    BY <1>5 DEF Cutting!Cut, Cutting!Lines
  <2>2. phase' \in {"attached", "refused"}
    BY <2>1
  <2>3. Cutting!Drafts(language, text) = Cutting!Drafts(language', text')
    BY <2>1
  <2>4. phase' = "refused" => \E n \in 1..Len(drafts') : ~Cutting!SliceMatches(text, drafts'[n])
    BY <2>1
  <2>5. phase' = "refused" => \E n \in 1..Len(drafts') : ~Cutting!SliceMatches(text', drafts'[n])
    BY <2>1, <2>4
  <2> QED BY <1>3, <2>1, <2>2, <2>3, <2>5 DEF ChunksInv
<1>6. CASE Cutting!ChunkNext
  BY <1>4, <1>5, <1>6 DEF Cutting!ChunkNext
<1> QED BY <1>1, <1>2, <1>6 DEF Next, vars, chunking

\* What has been cut covers its text, is refused for the two known reasons, repeats
\* only what it was cut off from, and names its headings and symbols.
LEMMA ChunksImply == ASSUME ChunksInv PROVE ChunksAreExact
<1> SUFFICES ASSUME part = "chunking" PROVE ChunksAreExact
  BY DEF ChunksAreExact
<1>1. /\ language \in DOMAIN LineKinds /\ text \in Seq(LineKinds[language]) /\ Len(text) <= MaxLines[language]
      /\ phase \in {"reading", "attached", "refused"} /\ (phase = "reading" => drafts = <<>> /\ overlap = <<>>)
      /\ phase # "reading" =>
            /\ drafts = Cutting!Drafts(language, text)
            /\ overlap = [n \in 1..Len(drafts) |-> Cutting!Overlap(drafts, n, OverlapLines, OverlapShare)]
            /\ phase = "refused" => \E n \in 1..Len(drafts) : ~Cutting!SliceMatches(text, drafts[n])
  BY DEF ChunksInv
<1>2. CASE phase = "reading"
  <2>1. drafts = <<>> /\ overlap = <<>> /\ Len(drafts) = 0 /\ Len(overlap) = 0
    BY <1>1, <1>2
  <2>2. Cutting!ChunkTypeOK
    BY <1>1, <2>1 DEF Cutting!ChunkTypeOK, Cutting!Languages, Cutting!Lines
  <2> QED BY <1>2, <2>2 DEF ChunksAreExact, Cutting!EveryLineIsIndexedOnce, Cutting!RangesAreExact,
            Cutting!HeadingPathEncloses, Cutting!OverlapStaysInSection, Cutting!UnitsHaveSymbols
<1>3. CASE phase # "reading"
  <2>1. PICK l, t, d : l = language /\ t = text /\ d = drafts
    OBVIOUS
  <2>2. /\ l \in DOMAIN LineKinds /\ t \in Seq(LineKinds[l]) /\ d = Cutting!Drafts(l, t)
        /\ overlap = [n \in 1..Len(d) |-> Cutting!Overlap(d, n, OverlapLines, OverlapShare)]
        /\ phase = "refused" => \E n \in 1..Len(d) : ~Cutting!SliceMatches(t, d[n])
    BY <1>1, <1>3, <2>1
  <2>3. CutWell(l, t, d)
    BY <2>2, DraftsAreCut
  <2>4. Held(l, t, d) /\ CutInside(t, d) /\ ((\E n \in 1..Len(d) : ~Cutting!SliceMatches(t, d[n])) => Refused(l, t, d))
    BY <2>3 DEF CutWell
  <2>5. /\ Len(d) \in Nat /\ Len(t) \in Nat
        /\ \A n \in 1..Len(d) : d[n].from \in 1..Len(t) /\ d[n].to \in d[n].from..Len(t)
        /\ \A i \in 1..Len(t) : /\ Cutting!Meaningful(t[i]) => HoldersIn(d, i) # {}
                                /\ Cardinality(HoldersIn(d, i)) <= 1 \/ Twice(l, t, d, i)
    BY <2>2, <2>4 DEF Held
  <2>6. Cutting!ChunkTypeOK
    <3>1. Len(overlap) = Len(d)
      BY <2>2, <2>5
    <3> QED BY <1>1, <2>1, <2>5, <3>1 DEF Cutting!ChunkTypeOK, Cutting!Languages, Cutting!Lines
  <2>7. Cutting!EveryLineIsIndexedOnce
    <3>1. \A i : Cutting!Holders(i) = HoldersIn(d, i)
      BY <2>1 DEF Cutting!Holders, HoldersIn, Cutting!Lines, Cutting!Within
    <3>2. ASSUME NEW i \in Cutting!Lines(text)
          PROVE  /\ Cutting!Meaningful(text[i]) => Cutting!Holders(i) # {}
                 /\ Cutting!Cardinality(Cutting!Holders(i)) <= 1 \/ Cutting!Repeated(i)
      <4>1. i \in 1..Len(t)
        BY <2>1 DEF Cutting!Lines
      <4>2. Cutting!Holders(i) = HoldersIn(d, i)
        BY <3>1
      <4>3. Cutting!Cardinality(Cutting!Holders(i)) = Cardinality(HoldersIn(d, i))
        BY <4>2 DEF Cutting!Cardinality, Cardinality
      <4>4. Twice(l, t, d, i) => Cutting!Repeated(i)
        BY <2>1, <4>3 DEF Twice, Cutting!Repeated
      <4>5. (Cutting!Meaningful(t[i]) => HoldersIn(d, i) # {}) /\ (Cardinality(HoldersIn(d, i)) <= 1 \/ Twice(l, t, d, i))
        BY <2>5, <4>1
      <4> QED BY <2>1, <4>2, <4>3, <4>4, <4>5
    <3> QED BY <3>2 DEF Cutting!EveryLineIsIndexedOnce
  <2>8. Cutting!RangesAreExact
    <3> SUFFICES ASSUME phase = "refused" PROVE Refused(l, t, d)
      BY <2>1 DEF Cutting!RangesAreExact, Refused, Cutting!Lines
    <3> QED BY <2>2, <2>4
  <2>9. Cutting!HeadingPathEncloses
    <3> SUFFICES ASSUME NEW h \in Cutting!Lines(Cutting!Headings(t))
                 PROVE  LET S == {g \in Cutting!Lines(Cutting!Headings(t)) : Cutting!Under(h, g)} \cup {h}
                        IN Cutting!HeadingPath(t, h) = Cutting!InOrder(S, {p \in S \X S : p[1] < p[2]})
      BY <2>1 DEF Cutting!HeadingPathEncloses
    <3>1. PICK hs : hs = Cutting!Headings(t)
      OBVIOUS
    <3>2. Titled(hs, t) /\ h \in 1..Len(hs)
      BY <2>5, <3>1, HeadingsAre DEF Cutting!Lines
    <3> DEFINE S == {g \in Cutting!Lines(Cutting!Headings(t)) : Cutting!Under(h, g)} \cup {h}
    <3>3. \A g : Cutting!Under(h, g) <=> /\ g < h /\ hs[g].level < hs[h].level
                                         /\ \A k \in g + 1..h - 1 : hs[k].level > hs[g].level
      BY <2>1, <3>1 DEF Cutting!Under
    <3>4. \A g : g \in S <=> g = h \/ /\ g \in 1..Len(hs) /\ g < h /\ hs[g].level < hs[h].level
                                      /\ \A k \in g + 1..h - 1 : hs[k].level > hs[g].level
      BY <3>1, <3>3 DEF Cutting!Lines
    <3> HIDE DEF S
    <3>5. Cutting!HeadingPath(t, h) = Cutting!InOrder(S, {p \in S \X S : p[1] < p[2]})
      BY <3>1, <3>2, <3>4, HeadingPathIs
    <3> QED BY <3>5 DEF S
  <2>10. Cutting!OverlapStaysInSection
    <3> SUFFICES ASSUME NEW n \in 1..Len(d), overlap[n] > 0
                 PROVE  /\ t[d[n].from].tag \notin Cutting!Markers
                        /\ d[n - 1].to + 1 = d[n].from
                        /\ overlap[n] <= Cutting!Cardinality(Cutting!Within(d[n - 1]))
      BY <2>1 DEF Cutting!OverlapStaysInSection, Cutting!Lines
    <3>1. overlap[n] = Cutting!Overlap(d, n, OverlapLines, OverlapShare)
      BY <2>2
    <3>2. \A k \in 1..Len(d) : d[k].from \in Nat /\ d[k].to \in Nat
      BY <2>5
    <3>3. Repeats(d, n, overlap[n])
      BY <2>5, <3>1, <3>2, OverlapIs
    <3> QED BY <2>4, <3>3 DEF Repeats, CutInside
  <2>11. Cutting!UnitsHaveSymbols
    <3> SUFFICES ASSUME l \in {"python", "braces"}, Cutting!Parses(l, t)
                 PROVE  /\ \A n \in 1..Len(d) : d[n].kind \in {"function", "method"} =>
                             Cutting!Span(d[n].from, d[n].to, d[n].kind) \in Cutting!Symbols(l, t)
                        /\ \A s \in Cutting!Symbols(l, t) : s.kind = "class" =>
                             \E n \in 1..Len(d) : s.from \in d[n].from..d[n].to
      BY <2>1 DEF Cutting!UnitsHaveSymbols, Cutting!Lines, Cutting!Within
    <3>1. d = Cutting!Units(l, t)
      BY <2>2 DEF Cutting!Drafts, Cutting!CodeDrafts
    <3>2. \A i \in 1..Len(t) : t[i] \in LineKinds[l]
      BY <2>2
    <3>3. CASE l = "python"
      <4>1. PythonText(t)
        BY <2>2, <2>5, <3>2, <3>3, LinesAssumption DEF LinesAssumption, PythonText, Cutting!Parses
      <4> QED BY <3>1, <3>3, <4>1, PythonSymbolsAre DEF Cutting!Symbols
    <3>4. CASE l = "braces"
      <4>1. BracedText(t) /\ Cutting!Balanced(t) /\ l # "python"
        BY <2>2, <2>5, <3>2, <3>4, LinesAssumption DEF LinesAssumption, BracedText, BraceKinds, Cutting!Parses
      <4>2. /\ Parted(t, d)
            /\ \A n \in 1..Len(d) : d[n].kind \in {"function", "method"} =>
                  Cutting!Span(d[n].from, d[n].to, d[n].kind) \in Cutting!BraceSymbols(Cutting!Masked(t))
        BY <3>1, <4>1, BracesAreCut
      <4>3. Cutting!Symbols(l, t) = Cutting!BraceSymbols(Cutting!Masked(t))
        BY <4>1 DEF Cutting!Symbols
      <4> QED BY <4>1, <4>2, <4>3, BraceClassesAre
    <3> QED BY <3>3, <3>4
  <2> QED BY <2>6, <2>7, <2>8, <2>9, <2>10, <2>11 DEF ChunksAreExact
<1> QED BY <1>2, <1>3

\* What is cut is always what the chunkers make of the text.
LEMMA ChunksAreSound == Spec => []ChunksInv
<1>1. Init => ChunksInv
  BY ChunksInit
<1>2. ChunksInv /\ [Next]_vars => ChunksInv'
  BY ChunksNext
<1> QED BY <1>1, <1>2, PTL DEF Spec

\* A file that has been cut is held by its drafts, line for line and each line once but
\* for the decorators of a Python class; it is refused only for the head of such a class
\* or for a fence that is never closed; paths of headings, overlap and symbols are true
\* (src/rag/chunking), for any lines of any kind and any limits of length.
THEOREM ChunksStayExact == Spec => []ChunksAreExact
<1>1. ChunksInv => ChunksAreExact
  BY ChunksImply
<1> QED BY <1>1, ChunksAreSound, PTL
=============================================================================
