----------------------------- MODULE TextChunking -----------------------------
(***************************************************************************)
(* How texts are cut into chunks for the index (src/rag/chunking/): logs    *)
(* and plain text (text_log.py), Markdown (markdown.py), code no parser     *)
(* accepts (code_fallback.py), the overlap of forced cuts (overlap.py) and  *)
(* the check of a draft against its source (provenance.py).                 *)
(*                                                                         *)
(* A text is a sequence of records whose field `tag` says what the patterns *)
(* of the chunkers see in the line: "empty", "spaces", "text", a marker, a  *)
(* heading, a fence.  A draft names its lines, from and to; what it holds   *)
(* is those lines, stripped of empty ones at its ends where the code does.  *)
(***************************************************************************)
EXTENDS Naturals, Sequences, FiniteSets, FiniteSetsExt

Blank(line) == line.tag \in {"empty", "spaces"}
Lines(text) == 1 .. Len(text)
Draft(from, to, kind, cut) == [from |-> from, to |-> to, kind |-> kind, cut |-> cut]
Within(draft) == draft.from .. draft.to
\* the sequence of S in an order, a set of pairs
InOrder(S, order) ==
    [i \in 1 .. Cardinality(S) |-> CHOOSE x \in S : Cardinality({y \in S : <<y, x>> \in order}) = i - 1]
ByFrom(S) == {p \in S \X S : p[1].from < p[2].from}

\* maximal runs of solid lines between two lines
Runs(first, last, solid) ==
    {r \in (first .. last) \X (first .. last) :
        /\ r[1] <= r[2] /\ r[1] .. r[2] \subseteq solid
        /\ (r[1] > first => r[1] - 1 \notin solid) /\ (r[2] < last => r[2] + 1 \notin solid)}

-----------------------------------------------------------------------------
(* Logs and plain text: a chunk for every marker, cut after `most` lines    *)

Markers == {"section", "error", "event"}
Trimmed(text, from, to) == {i \in from .. to : ~Blank(text[i])}
Emit(text, s, to) ==
    IF Trimmed(text, s.start, to) = {} THEN s.out
    ELSE Append(s.out, Draft(Min(Trimmed(text, s.start, to)), Max(Trimmed(text, s.start, to)), s.kind, s.cut))
AtMarker(text, s, i) ==
    IF text[i].tag \notin Markers THEN s
    ELSE [start |-> i, kind |-> text[i].tag, cut |-> FALSE, out |-> Emit(text, s, i - 1)]
AtLimit(text, s, i, most) ==
    IF (i + 1) - s.start < most THEN s ELSE [s EXCEPT !.start = i + 1, !.cut = TRUE, !.out = Emit(text, s, i)]
TextLog(text, most) ==
    LET scan[i \in 0 .. Len(text)] ==
            IF i = 0 THEN [start |-> 1, kind |-> "block", cut |-> FALSE, out |-> <<>>]
            ELSE AtLimit(text, AtMarker(text, scan[i - 1], i), i, most)
    IN Emit(text, scan[Len(text)], Len(text))

-----------------------------------------------------------------------------
(* Code without a parser: blocks between blank lines, cut after `most`      *)

Parts(from, to, most) ==
    {Draft(from + n * most, Min({to, (from + (n + 1) * most) - 1}), "fallback", n > 0) :
        n \in 0 .. (to - from) \div most}
Fallback(text, most) ==
    LET runs == Runs(1, Len(text), {i \in Lines(text) : ~Blank(text[i])})
        parts == UNION {Parts(r[1], r[2], most) : r \in runs}
    IN InOrder(parts, ByFrom(parts))

-----------------------------------------------------------------------------
(* Markdown: blocks under headings; a fence hides both                      *)

\* the fence that is open after each line: until a line of its own kind, or to the end of the text
Fences == {"fence", "tilde"}
OpenFence(text) ==
    LET open[i \in 0 .. Len(text)] ==
            IF i = 0 THEN "no"
            ELSE IF open[i - 1] = "no" THEN IF text[i].tag \in Fences THEN text[i].tag ELSE "no"
            ELSE IF text[i].tag = open[i - 1] THEN "no" ELSE open[i - 1]
    IN open
Fenced(text) == {i \in Lines(text) : OpenFence(text)[i - 1] # "no" \/ OpenFence(text)[i] # "no"}
Unclosed(text) == OpenFence(text)[Len(text)] # "no"

Level(tag) == CASE tag = "h1" -> 1 [] tag = "h2" -> 2 [] OTHER -> 3
Heading(from, to, level) == [from |-> from, to |-> to, level |-> level]
\* "#" headings, and lines that are underlined by the next one
Underlined(text, i) ==
    /\ i < Len(text) /\ i + 1 \notin Fenced(text) /\ ~Blank(text[i]) /\ text[i + 1].tag = "rule"
\* what each line is, from the first on: the underline of a title is no title itself
Roles(text) ==
    LET fenced == Fenced(text)
        role[i \in 0 .. Len(text)] ==
            IF i = 0 THEN "line"
            ELSE IF role[i - 1] = "title" THEN "underline"
            ELSE IF i \in fenced THEN "line"
            ELSE IF text[i].tag \in {"h1", "h2", "h3"} THEN "heading"
            ELSE IF Underlined(text, i) THEN "title" ELSE "line"
    IN role
HeadingsOf(text) ==
    LET role == Roles(text)
    IN {Heading(i, i, Level(text[i].tag)) : i \in {k \in Lines(text) : role[k] = "heading"}}
       \cup {Heading(i, i + 1, 2) : i \in {k \in Lines(text) : role[k] = "title"}}
Headings(text) == InOrder(HeadingsOf(text), ByFrom(HeadingsOf(text)))

LogicalBlocks(text, first, last) == Runs(first, last, Fenced(text) \cup {i \in first .. last : ~Blank(text[i])})
Section(text, n) ==
    LET h == Headings(text)[n]
        last == IF n < Len(Headings(text)) THEN Headings(text)[n + 1].from - 1 ELSE Len(text)
        blocks == LogicalBlocks(text, h.to + 1, last)
        first(r) == \A q \in blocks : r[1] <= q[1]
    IN IF blocks = {} THEN {Draft(h.from, h.to, n, FALSE)}
       ELSE {Draft(IF first(r) THEN h.from ELSE r[1], r[2], n, FALSE) : r \in blocks}
Preamble(text) ==
    LET last == IF Headings(text) = <<>> THEN Len(text) ELSE Headings(text)[1].from - 1
    IN {Draft(r[1], r[2], 0, FALSE) : r \in LogicalBlocks(text, 1, last)}
Markdown(text) ==
    LET parts == Preamble(text) \cup UNION {Section(text, n) : n \in Lines(Headings(text))}
    IN InOrder(parts, ByFrom(parts))

\* the stack of headings when heading n is read: one place for every level, 0 where there is none
Levels == 1 .. 6
HeadingStack(text) ==
    LET push(stack, n) ==
            LET level == Headings(text)[n].level
            IN [l \in Levels |-> IF l < level THEN stack[l] ELSE IF l = level THEN n ELSE 0]
        stack[n \in 0 .. Len(Headings(text))] == IF n = 0 THEN [l \in Levels |-> 0] ELSE push(stack[n - 1], n)
    IN stack
HeadingPath(text, n) ==
    LET stack == HeadingStack(text)[n]
        used == {l \in Levels : stack[l] # 0}
        order == InOrder(used, {p \in used \X used : p[1] < p[2]})
    IN [k \in Lines(order) |-> stack[order[k]]]

-----------------------------------------------------------------------------
(* Overlap and provenance                                                   *)

\* lines of the draft before that are repeated before draft n: at most `lines` of them, and at
\* most one in `share` of the draft's own (a quarter)
Overlap(drafts, n, lines, share) ==
    IF n = 1 \/ ~drafts[n].cut THEN 0
    ELSE IF drafts[n - 1].to + 1 # drafts[n].from \/ drafts[n - 1].kind # drafts[n].kind THEN 0
    ELSE Min({lines, Max({1, Cardinality(Within(drafts[n])) \div share}), Cardinality(Within(drafts[n - 1]))})

\* a draft is refused when what it holds, stripped of empty lines, is not what its lines say
SliceMatches(text, draft) == text[draft.from].tag # "empty" /\ text[draft.to].tag # "empty"
=============================================================================
