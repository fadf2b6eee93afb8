----------------------------- MODULE CodeChunking -----------------------------
(***************************************************************************)
(* How code is cut into units (src/rag/chunking/code_units.py) and which    *)
(* symbols it has (code_symbols.py), behind the parsers of code_parser.py   *)
(* and with the text fallback of code_fallback.py.                          *)
(*                                                                         *)
(* A line of a language with braces has a tag (what the patterns, here      *)
(* those of JavaScript, make of it), its braces in order, and where its     *)
(* first semicolon stands: "none", "first" (before every opening brace) or  *)
(* "after".  Comments that span lines mask what is in them.  A line of      *)
(* Python has a tag and a depth, its indentation.                           *)
(***************************************************************************)
EXTENDS TextChunking

CONSTANT Lookahead      \* lines in which a block must open after its header (8)

Meaningful(line) == ~Blank(line) /\ line.tag # "punctuation"
Span(from, to, kind) == [from |-> from, to |-> to, kind |-> kind]
Touch(s, t) == s.from <= t.to /\ t.from <= s.to
Rank(kind) == CASE kind = "class" -> 1 [] kind = "constant" -> 2 [] kind = "function" -> 3 [] kind = "block" -> 4 [] kind = "method" -> 5
SpanBefore(s, t) ==
    \/ s.from < t.from
    \/ s.from = t.from /\ (s.to < t.to \/ (s.to = t.to /\ Rank(s.kind) < Rank(t.kind)))
SpanOrder(spans) == {p \in spans \X spans : SpanBefore(p[1], p[2])}

-----------------------------------------------------------------------------
(* Languages with braces                                                    *)

\* whether a comment is open after each line
Comment(text) ==
    LET open[i \in 0 .. Len(text)] ==
            IF i = 0 THEN FALSE
            ELSE CASE text[i].tag = "comment opens" -> TRUE
                   [] text[i].tag = "comment closes" -> FALSE
                   [] OTHER -> open[i - 1]
    IN open
Masked(text) ==
    [i \in Lines(text) |-> IF Comment(text)[i - 1] \/ Comment(text)[i]
                           THEN [text[i] EXCEPT !.tag = "masked", !.braces = <<>>, !.semicolon = "none"] ELSE text[i]]

\* the braces of a text in order, each with its line
Braces(masked) ==
    LET places == UNION {{<<i, c>> : c \in Lines(masked[i].braces)} : i \in Lines(masked)}
        order == InOrder(places, {p \in places \X places :
                    p[1][1] < p[2][1] \/ (p[1][1] = p[2][1] /\ p[1][2] < p[2][2])})
    IN [n \in Lines(order) |-> <<order[n][1], masked[order[n][1]].braces[order[n][2]]>>]
Count(braces, from, to, kind) == Cardinality({n \in from .. to : braces[n][2] = kind})
\* _scan_delimiters: every brace has its partner and no comment is left open
Balanced(text) ==
    LET braces == Braces(Masked(text)) IN
    /\ \A n \in Lines(braces) : Count(braces, 1, n, "close") <= Count(braces, 1, n, "open")
    /\ Count(braces, 1, Len(braces), "close") = Count(braces, 1, Len(braces), "open")
    /\ ~Comment(text)[Len(text)]
\* the line of the brace that closes the first one opened in line i
CloseOf(masked, i) ==
    LET braces == Braces(masked)
        opener == Min({n \in Lines(braces) : braces[n] = <<i, "open">>})
    IN braces[Min({n \in opener .. Len(braces) :
                    Count(braces, opener, n, "close") = Count(braces, opener, n, "open")})][1]

Opens(line) == "open" \in {line.braces[c] : c \in Lines(line.braces)}
\* the line in which the block of a header opens, 0 when there is none in reach
OpeningLine(masked, i) ==
    LET reach == i .. Min({Len(masked), (i + Lookahead) - 1})
        hits == {k \in reach : Opens(masked[k]) /\ masked[k].semicolon # "first"}
        stops == {k \in reach : ~Opens(masked[k]) /\ masked[k].semicolon # "none"}
    IN IF hits = {} \/ (\E s \in stops : s < Min(hits)) THEN 0 ELSE Min(hits)
BlockEnd(masked, i) == CloseOf(masked, OpeningLine(masked, i))

Classes(masked) ==
    {[from |-> i, opens |-> OpeningLine(masked, i), to |-> BlockEnd(masked, i)] :
        i \in {k \in Lines(masked) : masked[k].tag = "class" /\ OpeningLine(masked, k) # 0}}
Around(i, classes) == {c \in classes : c.from <= i /\ i <= c.to}
Innermost(i, classes) ==
    CHOOSE c \in Around(i, classes) : \A d \in Around(i, classes) : c.to - c.from <= d.to - d.from
Methods(masked, class) ==
    {Span(i, BlockEnd(masked, i), "method") :
        i \in {k \in Lines(masked) :
                /\ Around(k, Classes(masked)) # {} /\ Innermost(k, Classes(masked)) = class /\ k # class.from
                /\ masked[k].tag = "call" /\ OpeningLine(masked, k) # 0
                /\ BlockEnd(masked, k) <= class.to}}
ClassSpans(masked) ==
    UNION {IF Methods(masked, c) = {} THEN {Span(c.from, c.to, "class")}
           ELSE {Span(c.from, c.opens, "class")} \cup Methods(masked, c) : c \in Classes(masked)}
Outside(masked) == {i \in Lines(masked) : Around(i, Classes(masked)) = {}}
FunctionSpans(masked) ==
    {Span(i, BlockEnd(masked, i), "function") :
        i \in {k \in Outside(masked) : masked[k].tag \in {"function", "arrow"} /\ OpeningLine(masked, k) # 0}}
    \cup {Span(i, i, "function") :
        i \in {k \in Outside(masked) : masked[k].tag = "arrow" /\ ~Opens(masked[k]) /\ OpeningLine(masked, k) = 0}}
\* Faulty variant: spans that touch are kept beside each other.
AcceptedAll(spans) == spans

\* first come, first served: a span that touches an accepted one is dropped
Accepted(spans) ==
    LET order == InOrder(spans, SpanOrder(spans))
        kept[n \in 0 .. Len(order)] ==
            IF n = 0 THEN {}
            ELSE IF \E s \in kept[n - 1] : Touch(s, order[n]) THEN kept[n - 1] ELSE kept[n - 1] \cup {order[n]}
    IN kept[Len(order)]
BraceSpans(masked) == Accepted(ClassSpans(masked) \cup FunctionSpans(masked))
\* the last line of a class is not worth a chunk of its own
ClosingLines(text) == {c.to : c \in {d \in Classes(Masked(text)) : ~Meaningful(text[d.to])}}

-----------------------------------------------------------------------------
(* Python: classes and functions by indentation                             *)

Headers == {"class", "def"}
Solid(text) == {i \in Lines(text) : ~Blank(text[i])}
Before(text, i) == {j \in Solid(text) : j < i}
\* ast.parse: a block follows every header and nothing else, a decorator its header
ParsesPython(text) ==
    /\ \A i \in Solid(text) :
          IF Before(text, i) = {} THEN text[i].depth = 0
          ELSE LET p == text[Max(Before(text, i))] IN
                  /\ IF p.tag \in Headers THEN text[i].depth = p.depth + 1 ELSE text[i].depth <= p.depth
                  /\ p.tag = "@" => text[i].depth = p.depth /\ text[i].tag \in Headers \cup {"@"}
    /\ Solid(text) # {} => text[Max(Solid(text))].tag \notin Headers \cup {"@"}
\* the last line of the block of the header in line i
LastLine(text, i) ==
    Max({j \in Solid(text) : j >= i /\ \A k \in Solid(text) : i < k /\ k <= j => text[k].depth > text[i].depth})
Enclosing(text, i) == {j \in Solid(text) : text[j].tag \in Headers /\ j < i /\ i <= LastLine(text, j)}
Reached(text) == {i \in Solid(text) : \A j \in Enclosing(text, i) : text[j].tag = "class"}
HeaderLines(text) == {i \in Reached(text) : text[i].tag \in Headers}
Body(text, i) == {j \in Reached(text) : i < j /\ j <= LastLine(text, i) /\ text[j].depth = text[i].depth + 1}
\* a header starts at its first decorator
NodeStart(text, i) ==
    Min({j \in Solid(text) : j <= i /\ text[j].depth = text[i].depth
            /\ \A k \in Solid(text) : j <= k /\ k < i => text[k].tag = "@"})
Structural(text, i) == \E j \in Body(text, i) : text[j].tag \in Headers
\* the head of a class ends before the line of the first node of its body, not before its decorator
HeadEnd(text, i) ==
    Max({i, Min({j \in Body(text, i) : text[j].tag # "@"}) - 1})
PythonUnit(text, i) ==
    IF text[i].tag = "def"
    THEN Span(NodeStart(text, i), LastLine(text, i), IF Enclosing(text, i) = {} THEN "function" ELSE "method")
    ELSE Span(NodeStart(text, i), IF Structural(text, i) THEN HeadEnd(text, i) ELSE LastLine(text, i), "class")
PythonSpans(text) == {PythonUnit(text, i) : i \in HeaderLines(text)}

-----------------------------------------------------------------------------
(* Units and symbols                                                        *)

Parses(language, text) == IF language = "python" THEN ParsesPython(text) ELSE Balanced(text)
Covered(language, text, spans) ==
    (UNION {s.from .. s.to : s \in spans}) \cup (IF language = "python" THEN {} ELSE ClosingLines(text))
\* what no unit covers: from the first to the last line that means something
BlockSpans(text, covered) ==
    LET gaps == Runs(1, Len(text), Lines(text) \ covered)
        useful(g) == {i \in g[1] .. g[2] : Meaningful(text[i])}
    IN {Span(Min(useful(g)), Max(useful(g)), "block") : g \in {r \in gaps : useful(r) # {}}}
Spans(language, text) == IF language = "python" THEN PythonSpans(text) ELSE BraceSpans(Masked(text))
Units(language, text) ==
    LET spans == Spans(language, text)
        units == {Draft(s.from, s.to, s.kind, FALSE) :
                     s \in spans \cup BlockSpans(text, Covered(language, text, spans))}
    IN InOrder(units, SpanOrder(units))
\* safe_chunk_code
CodeDrafts(language, text, most) ==
    IF language # "other" /\ Parses(language, text) THEN Units(language, text) ELSE Fallback(text, most)

\* extract_code_symbols, without the module: here too a control statement is told from a call
\* only outside classes
InClass(masked, i) == Around(i, Classes(masked)) # {}
BraceSymbols(masked) ==
    LET callable == {i \in Lines(masked) :
            /\ IF InClass(masked, i) THEN masked[i].tag \in {"call", "control"}
                                     ELSE masked[i].tag \in {"function", "arrow"}
            /\ OpeningLine(masked, i) # 0 \/ (masked[i].tag = "arrow" /\ ~Opens(masked[i]))}
        end(i) == IF OpeningLine(masked, i) = 0 THEN i ELSE BlockEnd(masked, i)
        held(i) == \E c \in Classes(masked) : c.from <= i /\ end(i) <= c.to
        calls == {Span(i, end(i), IF held(i) THEN "method" ELSE "function") : i \in callable}
    IN {Span(c.from, c.to, "class") : c \in Classes(masked)} \cup calls
       \cup {Span(i, i, "constant") : i \in {k \in Lines(masked) : masked[k].tag = "constant"
                                                /\ \A s \in calls : k \notin s.from .. s.to}}
PythonSymbols(text) ==
    {Span(NodeStart(text, i), LastLine(text, i), PythonUnit(text, i).kind) : i \in HeaderLines(text)}
    \cup {Span(i, i, "constant") : i \in {k \in Reached(text) : text[k].tag = "constant"}}
Symbols(language, text) ==
    IF language = "python" THEN PythonSymbols(text) ELSE BraceSymbols(Masked(text))
=============================================================================
