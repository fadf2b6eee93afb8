------------------------------- MODULE Chunking -------------------------------
(***************************************************************************)
(* One file on its way into the index: it is read, cut into drafts by the   *)
(* chunker of its kind, given overlap, and every draft is checked against   *)
(* the source before it becomes a chunk (src/rag/chunking/provenance.py,    *)
(* the choice of the chunker in src/rag/runtime/production_index.py).       *)
(***************************************************************************)
EXTENDS CodeChunking

CONSTANTS
    LineKinds,      \* the lines a file of a kind may have: log, markdown, python, braces, other
    MaxLines,       \* bound: lines of a file of each kind
    MostLines,      \* lines after which a log or a fallback block is cut (80)
    OverlapLines,   \* lines repeated at most after a forced cut (2)
    OverlapShare    \* one line is repeated for so many of the draft's own (4)

VARIABLES
    language,   \* the kind of the file
    text,       \* its lines
    at,         \* reading, attached or refused
    drafts,     \* its drafts in order
    overlap     \* lines repeated before each of them

chunkVars == <<language, text, at, drafts, overlap>>
Languages == DOMAIN LineKinds

ChunkInit ==
    /\ language \in Languages /\ text = <<>> /\ at = "reading" /\ drafts = <<>> /\ overlap = <<>>

ChunkTypeOK ==
    /\ language \in Languages /\ at \in {"reading", "attached", "refused"}
    /\ Len(text) <= MaxLines[language] /\ Len(overlap) = Len(drafts)
    /\ \A n \in Lines(drafts) : drafts[n].from \in Lines(text) /\ drafts[n].to \in drafts[n].from .. Len(text)

ReadLine(line) ==
    /\ at = "reading" /\ Len(text) < MaxLines[language] /\ text' = Append(text, line)
    /\ UNCHANGED <<language, at, drafts, overlap>>

Drafts(l, t) ==
    CASE l = "log" -> TextLog(t, MostLines)
      [] l = "markdown" -> Markdown(t)
      [] OTHER -> CodeDrafts(l, t, MostLines)
\* attach_source_provenance refuses the whole file for one draft
Cut ==
    /\ at = "reading"
    /\ drafts' = Drafts(language, text)
    /\ overlap' = [n \in Lines(drafts') |-> Overlap(drafts', n, OverlapLines, OverlapShare)]
    /\ at' = IF \A n \in Lines(drafts') : SliceMatches(text, drafts'[n]) THEN "attached" ELSE "refused"
    /\ UNCHANGED <<language, text>>

ChunkNext == Cut \/ \E line \in LineKinds[language] : ReadLine(line)
ChunkSpec == ChunkInit /\ [][ChunkNext]_chunkVars

-----------------------------------------------------------------------------
(* Every line that means something is in a draft, and in one only - but for the decorator *)
(* of the first method of a Python class, which the head of the class holds as well.      *)
Holders(i) == {n \in Lines(drafts) : i \in Within(drafts[n])}
Repeated(i) == language = "python" /\ text[i].tag \in {"@", "empty", "spaces"} /\ Cardinality(Holders(i)) = 2
EveryLineIsIndexedOnce ==
    at # "reading" => \A i \in Lines(text) :
        /\ Meaningful(text[i]) => Holders(i) # {}
        /\ Cardinality(Holders(i)) <= 1 \/ Repeated(i)

(* A file is refused only for the head of a Python class that an empty line follows, or   *)
(* for a fence that is never closed and ends in empty lines: all other drafts hold what   *)
(* their lines say.                                                                       *)
RangesAreExact ==
    at = "refused" =>
        \/ language = "markdown" /\ Unclosed(text) /\ text[Len(text)].tag = "empty"
        \/ language = "python" /\ \E n \in Lines(drafts) : drafts[n].kind = "class" /\ text[drafts[n].to].tag = "empty"

(* The path of a heading names the headings it stands under: those of a higher level that *)
(* no heading of their own level or higher has ended before it.                           *)
Under(h, g) ==
    /\ g < h /\ Headings(text)[g].level < Headings(text)[h].level
    /\ \A k \in g + 1 .. h - 1 : Headings(text)[k].level > Headings(text)[g].level
HeadingPathEncloses ==
    language = "markdown" /\ at # "reading" =>
        \A h \in Lines(Headings(text)) :
            LET enclosing == {g \in Lines(Headings(text)) : Under(h, g)} \cup {h}
            IN HeadingPath(text, h) = InOrder(enclosing, {p \in enclosing \X enclosing : p[1] < p[2]})

(* Lines are repeated only where a run of lines without a marker, or a block without a    *)
(* blank line, was cut for its length: never across the start of another section.         *)
OverlapStaysInSection ==
    at # "reading" => \A n \in Lines(drafts) : overlap[n] > 0 =>
        /\ text[drafts[n].from].tag \notin Markers
        /\ drafts[n - 1].to + 1 = drafts[n].from /\ overlap[n] <= Cardinality(Within(drafts[n - 1]))

(* Every function and method that is a unit is a symbol with the same lines, and every    *)
(* class symbol starts a unit or lies in one.                                             *)
UnitsHaveSymbols ==
    at # "reading" /\ language \in {"python", "braces"} /\ Parses(language, text) =>
        /\ \A n \in Lines(drafts) : drafts[n].kind \in {"function", "method"} =>
              Span(drafts[n].from, drafts[n].to, drafts[n].kind) \in Symbols(language, text)
        /\ \A s \in Symbols(language, text) : s.kind = "class" =>
              \E n \in Lines(drafts) : s.from \in Within(drafts[n])
=============================================================================
