------------------------------ MODULE Retrieval ------------------------------
(***************************************************************************)
(* One search of the index and the context that is fetched for its results: *)
(* the route (src/rag/runtime/query_classifier.py), search_context          *)
(* (search_service.py), the semantic search of the persistent stores        *)
(* (production_search.py) with the lexical ranking                          *)
(* (src/rag/index/lexical_ranking.py), the vector searches                  *)
(* (src/rag/retrieval/), rank fusion, deduplication and the document        *)
(* reranking of the experiment (src/rag/ranking/), and get_context          *)
(* (context_service.py, src/rag/sources/staleness.py).                      *)
(*                                                                         *)
(* What SQLite and Qdrant find is any order of what passes their filters.   *)
(* The directory of the index may be replaced between the opening of the    *)
(* two stores, unless the reader has pinned a generation; the files are     *)
(* edited at any time.  Scores are shares of Scale, a common multiple.      *)
(***************************************************************************)
EXTENDS Naturals, Sequences, FiniteSets, FiniteSetsExt

CONSTANTS Texts, Codes,     \* chunks of the two collections: numbers, ordered like their ids
          DocumentOf,       \* the document of a chunk, a number
          Alike,            \* pairs of chunks that count as near duplicates
          Inside,           \* chunks whose path contains the path filter
          Folded,           \* chunks whose path contains it but for the case of letters
          Moved,            \* chunks whose metadata the next index has changed
          TopKs,            \* limits a query may ask for
          FuseFloor,        \* floor of the number of fused candidates (20)
          Scale,            \* a multiple of every denominator of a score
          MaxEdits          \* bound: edits of files

VARIABLES
    query,      \* the request and its route
    index,      \* version of the index in the directory
    lists,      \* the rankings collected so far, each with the version it was read from
    fused,      \* the fused ranking
    answer,     \* the results, best first
    at,         \* where the search or the request for context is
    files,      \* the source file of a document: as indexed, changed, gone or not UTF-8
    late,       \* documents whose file has differed readably since the context was asked for
    context,    \* chunks to check and chunks to serve
    edits       \* edits so far

retrievalVars == <<query, index, lists, fused, answer, at, files, late, context, edits>>

Chunks    == Texts \cup Codes
Sources == {DocumentOf[c] : c \in Chunks}
FileStates == {"same", "changed", "gone", "not_utf8"}
Elements(s) == {s[i] : i \in 1 .. Len(s)}
Place(s, c) == CHOOSE i \in 1 .. Len(s) : s[i] = c
Lists(S, n) == UNION {{s \in [1 .. m -> S] : \A i, j \in 1 .. m : s[i] = s[j] => i = j} : m \in 0 .. n}
Orders(S)   == {s \in Lists(S, Cardinality(S)) : Len(s) = Cardinality(S)}
Top(s, n)   == IF Len(s) <= n THEN s ELSE SubSeq(s, 1, n)
\* the sequence of S in an order, a set of pairs
Sorted(S, order) ==
    [i \in 1 .. Cardinality(S) |-> CHOOSE c \in S : Cardinality({d \in S : <<d, c>> \in order}) = i - 1]
\* the members of s that are in S, in their order
Only(s, S) ==
    LET upTo[i \in 0 .. Len(s)] ==
          IF i = 0 THEN <<>> ELSE IF s[i] \in S THEN Append(upTo[i - 1], s[i]) ELSE upTo[i - 1]
    IN upTo[Len(s)]
Total(s) ==
    LET upTo[i \in 0 .. Len(s)] == IF i = 0 THEN 0 ELSE upTo[i - 1] + s[i] IN upTo[Len(s)]

-----------------------------------------------------------------------------
(* The route of a query, from its shape, its scope and the hints in it      *)

Shapes == [exact : BOOLEAN, scope : SUBSET {"code", "text"}, snippet : BOOLEAN, hints : SUBSET {"code", "text", "implementation"}]
CodeHint(q) == q.snippet \/ "code" \in q.hints \/ ("implementation" \in q.hints /\ "text" \notin q.hints)
Scoped(s) == IF s = {"code", "text"} THEN "HYBRID" ELSE IF s = {"code"} THEN "CODE" ELSE "TEXT"
Route(q) ==
    IF q.exact THEN "LEXICAL_ONLY"
    ELSE IF q.scope # {} THEN Scoped(q.scope)
    ELSE Scoped((IF CodeHint(q) THEN {"code"} ELSE {}) \cup (IF "text" \in q.hints THEN {"text"} ELSE {}))

\* filter: a path filter; semantic: an executor is registered; cross: the experiment
Queries == [route : {Route(q) : q \in Shapes}, top : TopKs, filter : BOOLEAN, semantic : BOOLEAN,
            cross : BOOLEAN, pinned : BOOLEAN]
AnyQuery == [route |-> "TEXT", top |-> CHOOSE n \in TopKs : TRUE, filter |-> FALSE, semantic |-> TRUE,
             cross |-> FALSE, pinned |-> FALSE]
RetrievalInit ==
    /\ query \in Queries /\ (query.cross \/ query.pinned => query.semantic)
    /\ index = 1 /\ lists = <<>> /\ fused = <<>> /\ answer = <<>> /\ at = "lexical"
    /\ files = [d \in Sources |-> "same"] /\ late = {}
    /\ context = [left |-> <<>>, served |-> {}, strict |-> FALSE] /\ edits = 0

RetrievalTypeOK ==
    /\ query.route \in {"LEXICAL_ONLY", "HYBRID", "CODE", "TEXT"} /\ query.top \in TopKs
    /\ index \in 1 .. 2 /\ edits \in 0 .. MaxEdits
    /\ at \in {"lexical", "vectors", "code", "fuse", "answered", "failed", "context", "served", "refused"}
    /\ \A i \in 1 .. Len(lists) : lists[i].version \in 1 .. 2 /\ Elements(lists[i].found) \subseteq Chunks
    /\ Elements(answer) \subseteq Elements(fused) \cup UNION {Elements(lists[i].found) : i \in 1 .. Len(lists)}
    /\ files \in [Sources -> FileStates] /\ late \subseteq Sources

Semantic == query.semantic /\ query.route # "LEXICAL_ONLY"
Wanted   == IF query.cross THEN 32 ELSE query.top
Reads    == UNCHANGED <<query, fused, files, late, context, edits>>
Serves   == UNCHANGED <<query, index, lists, fused, answer>>
Collect(version, found) == lists' = Append(lists, [version |-> version, found |-> found])

-----------------------------------------------------------------------------
(* The rankings                                                             *)

\* search_lexical_ranked: the chunks with the exact phrase, filled up with those that have words
\* of it, none twice; LIKE does not tell the case of letters apart
LexicalScope == IF query.filter THEN Inside \cup Folded ELSE Chunks
Lexical ==
    /\ at = "lexical"
    /\ \E found \in Lists(LexicalScope, Min({Wanted, Cardinality(LexicalScope)})) :
          /\ Collect(index, found)
          /\ IF Semantic THEN at' = "vectors" /\ UNCHANGED answer
             ELSE at' = "answered" /\ answer' = Top(found, query.top)
    /\ UNCHANGED index /\ Reads

\* Faulty variant: the path filter is applied to the nearest few.
SearchLimitAlways(collection) == Wanted

\* search_text_vector and search_code_vector: Qdrant knows no substrings, so that with a path
\* filter the whole collection is asked for, nearest first
SearchLimit(collection) == IF query.filter THEN Cardinality(collection) ELSE Wanted
PathMatches(c) == query.filter => c \in Inside
VectorSearch(order, collection) ==
    Top(Only(Top(order, SearchLimit(collection)), {c \in collection : PathMatches(c)}), Wanted)
\* the vectors are opened once, after SQLite
Opened == IF Len(lists) = 1 \/ query.pinned THEN IF query.pinned THEN lists[1].version ELSE index
          ELSE lists[2].version
TextVectors ==
    /\ at = "vectors" /\ at' = "code"
    /\ IF query.route \in {"TEXT", "HYBRID"}
       THEN \E order \in Orders(Texts) : Collect(Opened, VectorSearch(order, Texts))
       ELSE UNCHANGED lists
    /\ UNCHANGED <<index, answer>> /\ Reads
CodeVectors ==
    /\ at = "code" /\ at' = "fuse"
    /\ IF query.route \in {"CODE", "HYBRID"} \/ query.cross
       THEN \E order \in Orders(Codes) : Collect(Opened, VectorSearch(order, Codes))
       ELSE UNCHANGED lists
    /\ UNCHANGED <<index, answer>> /\ Reads

-----------------------------------------------------------------------------
(* Fusion, deduplication, reranking                                         *)

Found(c) == {i \in 1 .. Len(lists) : c \in Elements(lists[i].found)}
Candidates == {c \in Chunks : Found(c) # {}}
PlaceIn(i, c) == Place(lists[i].found, c)
\* reciprocal_rank_fusion
K == 60
Score(c) == Total([i \in 1 .. Len(lists) |-> IF i \in Found(c) THEN Scale \div (K + PlaceIn(i, c)) ELSE 0])
BestRank(c) == Min({PlaceIn(i, c) : i \in Found(c)})
FusedBefore(c, d) ==
    \/ Score(c) > Score(d)
    \/ Score(c) = Score(d) /\ BestRank(c) < BestRank(d)
    \/ Score(c) = Score(d) /\ BestRank(c) = BestRank(d) /\ c < d
FusedOrder == {p \in Candidates \X Candidates : FusedBefore(p[1], p[2])}
MetadataOf(c, version) == IF c \in Moved THEN version ELSE 1
Conflicting(c) == \E i, j \in Found(c) : MetadataOf(c, lists[i].version) # MetadataOf(c, lists[j].version)
FuseLimit == Max({FuseFloor, 3 * query.top})
\* deduplicate_hits: a candidate that is like one already kept is dropped
Duplicate(kept, c) == \E i \in 1 .. Len(kept) : <<kept[i], c>> \in Alike
Deduplicated(s) ==
    LET kept[n \in 0 .. Len(s)] ==
            IF n = 0 THEN <<>>
            ELSE IF Duplicate(kept[n - 1], s[n]) THEN kept[n - 1] ELSE Append(kept[n - 1], s[n])
    IN kept[Len(s)]
Fuse ==
    /\ at = "fuse" /\ ~query.cross
    /\ IF \E c \in Candidates : Conflicting(c)
       THEN at' = "failed" /\ UNCHANGED <<fused, answer>>
       ELSE /\ fused' = Top(Sorted(Candidates, FusedOrder), FuseLimit)
            /\ at' = "answered"
            /\ answer' = Top(Deduplicated(fused'), query.top)
    /\ UNCHANGED <<query, index, lists, files, late, context, edits>>

\* rerank_documents: a document's later chunks in a list count less, its best placed stands for it
RerankK == 10
Earlier(i, c) == {d \in Elements(lists[i].found) : DocumentOf[d] = DocumentOf[c] /\ PlaceIn(i, d) <= PlaceIn(i, c)}
Share(i, c) == (Scale \div (RerankK + PlaceIn(i, c))) \div Cardinality(Earlier(i, c))
ShareOf(d, i) ==
    LET found == lists[i].found
    IN Total([k \in 1 .. Len(found) |-> IF DocumentOf[found[k]] = d THEN Share(i, found[k]) ELSE 0])
DocumentScore(d) == Total([i \in 1 .. Len(lists) |-> ShareOf(d, i)])
DocumentBefore(d, f) ==
    LET first  == DocumentScore(d)
        second == DocumentScore(f)
    IN first > second \/ (first = second /\ d < f)
FoundDocuments == {DocumentOf[c] : c \in Candidates}
DocumentOrder == {p \in FoundDocuments \X FoundDocuments : DocumentBefore(p[1], p[2])}
FirstList(c) == Min({i \in Found(c) : PlaceIn(i, c) = BestRank(c)})
Represents(d) ==
    CHOOSE c \in Candidates : DocumentOf[c] = d /\ \A o \in Candidates : DocumentOf[o] = d =>
        BestRank(c) < BestRank(o) \/ (BestRank(c) = BestRank(o) /\ FirstList(c) <= FirstList(o))
Best ==
    LET order == Sorted(FoundDocuments, DocumentOrder)
    IN Top([i \in 1 .. Len(order) |-> Represents(order[i])], query.top)
\* validate_scoped_results: a lexical hit that matches the filter but for the case of its letters
\* fails the whole search
Rerank ==
    /\ at = "fuse" /\ query.cross
    /\ LET best == Best IN
          IF \A c \in Elements(best) : PathMatches(c)
          THEN at' = "answered" /\ answer' = best
          ELSE at' = "failed" /\ UNCHANGED answer
    /\ UNCHANGED <<query, index, lists, fused, files, late, context, edits>>

-----------------------------------------------------------------------------
(* get_context for some of the results                                      *)

Stale(d) == files[d] \in {"changed", "gone"}
\* the request carries the ids alone, nothing of the query is left; what has become of the files meanwhile is
\* anything.  It is strict if it names the project's root, which by default it does not, and allows nothing stale
AskContext(chunks, root, allowStale) ==
    /\ at = "answered" /\ chunks # <<>> /\ at' = "context"
    /\ context' = [left |-> chunks, served |-> {}, strict |-> root /\ ~allowStale]
    /\ files' \in [Sources -> FileStates] /\ late' = {d \in Sources : files'[d] \in {"changed", "gone"}}
    /\ query' = AnyQuery /\ lists' = <<>> /\ fused' = <<>> /\ answer' = <<>>
    /\ UNCHANGED <<index, edits>>
\* get_context looks at the file only with a root (the chunks have a path and a digest, as every chunk that
\* is indexed from a file); evaluate_source_staleness: one that cannot be decoded is of unknown freshness
CheckSelected ==
    /\ at = "context" /\ context.left # <<>>
    /\ LET c == Head(context.left) IN
          IF Stale(DocumentOf[c]) /\ context.strict
          THEN at' = "refused" /\ UNCHANGED context
          ELSE /\ context' = [context EXCEPT !.left = Tail(@), !.served = @ \cup {c}]
               /\ at' = IF Tail(context.left) = <<>> THEN "served" ELSE at
    /\ Serves /\ UNCHANGED <<files, late, edits>>

\* a publication replaces the index; a file is edited, removed, or put back as it was
Republish ==
    /\ index = 1 /\ index' = 2 /\ at \in {"lexical", "vectors"}
    /\ UNCHANGED <<query, lists, fused, answer, at, files, late, context, edits>>
EditFile(d, state) ==
    /\ edits < MaxEdits /\ state # files[d] /\ at = "context"
    /\ files' = [files EXCEPT ![d] = state] /\ edits' = edits + 1
    /\ late' = IF state \in {"same", "not_utf8"} THEN late \ {d} ELSE late
    /\ UNCHANGED <<query, index, lists, fused, answer, at, context>>

RetrievalNext ==
    \/ Lexical \/ TextVectors \/ CodeVectors \/ Fuse \/ Rerank \/ CheckSelected \/ Republish
    \/ \E root, allowStale \in BOOLEAN : AskContext(answer, root, allowStale)
    \/ \E d \in Sources, state \in FileStates : EditFile(d, state)

RetrievalSpec == RetrievalInit /\ [][RetrievalNext]_retrievalVars

-----------------------------------------------------------------------------
(* A chunk that stands before another in every ranking that found the other comes before *)
(* it in the fused ranking: fusion contradicts no unanimous verdict.                     *)
Dominates(c, d) == \A i \in Found(d) : i \in Found(c) /\ PlaceIn(i, c) < PlaceIn(i, d)
FusionIsMonotone ==
    \A c, d \in Elements(fused) : c # d /\ Dominates(c, d) => Place(fused, c) < Place(fused, d)

(* No two results are near duplicates, and whatever ranked above a result and is not one *)
(* itself is a near duplicate of a better result: nothing is lost to deduplication.      *)
AnswerIsDeduplicated ==
    at = "answered" /\ fused # <<>> =>
        /\ \A c, d \in Elements(answer) : c # d => <<c, d>> \notin Alike
        /\ \A i \in 1 .. Len(fused) : \A c \in Elements(answer) :
              i < Place(fused, c) /\ fused[i] \notin Elements(answer) =>
                  \E d \in Elements(answer) : Place(fused, d) < i /\ <<d, fused[i]>> \in Alike

(* A vector search that answers with fewer results than were asked for has found every   *)
(* chunk of its collection that is inside the path filter.                               *)
FilteredSearchIsComplete ==
    \A i \in 2 .. Len(lists) : Len(lists[i].found) < Wanted =>
        \E collection \in {Texts, Codes} :
            Elements(lists[i].found) = {c \in collection : PathMatches(c)}

(* A context that was asked for with the project's root and not allowed to be stale      *)
(* serves no chunk of a file that differed from the index, readably, from the moment it  *)
(* was asked for until it was served.  Without a root stale chunks are served.           *)
ContextIsCurrent ==
    at = "served" /\ context.strict => \A c \in context.served : DocumentOf[c] \notin late
=============================================================================
