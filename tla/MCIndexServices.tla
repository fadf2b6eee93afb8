---------------------------- MODULE MCIndexServices ----------------------------
(* The services that build, replace and search an index on small instances.   *)
(* They share no state with each other here: a behaviour is one of a single   *)
(* service, the part, while the others rest in an initial state.  Two of them *)
(* that name a variable alike have it prefixed.                               *)
EXTENDS Naturals, Sequences, FiniteSets, TLC

CONSTANTS
    Absent,
    MaxStarts, MaxCalls, MaxOutages, MaxInstalls,                        \* ModelRuntime
    Docs, Texture, Empty, Baseline, MaxEdited, MaxBreaks,                \* StagedIndex
    Documents, ProjectOf, Words, MaxRow, MaxPurges,                      \* LexicalStore
    Generations, First, Writers, Readers, NoOne, MaxWrites,              \* TestGenerations
    Workers, Targets, Items, MaxAttempts, MaxRuns, MaxDeaths,            \* UpdateRecovery
    Paths, Contents, Versions, MaxChanges, MaxFaults,                    \* IncrementalFiles
    Texts, Codes, DocumentOf, Alike, Inside, Folded, Moved, TopKs,       \* Retrieval
    FuseFloor, Scale, MaxEdits,
    LineKinds, MaxLines, MostLines, OverlapLines, OverlapShare, Lookahead \* Chunking

ASSUME ServicesAssumption ==
    /\ First \subseteq Generations /\ First # {} /\ NoOne \notin Writers \cup Workers
    /\ MaxAttempts \in Nat /\ MaxStarts \in Nat
    /\ \E content \in Texture : content # Empty
    /\ \A content \in Contents : Len(content) \in Nat
    /\ \E n \in {Len(content) : content \in Contents} : \A content \in Contents : Len(content) <= n
    /\ Texts \cup Codes \subseteq Nat /\ IsFiniteSet(Texts) /\ IsFiniteSet(Codes)
    /\ Inside \cup Folded \subseteq Texts \cup Codes /\ \A c \in Texts \cup Codes : DocumentOf[c] \in Nat
    /\ \A c, d \in Texts \cup Codes : <<c, d>> \in Alike => <<d, c>> \in Alike
    /\ TopKs \subseteq Nat /\ TopKs # {} /\ FuseFloor \in Nat /\ Scale \in Nat /\ MaxEdits \in Nat

VARIABLES
    part,      \* the service whose behaviour it is
    life, alive, stubborn, started, activeModel, call, modelAnswer, target, partial, install, calls,
    origin, build, staged, merge, merged, publish, active, aside, incoming, effort,
    documents, chunks, symbols, fts, projected, points, entries, purge,
    pointer, transition, present, valid, backups, publication, retiring, writer, reader, meddled, writes,
    detached, place, journal, ledger, pending, holder, worker, overlapped, verifiers, begun, faults,
    source, version, manifest, vectors, cache, work, torn, spent,
    query, index, lists, fused, answer, at, files, late, context, edits,
    language, text, phase, drafts, overlap

Model   == INSTANCE ModelRuntime WITH active <- activeModel, answer <- modelAnswer, spent <- calls,
                                      MaxFaults <- MaxOutages
Staging == INSTANCE StagedIndex WITH source <- origin, Contents <- Texture, MaxChanges <- MaxEdited,
                                     MaxFaults <- MaxBreaks
Lexical == INSTANCE LexicalStore WITH vectors <- points, manifest <- entries
Tests   == INSTANCE TestGenerations WITH journal <- transition
Recovery == INSTANCE UpdateRecovery WITH MaxFaults <- MaxDeaths
Files   == INSTANCE IncrementalFiles
Search  == INSTANCE Retrieval
Cutting == INSTANCE Chunking WITH at <- phase

Braced(tag, braces, semi) == [tag |-> tag, braces |-> braces, semicolon |-> semi]
\* A line is what the chunker of its language tells apart: a marker in a log, braces and a
\* first semicolon in a language with braces, an indentation in Python.
ASSUME LinesAssumption ==
    /\ MostLines \in Nat \ {0} /\ OverlapLines \in Nat /\ OverlapShare \in Nat \ {0} /\ Lookahead \in Nat
    /\ \A l \in DOMAIN LineKinds : MaxLines[l] \in Nat
    /\ \A l \in DOMAIN LineKinds \ {"log"} : \A line \in LineKinds[l] : line.tag \notin {"section", "error", "event"}
    /\ \A l \in DOMAIN LineKinds \cap {"python"} : \A line \in LineKinds[l] : line.depth \in Nat
    /\ \A l \in DOMAIN LineKinds \ {"log", "markdown", "python", "other"} : \A line \in LineKinds[l] :
          /\ line = Braced(line.tag, line.braces, line.semicolon)
          /\ line.braces \in Seq({"open", "close"})
          /\ line.tag \in {"empty", "spaces"} => line.braces = <<>>

models      == <<life, alive, stubborn, started, activeModel, call, modelAnswer, target, partial,
                 install, calls>>
staging     == <<origin, build, staged, merge, merged, publish, active, aside, incoming, effort>>
lexical     == <<documents, chunks, symbols, fts, projected, points, entries, purge>>
tests       == <<pointer, transition, present, valid, backups, publication, retiring, writer, reader,
                 meddled, writes>>
recovery    == <<detached, place, journal, ledger, pending, holder, worker, overlapped, verifiers,
                 begun, faults>>
incremental == <<source, version, manifest, vectors, cache, work, torn, spent>>
retrieval   == <<query, index, lists, fused, answer, at, files, late, context, edits>>
chunking    == <<language, text, phase, drafts, overlap>>
vars == <<part, models, staging, lexical, tests, recovery, incremental, retrieval, chunking>>

AnyOf(S) == CHOOSE x \in S : TRUE

\* The parts that rest stay in one of their initial states.
Init ==
    /\ part \in {"models", "staging", "lexical", "tests", "recovery", "incremental", "retrieval",
                 "chunking"}
    /\ Model!ModelInit /\ Lexical!StoreInit
    /\ Staging!IndexInit /\ (part # "staging" => active = Staging!NoIndex)
    /\ pointer \in (IF part = "tests" THEN First ELSE {AnyOf(First)}) /\ Tests!GenerationInit
    /\ detached \in (IF part = "recovery" THEN BOOLEAN ELSE {TRUE}) /\ Recovery!RecoveryInit
    /\ source \in (IF part = "incremental" THEN [Paths -> Contents] ELSE {[p \in Paths |-> AnyOf(Contents)]})
    /\ version \in (IF part = "incremental" THEN Versions ELSE {AnyOf(Versions)}) /\ Files!FilesInit
    /\ query \in (IF part = "retrieval" THEN Search!Queries ELSE {Search!AnyQuery}) /\ Search!RetrievalInit
    /\ language \in (IF part = "chunking" THEN DOMAIN LineKinds ELSE {AnyOf(DOMAIN LineKinds)})
    /\ Cutting!ChunkInit

Next ==
    /\ UNCHANGED part
    /\ \/ /\ part = "models" /\ Model!ModelNext
          /\ UNCHANGED <<staging, lexical, tests, recovery, incremental, retrieval, chunking>>
       \/ /\ part = "staging" /\ Staging!IndexNext
          /\ UNCHANGED <<models, lexical, tests, recovery, incremental, retrieval, chunking>>
       \/ /\ part = "lexical" /\ Lexical!StoreNext
          /\ UNCHANGED <<models, staging, tests, recovery, incremental, retrieval, chunking>>
       \/ /\ part = "tests" /\ Tests!GenerationNext
          /\ UNCHANGED <<models, staging, lexical, recovery, incremental, retrieval, chunking>>
       \/ /\ part = "recovery" /\ Recovery!RecoveryNext
          /\ UNCHANGED <<models, staging, lexical, tests, incremental, retrieval, chunking>>
       \/ /\ part = "incremental" /\ Files!FilesNext
          /\ UNCHANGED <<models, staging, lexical, tests, recovery, retrieval, chunking>>
       \/ /\ part = "retrieval" /\ Search!RetrievalNext
          /\ UNCHANGED <<models, staging, lexical, tests, recovery, incremental, chunking>>
       \/ /\ part = "chunking" /\ Cutting!ChunkNext
          /\ UNCHANGED <<models, staging, lexical, tests, recovery, incremental, retrieval>>

Spec == Init /\ [][Next]_vars

-----------------------------------------------------------------------------
\* One model's process runs at a time, what was released is gone, and only a
\* whole file is ever taken for a model.
ModelsAreExclusive ==
    part = "models" =>
        Model!ModelTypeOK /\ Model!OneModelRuns /\ Model!ReleasedMeansGone /\ Model!OnlyWholeModels

\* A manifest names only what is embedded, in the staged index and in the
\* incremental one; publishing never loses the index in use, and merging keeps
\* the other documents.
IndexesAreWhole ==
    /\ part = "staging" =>
          /\ Staging!IndexTypeOK /\ Staging!ManifestMeansWhole
          /\ Staging!IndexInUseSurvives /\ Staging!MergeKeepsTheRest
    /\ part = "incremental" => Files!FilesTypeOK /\ Files!NamedChunksAreEmbedded

\* A lexical search finds the rows that are there, under their own words, and
\* deleting a project takes its own rows, vectors and entries and no others.
LexicalIsExact ==
    /\ [](part = "lexical" => Lexical!StoreTypeOK /\ Lexical!SearchIsExact)
    /\ Lexical!PurgeIsExact

\* The generation a test reader searches exists, and an interrupted switch of
\* the test generations can be decided.
TestGenerationsAreSafe ==
    part = "tests" =>
        Tests!GenerationTypeOK /\ Tests!GenerationInUseExists /\ Tests!PendingIsDecidable

\* A recovery of the update that is recorded as verified has put everything back,
\* and only one run records it.
RecoveryIsTrue ==
    part = "recovery" =>
        Recovery!RecoveryTypeOK /\ Recovery!VerifiedIsRestored /\ Recovery!OneRunVerifies

\* A search ranks, filters and deduplicates as promised, whatever index it meets,
\* and context that names the project's root is served from files as they were indexed.
RetrievalIsExact ==
    part = "retrieval" =>
        /\ Search!RetrievalTypeOK /\ Search!FusionIsMonotone /\ Search!AnswerIsDeduplicated
        /\ Search!FilteredSearchIsComplete /\ Search!ContextIsCurrent

\* The chunks of a file cover its lines once and say truly where they are from.
ChunksAreExact ==
    part = "chunking" =>
        /\ Cutting!ChunkTypeOK /\ Cutting!EveryLineIsIndexedOnce /\ Cutting!RangesAreExact
        /\ Cutting!HeadingPathEncloses /\ Cutting!OverlapStaysInSection
        /\ Cutting!UnitsHaveSymbols

-----------------------------------------------------------------------------
(* Values of the constants                                                   *)

OneEach == "d1" :> "p" @@ "d2" :> "q"
TwoContents == {<<"x">>, <<"x", "y">>}
TwoOfEach == <<1, 1, 2, 2>>
Resemblance == {<<1, 3>>, <<3, 1>>, <<3, 4>>, <<4, 3>>}

Tagged(tags) == {[tag |-> t] : t \in tags}
Indented(tag, d) == [tag |-> tag, depth |-> d]
Kinds ==
    [log |-> Tagged({"empty", "spaces", "text", "section", "error"}),
     markdown |-> Tagged({"empty", "text", "h1", "h2", "h3", "rule", "fence", "tilde"}),
     python |-> {Indented("empty", 0), Indented("class", 0), Indented("def", 0), Indented("text", 0),
                 Indented("class", 1), Indented("def", 1), Indented("text", 1), Indented("@", 1),
                 Indented("text", 2), Indented("constant", 1)},
     braces |-> {Braced("empty", <<>>, "none"), Braced("class", <<"open">>, "none"),
                 Braced("class", <<>>, "none"), Braced("call", <<"open">>, "none"),
                 Braced("call", <<"open", "close">>, "none"), Braced("control", <<"open">>, "none"),
                 Braced("punctuation", <<"close">>, "none"), Braced("arrow", <<>>, "first"),
                 Braced("function", <<"open", "close">>, "none"), Braced("text", <<>>, "first"),
                 Braced("comment opens", <<>>, "none"), Braced("comment closes", <<>>, "none")},
     other |-> Tagged({"empty", "spaces", "text"})]
Lengths == [log |-> 5, markdown |-> 4, python |-> 4, braces |-> 4, other |-> 5]
=============================================================================
