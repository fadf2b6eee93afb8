---------------------------- MODULE LexicalStore ----------------------------
(***************************************************************************)
(* The SQLite index of documents and chunks with the full-text projection   *)
(* its triggers keep (src/rag/index/sqlite_schema.py, fts5.py, searched by  *)
(* lexical_search.py), and the deletion of a project from all the stores    *)
(* that hold something of it (purge.py, manifest.py, vector_namespace.py).  *)
(*                                                                         *)
(* A chunk is a row of rag_chunks; the projection is keyed by that row's    *)
(* number, which SQLite hands out again once the last row is deleted.  What *)
(* a row is found by is the word of its content and those of its symbols.   *)
(* A statement and its triggers are one step; a transaction that rolls back *)
(* undoes both together.                                                    *)
(***************************************************************************)
EXTENDS Naturals, FiniteSets

CONSTANTS Documents,   \* documents, each of one project
          ProjectOf,   \* the project of each
          Words,       \* what chunks and symbols may be found by
          MaxRow,      \* bound: row numbers of rag_chunks
          MaxPurges    \* bound: deletions of a project that are tried

VARIABLES
    documents,   \* rag_documents
    chunks,      \* rag_chunks: a document and a word by row number
    symbols,     \* rag_chunk_symbols: row of the chunk and word
    fts,         \* rag_chunks_fts: the words of a row
    projected,   \* initialize_fts5 has created the table and its triggers
    vectors,     \* projects that have points in a collection
    manifest,    \* projects that have entries in the manifest
    purge        \* delete_project_index: project, step, whether it has returned

storeVars == <<documents, chunks, symbols, fts, projected, vectors, manifest, purge>>

Rows        == 1 .. MaxRow
Projects    == {ProjectOf[d] : d \in Documents}
Collections == {"text", "code"}
NoRow       == {}                        \* no such row
Used(table) == {r \in Rows : table[r] # NoRow}
Chunk(d, w) == {[document |-> d, word |-> w]}
Of(r)       == CHOOSE c \in chunks[r] : TRUE

StoreInit ==
    /\ documents = {} /\ symbols = {} /\ projected = FALSE
    /\ chunks = [r \in Rows |-> NoRow] /\ fts = [r \in Rows |-> NoRow]
    /\ vectors = [c \in Collections |-> {}] /\ manifest = {}
    /\ purge = [project |-> CHOOSE p \in Projects : TRUE, at |-> "idle", tries |-> 0]

StoreTypeOK ==
    /\ documents \subseteq Documents /\ symbols \subseteq Rows \X Words
    /\ \A r \in Used(chunks) : Cardinality(chunks[r]) = 1 /\ Of(r).document \in documents
    /\ \A r \in Rows : fts[r] \subseteq Words
    /\ vectors \in [Collections -> SUBSET Projects] /\ manifest \subseteq Projects
    /\ purge.at \in {"idle", "text", "code", "sqlite", "manifest", "done"}

-----------------------------------------------------------------------------
(* What the triggers do to the projection.                                    *)

\* the words a row is found by: of its content and of its symbols
WordsOf(r, table, names) ==
    IF table[r] = NoRow THEN NoRow
    ELSE {c.word : c \in table[r]} \cup {w \in Words : <<r, w>> \in names}

\* rag_chunks_ai_fts, _au_fts and _ad_fts: the row that was written
ChunkTrigger(r, table) == IF projected THEN [fts EXCEPT ![r] = WordsOf(r, table, symbols)] ELSE fts
\* Faulty variant: a symbol that moves leaves the row it was of as it is.
SymbolTriggerOne(touched, names) ==
    LET r0 == CHOOSE r \in touched : TRUE
    IN IF projected THEN [fts EXCEPT ![r0] = WordsOf(r0, chunks, names)] ELSE fts

\* rag_chunk_symbols_ai_fts, _au_fts and _ad_fts: the row of the chunk the symbol is of
SymbolTrigger(touched, names) ==
    IF projected THEN [r \in Rows |-> IF r \in touched THEN WordsOf(r, chunks, names) ELSE fts[r]] ELSE fts

Kept == UNCHANGED <<projected, vectors, manifest, purge>>
Idle == purge.at \in {"idle", "done"}      \* who deletes a project has the stores to itself

InsertDocument(d) ==
    /\ Idle /\ d \notin documents /\ documents' = documents \cup {d}
    /\ UNCHANGED <<chunks, symbols, fts>> /\ Kept

\* a new row takes the number after the largest in use
NextRow == IF Used(chunks) = {} THEN 1 ELSE 1 + CHOOSE r \in Used(chunks) : \A s \in Used(chunks) : s <= r
InsertChunk(d, w) ==
    /\ Idle /\ d \in documents /\ NextRow <= MaxRow
    /\ chunks' = [chunks EXCEPT ![NextRow] = Chunk(d, w)]
    /\ fts' = ChunkTrigger(NextRow, chunks')
    /\ UNCHANGED <<documents, symbols>> /\ Kept

UpdateChunk(r, w) ==
    /\ Idle /\ chunks[r] # NoRow
    /\ chunks' = [chunks EXCEPT ![r] = Chunk(Of(r).document, w)]
    /\ fts' = ChunkTrigger(r, chunks')
    /\ UNCHANGED <<documents, symbols>> /\ Kept

InsertSymbol(r, w) ==
    /\ Idle /\ chunks[r] # NoRow
    /\ symbols' = symbols \cup {<<r, w>>}
    /\ fts' = SymbolTrigger({r}, symbols')
    /\ UNCHANGED <<documents, chunks>> /\ Kept

\* the symbol may be moved to another chunk: both rows are projected again
MoveSymbol(r, s, w) ==
    /\ Idle /\ <<r, w>> \in symbols /\ chunks[s] # NoRow
    /\ symbols' = (symbols \ {<<r, w>>}) \cup {<<s, w>>}
    /\ fts' = SymbolTrigger({r, s}, symbols')
    /\ UNCHANGED <<documents, chunks>> /\ Kept

\* DELETE ... WHERE document_id, with what the foreign keys cascade to
RowsOf(ds) == {r \in Used(chunks) : Of(r).document \in ds}
Without(ds) == [r \in Rows |-> IF r \in RowsOf(ds) THEN NoRow ELSE chunks[r]]
SymbolsWithout(ds) == {s \in symbols : s[1] \notin RowsOf(ds)}
FtsWithout(ds) == IF projected THEN [r \in Rows |-> IF r \in RowsOf(ds) THEN NoRow ELSE fts[r]] ELSE fts

DeleteSymbols(d) ==
    /\ Idle /\ symbols' = SymbolsWithout({d}) /\ symbols' # symbols
    /\ fts' = SymbolTrigger(RowsOf({d}), symbols')
    /\ UNCHANGED <<documents, chunks>> /\ Kept

DeleteRows(ds) == /\ documents' = documents \ ds /\ chunks' = Without(ds)
                  /\ symbols' = SymbolsWithout(ds) /\ fts' = FtsWithout(ds)
DeleteDocument(d) == Idle /\ d \in documents /\ DeleteRows({d}) /\ Kept

\* initialize_fts5 creates what is missing and rebuilds the projection from the tables
InitializeFts5 ==
    /\ Idle /\ projected' = TRUE
    /\ fts' = [r \in Rows |-> WordsOf(r, chunks, symbols)]
    /\ UNCHANGED <<documents, chunks, symbols, vectors, manifest, purge>>

\* an index of the project is put in place, with its points and manifest entries
IndexProject(p) ==
    /\ Idle /\ \E d \in documents : ProjectOf[d] = p
    /\ vectors' = [c \in Collections |-> vectors[c] \cup {p}]
    /\ manifest' = manifest \cup {p}
    /\ purge' = [purge EXCEPT !.at = IF purge.project = p THEN "idle" ELSE @]
    /\ UNCHANGED <<documents, chunks, symbols, fts, projected>>

\* search_lexical: rows that match, joined with their chunks by row number, of the project
Search(p, w) == {r \in Rows : w \in fts[r] /\ \E c \in chunks[r] : ProjectOf[c.document] = p}

-----------------------------------------------------------------------------
(* delete_project_index: vectors of both collections, then the tables, then   *)
(* the manifest; each step may raise and the whole may be tried again.        *)

BeginPurge(p) ==
    /\ Idle /\ purge.tries < MaxPurges
    /\ purge' = [project |-> p, at |-> "text", tries |-> purge.tries + 1]
    /\ UNCHANGED <<documents, chunks, symbols, fts, projected, vectors, manifest>>

PurgeRaises ==
    /\ ~Idle /\ purge' = [purge EXCEPT !.at = "idle"]
    /\ UNCHANGED <<documents, chunks, symbols, fts, projected, vectors, manifest>>

\* by the mandatory namespace filter: collections are shared
PurgeVectors(c) ==
    /\ purge.at = c
    /\ vectors' = [vectors EXCEPT ![c] = @ \ {purge.project}]
    /\ purge' = [purge EXCEPT !.at = IF c = "text" THEN "code" ELSE "sqlite"]
    /\ UNCHANGED <<documents, chunks, symbols, fts, projected, manifest>>

PurgeTables ==
    /\ purge.at = "sqlite"
    /\ DeleteRows({d \in documents : ProjectOf[d] = purge.project})
    /\ purge' = [purge EXCEPT !.at = "manifest"]
    /\ UNCHANGED <<projected, vectors, manifest>>

PurgeManifest ==
    /\ purge.at = "manifest"
    /\ manifest' = manifest \ {purge.project}
    /\ purge' = [purge EXCEPT !.at = "done"]
    /\ UNCHANGED <<documents, chunks, symbols, fts, projected, vectors>>

StoreNext ==
    \/ \E d \in Documents : InsertDocument(d) \/ DeleteSymbols(d) \/ DeleteDocument(d)
    \/ \E d \in Documents, w \in Words : InsertChunk(d, w)
    \/ \E r \in Rows, w \in Words : UpdateChunk(r, w) \/ InsertSymbol(r, w)
    \/ \E r, s \in Rows, w \in Words : MoveSymbol(r, s, w)
    \/ InitializeFts5
    \/ \E p \in Projects : IndexProject(p) \/ BeginPurge(p)
    \/ \E c \in Collections : PurgeVectors(c)
    \/ PurgeTables \/ PurgeManifest \/ PurgeRaises

StoreSpec == StoreInit /\ [][StoreNext]_storeVars

-----------------------------------------------------------------------------
\* A search finds exactly the chunks of the project that hold the word, in their
\* content or their symbols, whatever was inserted, replaced and deleted before
\* and although row numbers are used again (fts5.py, lexical_search.py).
SearchIsExact ==
    projected => \A p \in Projects, w \in Words :
        Search(p, w) = {r \in Used(chunks) : /\ ProjectOf[Of(r).document] = p
                                             /\ w = Of(r).word \/ <<r, w>> \in symbols}

\* A deletion that returned has left nothing of the project in any store ...
Gone(p) == /\ \A d \in documents : ProjectOf[d] # p
           /\ \A r \in Used(chunks) : ProjectOf[Of(r).document] # p
           /\ \A c \in Collections : p \notin vectors[c]
           /\ p \notin manifest
\* ... and touched nothing of another (purge.py: "other projects may coexist").
Share(p) == <<{d \in documents : ProjectOf[d] = p},
              {r \in Used(chunks) : ProjectOf[Of(r).document] = p},
              {c \in Collections : p \in vectors[c]}, p \in manifest>>
PurgeIsExact ==
    [][/\ purge.at = "manifest" /\ purge'.at = "done" => Gone(purge.project)'
       /\ ~Idle => \A p \in Projects \ {purge.project} : Share(p)' = Share(p)]_storeVars
=============================================================================
