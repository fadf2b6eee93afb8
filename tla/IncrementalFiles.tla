--------------------------- MODULE IncrementalFiles ---------------------------
(***************************************************************************)
(* Incremental indexing of single files: the manifest on disk               *)
(* (src/rag/index/manifest.py), the operations that bring one file's entry  *)
(* up to date (incremental.py), the identity of chunks and vectors          *)
(* (vector_ids.py), the upsert of vectors and the embedding of chunks       *)
(* through the persistent cache (src/rag/models/embedding.py,               *)
(* src/rag/index/embedding_cache.py).                                       *)
(*                                                                         *)
(* The operations are a library: they return a manifest and leave it to     *)
(* their caller to save it and to delete the retired chunks.  The caller    *)
(* here runs one operation at a time, saves after each and deletes what was *)
(* retired last; it may die, and a callback may raise, at every step.  The  *)
(* sources change at any time.  A content is a sequence of pieces, each of  *)
(* which becomes a chunk; its digest is the content itself.                 *)
(***************************************************************************)
EXTENDS Naturals, Sequences

CONSTANTS Paths,         \* files of the project
          Contents,      \* what a file may hold: sequences of pieces
          Versions,      \* versions of the embedding model
          Absent,        \* no such file, entry, vector or row
          MaxChanges,    \* bound: changes of files and of the model's version
          MaxFaults      \* bound: operations that fail, processes that die, rows that are damaged

VARIABLES
    source,      \* the files
    version,     \* the version of the model that is installed
    manifest,    \* the manifest on disk: the entry of a path
    vectors,     \* the collection: the vector of a chunk, which model made it of which piece
    cache,       \* the embedding cache: a row for a namespace and a piece
    work,        \* the operation that runs
    torn,        \* entries whose vectors were deleted by an operation that then broke off
    spent        \* changes and faults so far

filesVars == <<source, version, manifest, vectors, cache, work, torn, spent>>

Pieces == UNION {{c[i] : i \in 1 .. Len(c)} : c \in Contents}
Longest == CHOOSE n \in {Len(c) : c \in Contents} : \A c \in Contents : Len(c) <= n
\* deterministic_chunk_id: the document (its path), the ordinal and the content
ChunkIds == Paths \X (1 .. Longest) \X Pieces
ChunksOf(p, content) == {<<p, i, content[i]>> : i \in 1 .. Len(content)}
Vector(chunk, v) == [piece |-> chunk[3], version |-> v]
Unusable == [piece |-> Absent, version |-> Absent]
Idle == [at |-> "idle", path |-> Absent, digest |-> Absent, chunks |-> {}, left |-> {}, previous |-> {}]

FilesInit ==
    /\ source \in {[p \in Paths |-> content] : content \in Contents} /\ version \in Versions
    /\ manifest = [p \in Paths |-> Absent]
    /\ vectors = [c \in ChunkIds |-> Absent]
    /\ cache = [v \in Versions |-> [piece \in Pieces |-> Absent]]
    /\ work = Idle /\ torn = {} /\ spent = [changes |-> 0, faults |-> 0]

Indexed == {p \in Paths : manifest[p] # Absent}
Stale   == {p \in Indexed : manifest[p].version # version}
FilesTypeOK ==
    /\ source \in [Paths -> Contents \cup {Absent}] /\ version \in Versions /\ torn \subseteq Paths
    /\ \A p \in Indexed : /\ manifest[p].digest \in Contents /\ manifest[p].version \in Versions
                           /\ manifest[p].chunks \subseteq ChunkIds
    /\ \A c \in ChunkIds : vectors[c] \in {Absent, Unusable} \cup [piece : Pieces, version : Versions]
    /\ cache \in [Versions -> [Pieces -> {Absent, "whole", "damaged"}]]
    /\ work.at \in {"idle", "rechunk", "reembed", "upsert", "retire", "remove", "invalidate"}

Stores  == <<manifest, vectors, cache>>
World   == <<source, version, spent>>
Fault   == spent.faults < MaxFaults /\ spent' = [spent EXCEPT !.faults = @ + 1] /\ UNCHANGED <<source, version>>
Change  == spent.changes < MaxChanges /\ spent' = [spent EXCEPT !.changes = @ + 1]

\* save_index_manifest writes another file and renames it: the old manifest or the new one
Save(entries) == manifest' = [p \in Paths |-> IF p \in DOMAIN entries THEN entries[p] ELSE manifest[p]]
Delete(chunks) == vectors' = [c \in ChunkIds |-> IF c \in chunks THEN Absent ELSE vectors[c]]

-----------------------------------------------------------------------------
(* A changed file, or one without an entry                                  *)

\* capture_source_file_snapshot and the checks of reconcile_existing_file; an unchanged
\* digest ends it there
MayReconcile(p) == p \notin Stale
Capture(p) ==
    /\ work.at = "idle" /\ source[p] # Absent /\ MayReconcile(p)
    /\ p \in Indexed => manifest[p].digest # source[p]
    /\ work' = [Idle EXCEPT !.at = "rechunk", !.path = p, !.digest = source[p],
                            !.previous = IF p \in Indexed THEN manifest[p].chunks ELSE {}]
    /\ UNCHANGED <<Stores, World, torn>>

\* the callback that splits the file has its name, not what was read: it reads it again
Rechunk ==
    /\ work.at = "rechunk" /\ source[work.path] # Absent
    /\ LET chunks == ChunksOf(work.path, source[work.path]) IN
          work' = [work EXCEPT !.at = "reembed", !.chunks = chunks, !.left = chunks]
    /\ UNCHANGED <<Stores, World, torn>>

\* embed_document_chunks_cached: TextEmbeddingCache.get refuses a row whose digest is wrong
Readable(row) == row # "damaged"
Namespace == version
Cached(piece) == cache[Namespace][piece]
FromCache(c) == IF Cached(c[3]) = "whole" THEN Vector(c, Namespace) ELSE Unusable
Upsert(c, vector) ==
    /\ vectors' = [vectors EXCEPT ![c] = vector]
    /\ work' = [work EXCEPT !.left = @ \ {c}, !.at = IF work.left = {c} THEN "upsert" ELSE @]
Hit(c) ==
    /\ work.at = "reembed" /\ c \in work.left /\ Cached(c[3]) # Absent /\ Readable(Cached(c[3]))
    /\ Upsert(c, FromCache(c))
    /\ UNCHANGED <<manifest, cache, World, torn>>
\* the request to the model and the row that put commits
Miss(c) ==
    /\ work.at = "reembed" /\ c \in work.left /\ Cached(c[3]) = Absent
    /\ cache' = [cache EXCEPT ![Namespace][c[3]] = "whole"]
    /\ Upsert(c, Vector(c, version))
    /\ UNCHANGED <<manifest, World, torn>>

\* manifest.upsert, and what the caller does with the outcome
Retired == work.previous \ work.chunks
Upserted ==
    /\ work.at = "upsert"
    /\ Save([p \in {work.path} |-> [digest |-> work.digest, chunks |-> work.chunks, version |-> version]])
    /\ work' = [work EXCEPT !.at = "retire"] /\ torn' = torn \ {work.path}
    /\ UNCHANGED <<vectors, cache, World>>
Retire ==
    /\ work.at = "retire" /\ Delete(Retired) /\ work' = Idle
    /\ UNCHANGED <<manifest, cache, World, torn>>

-----------------------------------------------------------------------------
(* remove_missing_file and invalidate_model_version: the chunks, then the entries *)

Missing(p) == source[p] = Absent
Remove(p) ==
    /\ work.at = "idle" /\ p \in Indexed /\ Missing(p)
    /\ Delete(manifest[p].chunks)
    /\ work' = [Idle EXCEPT !.at = "remove", !.path = p, !.left = {p}]
    /\ UNCHANGED <<manifest, cache, World, torn>>
Invalidate(p) ==
    /\ work.at \in {"idle", "invalidate"} /\ p \in Stale \ work.left
    /\ Delete(manifest[p].chunks)
    /\ work' = [Idle EXCEPT !.at = "invalidate", !.left = work.left \cup {p}]
    /\ UNCHANGED <<manifest, cache, World, torn>>
Removed ==
    /\ work.at \in {"remove", "invalidate"} /\ (work.at = "invalidate" => Stale \subseteq work.left)
    /\ Save([p \in work.left |-> Absent])
    /\ torn' = torn \ work.left /\ work' = Idle
    /\ UNCHANGED <<vectors, cache, World>>

-----------------------------------------------------------------------------
(* What happens to them                                                     *)

\* A callback raises, the manifest cannot be saved, the file is gone, a row is refused,
\* or the process dies.  (A refused row needs no fault of its own: it was damaged.)
Refused == work.at = "reembed" /\ \E c \in work.left : ~Readable(Cached(c[3]))
BreaksOff ==
    /\ work.at # "idle"
    /\ \/ Fault
       \/ (Refused \/ (work.at = "rechunk" /\ source[work.path] = Absent)) /\ UNCHANGED World
    /\ torn' = IF work.at \in {"remove", "invalidate"} THEN torn \cup work.left ELSE torn
    /\ work' = Idle /\ UNCHANGED Stores
\* a row of the cache is damaged outside of the program
Damage(v, piece) ==
    /\ cache[v][piece] = "whole" /\ Fault /\ cache' = [cache EXCEPT ![v][piece] = "damaged"]
    /\ UNCHANGED <<manifest, vectors, work, torn>>
Edit(p, content) ==
    /\ content # source[p] /\ Change /\ source' = [source EXCEPT ![p] = content]
    /\ UNCHANGED <<Stores, version, work, torn>>
\* another version of the program brings another model; operations do not span it
OtherModel(v) ==
    /\ work.at = "idle" /\ v # version /\ Change /\ version' = v
    /\ UNCHANGED <<Stores, source, work, torn>>

FilesNext ==
    \/ \E p \in Paths : Capture(p) \/ Remove(p) \/ Invalidate(p)
    \/ Rechunk \/ Upserted \/ Retire \/ Removed \/ BreaksOff
    \/ \E c \in work.left : work.at = "reembed" /\ (Hit(c) \/ Miss(c))
    \/ \E p \in Paths, content \in Contents \cup {Absent} : Edit(p, content)
    \/ \E v \in Versions : OtherModel(v) \/ \E piece \in Pieces : Damage(v, piece)

FilesSpec == FilesInit /\ [][FilesNext]_filesVars

-----------------------------------------------------------------------------
(* A chunk that the manifest names has, while no removal is under way, a vector, made of *)
(* that chunk's text by the version of the model that the entry records: the search      *)
(* never compares vectors of two models and misses no chunk.  Exempt are the entries     *)
(* whose chunks were deleted by an operation that then broke off: they are removed again,*)
(* unless the file or the model's former version comes back first.                       *)
NamedChunksAreEmbedded ==
    \A p \in Indexed \ (torn \cup work.left) :
        \A c \in manifest[p].chunks : vectors[c] = Vector(c, manifest[p].version)
=============================================================================
