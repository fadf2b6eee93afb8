----------------------------- MODULE StagedIndex -----------------------------
(***************************************************************************)
(* How an index is built beside the one in use, merged and put in place:    *)
(* build_staged_index (src/rag/runtime/production_index.py) with its        *)
(* manifest (staged_manifest.py), the merge of a delta into a closed        *)
(* baseline (controlled_merge.py, incremental_bundle_stage.py and the three *)
(* stages of SQLite, manifest and Qdrant), the cross-store validation       *)
(* (incremental_bundle_validate.py), the first publication                  *)
(* (production_publish.py) and the rehearsed one with rollback              *)
(* (incremental_offline_publish.py).                                        *)
(*                                                                         *)
(* An index is three stores that must agree: SQLite's documents and chunks, *)
(* the vectors of the chunks, and the manifest.  A store maps a document to *)
(* the content it was made of; chunks and digests are functions of that.    *)
(* Nothing locks the sources: they change at any time.                      *)
(***************************************************************************)
EXTENDS Naturals, FiniteSets

CONSTANTS Docs,         \* documents of the project
          Contents,     \* what a source file may hold
          Empty,        \* content that yields no chunk
          Absent,       \* no such document
          Baseline,     \* documents of the index in use
          MaxChanges,   \* bound: changes of source files
          MaxFaults     \* bound: operations that fail or processes that die

VARIABLES
    source,    \* the source files
    build,     \* the indexing executor: where it is, documents it still has to visit
    staged,    \* its staging directory
    merge,     \* the merge: where it is
    merged,    \* its output directory
    publish,   \* the publisher: where it is
    active,    \* the directory of the index in use
    aside,     \* .rollback: the index that was in use before
    incoming,  \* .incoming or .publishing: the copy that is to be put in place
    effort     \* changes and faults so far

indexVars == <<source, build, staged, merge, merged, publish, active, aside, incoming, effort>>

Stored    == Contents \cup {Absent}
NoStore   == [d \in Docs |-> Absent]
Stores    == {"sqlite", "vectors", "manifest"}
\* a directory: the stores that exist in it, and what each holds
NoIndex   == [has |-> {}, sqlite |-> NoStore, vectors |-> NoStore, manifest |-> NoStore]
VectorsOf(store) == [d \in Docs |-> IF store[d] = Empty THEN Absent ELSE store[d]]
DocumentsIn(store) == {d \in Docs : store[d] # Absent}
Whole(store) == [has |-> Stores, sqlite |-> store, vectors |-> VectorsOf(store), manifest |-> store]

\* what an index has to be: the stores agree document by document
Agrees(index) == /\ index.has = Stores
                 /\ index.manifest = index.sqlite
                 /\ index.vectors = VectorsOf(index.sqlite)

SomeText == CHOOSE c \in Contents : c # Empty
IndexInit ==
    /\ source = [d \in Docs |-> SomeText]
    /\ active \in {NoIndex, Whole([d \in Docs |-> IF d \in Baseline THEN SomeText ELSE Absent])}
    /\ staged = NoIndex /\ merged = NoIndex /\ aside = NoIndex /\ incoming = NoIndex
    /\ build = [at |-> "idle", left |-> {}] /\ merge = [at |-> "idle", strict |-> FALSE] /\ publish = "idle"
    /\ effort = [changes |-> 0, faults |-> 0]

IndexTypeOK ==
    /\ source \in [Docs -> Stored]
    /\ \A index \in {staged, merged, active, aside, incoming} :
          index.has \subseteq Stores /\ {index.sqlite, index.vectors, index.manifest} \subseteq [Docs -> Stored]
    /\ build.at \in {"idle", "read", "embed", "check", "staged"} /\ build.left \subseteq Docs
    /\ merge.at \in {"idle", "sqlite", "manifest", "vectors", "validate", "merged"}
    /\ publish \in {"idle", "compare", "database", "vectors", "manifest", "undo", "published",
                    "set_aside", "activate", "prove", "restore", "died"}

Sources == UNCHANGED <<source, effort>>
Places  == UNCHANGED <<publish, active, aside, incoming>>
Merging == UNCHANGED <<merge, merged>>
Staging == UNCHANGED <<build, staged>>
\* an operation fails, within the bound
Failing == effort.faults < MaxFaults /\ effort' = [effort EXCEPT !.faults = @ + 1] /\ UNCHANGED source

\* a file of the project is edited, emptied, removed or written again
Edit(d, content) ==
    /\ effort.changes < MaxChanges /\ content # source[d]
    /\ source' = [source EXCEPT ![d] = content]
    /\ effort' = [effort EXCEPT !.changes = @ + 1]
    /\ Staging /\ Merging /\ Places

-----------------------------------------------------------------------------
(* build_staged_index *)

BeginBuild(plan) ==
    /\ build.at = "idle" /\ plan # {}
    /\ build' = [at |-> "read", left |-> plan] /\ staged' = NoIndex
    /\ Merging /\ Places /\ Sources

\* whatever raises, the staging directory is removed
GiveUpBuild == build' = [at |-> "idle", left |-> {}] /\ staged' = NoIndex

\* one candidate after the other is read, split and stored; the last commits
ReadCandidate(d) ==
    /\ build.at = "read" /\ d \in build.left
    /\ IF source[d] = Absent THEN GiveUpBuild
       ELSE /\ staged' = [staged EXCEPT !.sqlite[d] = source[d], !.has = {"sqlite"}]
            /\ build' = [at |-> IF build.left = {d} THEN "embed" ELSE "read",
                         left |-> IF build.left = {d} THEN Docs ELSE build.left \ {d}]
    /\ Merging /\ Places /\ Sources

\* _write_vectors embeds the chunks that were stored, which takes minutes
EmbedChunks ==
    /\ build.at = "embed"
    /\ staged' = [staged EXCEPT !.vectors = VectorsOf(staged.sqlite), !.has = @ \cup {"vectors"}]
    /\ build' = IF active.has = {} THEN [at |-> "staged", left |-> {}]
                ELSE [at |-> "check", left |-> DocumentsIn(staged.sqlite)]
    /\ Merging /\ Places /\ Sources

\* create_staged_manifest, if an index is in use: every source is read again
Unchanged(d) == source[d] = staged.sqlite[d]
CheckSource(d) ==
    /\ build.at = "check" /\ d \in build.left
    /\ IF ~Unchanged(d) THEN GiveUpBuild
       ELSE /\ staged' = [staged EXCEPT !.manifest[d] = source[d],
                                        !.has = IF build.left = {d} THEN Stores ELSE @]
            /\ build' = [at |-> IF build.left = {d} THEN "staged" ELSE "check", left |-> build.left \ {d}]
    /\ Merging /\ Places /\ Sources

\* an exception; or the process dies and leaves its directory, which nothing names again
BuildFails == /\ build.at \in {"read", "embed", "check"} /\ GiveUpBuild /\ Failing
              /\ Merging /\ Places

-----------------------------------------------------------------------------
(* stage_incremental_bundle, and merge_closed_bundles which is stricter: one  *)
(* new document with chunks, none that is replaced.                           *)

Validates(index) == Agrees(index)
Replaced  == DocumentsIn(staged.sqlite) \cap DocumentsIn(active.sqlite)
Upsert(old, new) == [d \in Docs |-> IF new[d] # Absent THEN new[d] ELSE old[d]]

BeginMerge(strict) ==
    /\ merge.at = "idle" /\ build.at = "staged" /\ staged.has = Stores /\ publish = "idle"
    /\ strict => /\ Validates(staged) /\ Cardinality(DocumentsIn(staged.sqlite)) = 1
                 /\ DocumentsIn(staged.vectors) # {}
    /\ merge' = [at |-> "sqlite", strict |-> strict] /\ merged' = NoIndex
    /\ Staging /\ Places /\ Sources

GiveUpMerge == merge' = [merge EXCEPT !.at = "idle"] /\ merged' = NoIndex

MergeDocuments ==
    /\ merge.at = "sqlite"
    /\ merged' = [merged EXCEPT !.sqlite = Upsert(active.sqlite, staged.sqlite), !.has = {"sqlite"}]
    /\ merge' = [merge EXCEPT !.at = "manifest"]
    /\ Staging /\ Places /\ Sources

MergeManifest ==
    /\ merge.at = "manifest"
    /\ merged' = [merged EXCEPT !.manifest = Upsert(active.manifest, staged.manifest), !.has = @ \cup {"manifest"}]
    /\ merge' = [merge EXCEPT !.at = "vectors"]
    /\ Staging /\ Places /\ Sources

\* old vectors are deleted for the documents that have new ones
MergeVectors ==
    /\ merge.at = "vectors"
    /\ merged' = [merged EXCEPT !.vectors = Upsert(active.vectors, staged.vectors), !.has = Stores]
    /\ merge' = [merge EXCEPT !.at = "validate"]
    /\ Staging /\ Places /\ Sources

ValidateMerge ==
    /\ merge.at = "validate"
    /\ IF Validates(merged) /\ (merge.strict => Replaced = {})
       THEN merge' = [merge EXCEPT !.at = "merged"] /\ UNCHANGED merged
       ELSE GiveUpMerge
    /\ Staging /\ Places /\ Sources

MergeFails == /\ merge.at \in {"sqlite", "manifest", "vectors", "validate"} /\ GiveUpMerge /\ Failing
              /\ Staging /\ Places

-----------------------------------------------------------------------------
(* publish_staged_index: only where no index is, and the manifest goes last.  *)

Elsewhere == Staging /\ Merging
GoTo(step) == publish' = step

\* validate_staged_index compares the number of vectors with that of chunks
CountsMatch(index) == DocumentsIn(index.vectors) = DocumentsIn(VectorsOf(index.sqlite))

BeginPublish ==
    /\ publish = "idle" /\ build.at = "staged" /\ active.has = {} /\ CountsMatch(staged)
    /\ incoming' = [staged EXCEPT !.manifest = NoStore, !.has = {"sqlite", "vectors"}]
    /\ GoTo("compare") /\ build' = [build EXCEPT !.left = DocumentsIn(staged.sqlite)]
    /\ UNCHANGED <<staged, active, aside>> /\ Merging /\ Sources

\* Faulty variant: only a source that is gone is noticed.
ChangedIfGone(d) == source[d] = Absent

\* the sources are compared once more, one by one, before anything is put in place
Changed(d) == source[d] # incoming.sqlite[d]
CompareSource(d) ==
    /\ publish = "compare" /\ d \in build.left
    /\ IF Changed(d)
       THEN /\ GoTo("idle") /\ incoming' = NoIndex /\ build' = [at |-> "idle", left |-> {}]
       ELSE /\ incoming' = [incoming EXCEPT !.manifest[d] = source[d]]
            /\ build' = [build EXCEPT !.left = @ \ {d}]
            /\ GoTo(IF build.left = {d} THEN "database" ELSE "compare")
    /\ UNCHANGED <<staged, active, aside>> /\ Merging /\ Sources

Place(step, store, next) ==
    /\ publish = step
    /\ active' = [active EXCEPT ![store] = incoming[store], !.has = @ \cup {store}]
    /\ GoTo(next) /\ incoming' = IF next = "published" THEN NoIndex ELSE incoming
    /\ UNCHANGED aside /\ Elsewhere /\ Sources
PlaceDatabase == Place("database", "sqlite", "vectors")
PlaceVectors  == Place("vectors", "vectors", "manifest")
PlaceManifest == Place("manifest", "manifest", "published")

\* what was created is removed in reverse order, so the manifest never outlives its stores
PublishFails == /\ publish \in {"compare", "database", "vectors", "manifest"} /\ Failing
                /\ GoTo("undo") /\ UNCHANGED <<active, aside, incoming>> /\ Elsewhere
Undo == /\ publish = "undo"
        /\ IF "vectors" \in active.has
           THEN active' = [active EXCEPT !.vectors = NoStore, !.has = @ \ {"vectors"}] /\ UNCHANGED <<publish, incoming>>
           ELSE active' = NoIndex /\ GoTo("idle") /\ incoming' = NoIndex
        /\ UNCHANGED aside /\ Elsewhere /\ Sources

-----------------------------------------------------------------------------
(* rehearsal_publish: the index in use is set aside and the copy takes its    *)
(* place; whatever fails, the former comes back.                              *)

BeginRehearsal ==
    /\ publish = "idle" /\ merge.at = "merged" /\ active.has = Stores
    /\ aside.has = {} /\ incoming.has = {} /\ Validates(merged)
    /\ incoming' = merged /\ GoTo("set_aside") /\ UNCHANGED <<active, aside>> /\ Elsewhere /\ Sources

SetAside == /\ publish = "set_aside" /\ aside' = active /\ active' = NoIndex /\ GoTo("activate")
            /\ UNCHANGED incoming /\ Elsewhere /\ Sources
Activate == /\ publish = "activate" /\ active' = incoming /\ incoming' = NoIndex /\ GoTo("prove")
            /\ UNCHANGED aside /\ Elsewhere /\ Sources
Prove == /\ publish = "prove" /\ GoTo(IF Validates(active) THEN "published" ELSE "restore")
         /\ UNCHANGED <<active, aside, incoming>> /\ Elsewhere /\ Sources

RehearsalFails ==
    /\ publish \in {"set_aside", "activate", "prove"} /\ Failing
    /\ IF publish = "set_aside" THEN GoTo("idle") /\ incoming' = NoIndex
                                ELSE GoTo("restore") /\ UNCHANGED incoming
    /\ UNCHANGED <<active, aside>> /\ Elsewhere
\* the failed index, if it is in place, steps back before the former returns
Restore == /\ publish = "restore"
           /\ active' = aside /\ aside' = NoIndex /\ incoming' = NoIndex /\ GoTo("idle")
           /\ Elsewhere /\ Sources

\* the publisher dies between two steps: what it left is for manual inspection
PublisherDies == /\ publish \notin {"idle", "published", "died"} /\ Failing /\ GoTo("died")
                 /\ UNCHANGED <<active, aside, incoming>> /\ Elsewhere

IndexNext ==
    \/ \E d \in Docs, content \in Stored : Edit(d, content)
    \/ \E plan \in SUBSET Docs : BeginBuild(plan)
    \/ \E d \in Docs : ReadCandidate(d) \/ CheckSource(d) \/ CompareSource(d)
    \/ EmbedChunks \/ BuildFails
    \/ \E strict \in BOOLEAN : BeginMerge(strict)
    \/ MergeDocuments \/ MergeManifest \/ MergeVectors \/ ValidateMerge \/ MergeFails
    \/ BeginPublish \/ PlaceDatabase \/ PlaceVectors \/ PlaceManifest \/ PublishFails \/ Undo
    \/ BeginRehearsal \/ SetAside \/ Activate \/ Prove \/ RehearsalFails \/ Restore \/ PublisherDies

IndexSpec == IndexInit /\ [][IndexNext]_indexVars

-----------------------------------------------------------------------------
\* An index whose manifest is in place is one whose stores agree, whatever
\* changed while it was built and wherever a process died
\* (production_publish.py: "manifest goes last, after both stores").
ManifestMeansWhole == "manifest" \in active.has => Agrees(active)

\* The index that was in use is never lost: it is in place, set aside, or was
\* replaced by one that is in place and whole; and a failure brings it back.
IndexInUseSurvives ==
    /\ publish \in {"set_aside", "activate", "prove", "restore"} => Agrees(active) \/ Agrees(aside)
    /\ publish = "died" => \/ Agrees(active) \/ Agrees(aside) \/ aside.has = {}
    /\ publish \in {"idle", "published"} /\ active.has # {} => Agrees(active)

\* What a merge validated holds the delta as it was built, and the rest as it was.
MergeKeepsTheRest ==
    merge.at = "merged" /\ publish = "idle" =>
        /\ Agrees(merged)
        /\ \A d \in Docs : merged.sqlite[d] = IF staged.sqlite[d] # Absent THEN staged.sqlite[d] ELSE active.sqlite[d]
=============================================================================
