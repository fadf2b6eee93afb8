--------------------------- MODULE TestGenerations ---------------------------
(***************************************************************************)
(* Versioned generations of the index under a test root: the pointer to the *)
(* active one, the journal of a transition, publication with a verified     *)
(* backup, activation, restore, recovery and retirement, and the readers    *)
(* that pin a generation (src/rag/runtime/generation_*.py).                 *)
(*                                                                         *)
(* Locks are byte ranges that fail at once when they are held; the system   *)
(* takes them back when their process ends.  A writer's checks under the    *)
(* publication lock are one step with what they guard; the pointer and the  *)
(* journal are replaced in steps of their own, and any step may be the last *)
(* one.  Who retires a generation removes its folder while it has the lock: *)
(* the code offers the lock for that and removes nothing itself.            *)
(***************************************************************************)
EXTENDS Naturals, FiniteSets

CONSTANTS Generations, \* names of generations
          First,       \* the ones that exist in the beginning
          Writers,     \* processes that publish, activate, restore, recover, retire
          Readers,     \* searches
          NoOne,       \* no process, no journal
          MaxWrites    \* bound: operations the writers begin

VARIABLES
    pointer,     \* active-generation.json
    journal,     \* transition-pending.json: previous and candidate, or NoOne
    present,     \* folders under generations/
    valid,       \* those validate_incremental_bundle accepts
    backups,     \* verified backups
    publication, \* who has the lock of the publication
    retiring,    \* generations locked exclusively
    writer,      \* what each writer does
    reader,      \* where each reader is and the generation it resolved
    meddled,     \* a restore or a retirement took place since the journal was written
    writes       \* operations begun (bound)

generationVars == <<pointer, journal, present, valid, backups, publication,
                    retiring, writer, reader, meddled, writes>>

Resting == [at |-> "idle", previous |-> NoOne, candidate |-> NoOne]
Away    == [at |-> "idle", generation |-> NoOne]

GenerationInit ==
    /\ pointer \in First /\ journal = NoOne
    /\ present = First /\ valid = First /\ backups = {}
    /\ publication = NoOne /\ retiring = {}
    /\ writer = [w \in Writers |-> Resting] /\ reader = [r \in Readers |-> Away]
    /\ meddled = FALSE /\ writes = 0

GenerationTypeOK ==
    /\ pointer \in Generations /\ present \subseteq Generations /\ valid \subseteq present
    /\ \/ journal = NoOne
       \/ journal \in [previous : Generations, candidate : Generations]
    /\ backups \subseteq Generations /\ retiring \subseteq Generations
    /\ publication \in Writers \cup {NoOne} /\ meddled \in BOOLEAN
    /\ \A w \in Writers : writer[w].at \in {"idle", "copy", "prepare", "publish", "switched",
                                            "restored", "recovered", "retire"}
    /\ \A r \in Readers : reader[r].at \in {"idle", "resolve", "lock", "again", "look", "read"}

SharedOn(g) == \/ \E r \in Readers : reader[r].at \in {"again", "look", "read"} /\ reader[r].generation = g
               \/ \E w \in Writers : writer[w].at = "copy" /\ writer[w].previous = g

WriterAt(w, step, p, c) == writer' = [writer EXCEPT ![w] = [at |-> step, previous |-> p, candidate |-> c]]
WriterGoes(w, step)     == WriterAt(w, step, writer[w].previous, writer[w].candidate)
Return(w)               == writer' = [writer EXCEPT ![w] = Resting]
Release(w)              == publication' = NoOne /\ Return(w)
Begins(w) == writer[w].at = "idle" /\ writes < MaxWrites /\ writes' = writes + 1
Takes(w)  == publication = NoOne /\ publication' = w
Files     == <<present, valid, backups>>
Pending   == journal # NoOne

-----------------------------------------------------------------------------
(* publish_with_verified_backup: the first look and the backup are outside    *)
(* the lock of the publication; preparing and switching take it one after     *)
(* the other.                                                                 *)

PublishBegins(w, p, c) ==
    /\ Begins(w) /\ ~Pending /\ pointer = p
    /\ p \notin backups /\ p \notin retiring        \* backups are never overwritten
    /\ WriterAt(w, "copy", p, c)
    /\ UNCHANGED <<pointer, journal, publication, retiring, reader, meddled>> /\ UNCHANGED Files

BackupIsMade(w) ==
    /\ writer[w].at = "copy" /\ writer[w].previous \in valid
    /\ backups' = backups \cup {writer[w].previous}
    /\ WriterGoes(w, "prepare")
    /\ UNCHANGED <<pointer, journal, present, valid, publication, retiring, reader, meddled, writes>>

\* Faulty variant: generations are not validated again.
ValidatedOnce(w) == TRUE

Validated(w) == {writer[w].previous, writer[w].candidate} \subseteq valid

PrepareTransition(w) ==
    /\ writer[w].at = "prepare" /\ publication = NoOne
    /\ ~Pending /\ pointer = writer[w].previous /\ pointer # writer[w].candidate /\ Validated(w)
    /\ journal' = [previous |-> writer[w].previous, candidate |-> writer[w].candidate]
    /\ meddled' = FALSE
    /\ WriterGoes(w, "publish")
    /\ UNCHANGED <<pointer, publication, retiring, reader, writes>> /\ UNCHANGED Files

StillOurs(w) == /\ Pending /\ pointer = writer[w].previous /\ Validated(w)
                /\ journal.previous = writer[w].previous /\ journal.candidate = writer[w].candidate

PublishSwitches(w) ==
    /\ writer[w].at = "publish" /\ Takes(w) /\ StillOurs(w)
    /\ pointer' = writer[w].candidate
    /\ WriterGoes(w, "switched")
    /\ UNCHANGED <<journal, retiring, reader, meddled, writes>> /\ UNCHANGED Files

PublishEnds(w) ==
    /\ writer[w].at = "switched" /\ writer[w].candidate \in valid
    /\ journal' = NoOne /\ Release(w)
    /\ UNCHANGED <<pointer, retiring, reader, meddled, writes>> /\ UNCHANGED Files

-----------------------------------------------------------------------------
(* The other operations on the pointer.                                       *)

\* activate_test_generation asks for the files, not whether they validate
Activate(w, g) ==
    /\ Begins(w) /\ publication = NoOne /\ ~Pending /\ g \in present
    /\ pointer' = g
    /\ UNCHANGED <<journal, publication, retiring, writer, reader, meddled>> /\ UNCHANGED Files

\* restore_test_generation validates both generations and does not look at the journal
RestoreSwitches(w, g) ==
    /\ Begins(w) /\ Takes(w) /\ {g, pointer} \subseteq valid
    /\ pointer' = g /\ meddled' = TRUE
    /\ WriterAt(w, "restored", pointer, g)
    /\ UNCHANGED <<journal, retiring, reader>> /\ UNCHANGED Files

RestoreEnds(w) ==
    /\ writer[w].at = "restored" /\ Release(w)
    /\ UNCHANGED <<pointer, journal, retiring, reader, meddled, writes>> /\ UNCHANGED Files

\* a failure after the switch puts the previous one back
RestoreRollsBack(w) ==
    /\ writer[w].at = "restored" /\ writer[w].previous \in valid
    /\ pointer' = writer[w].previous /\ Release(w)
    /\ UNCHANGED <<journal, retiring, reader, meddled, writes>> /\ UNCHANGED Files

Recoverable == /\ {journal.previous, journal.candidate} \subseteq valid
               /\ pointer \in {journal.previous, journal.candidate}

\* recover_pending_transition: always back to the previous generation
RecoverSwitches(w) ==
    /\ Begins(w) /\ Takes(w) /\ Pending /\ Recoverable
    /\ pointer' = journal.previous
    /\ WriterAt(w, "recovered", journal.previous, journal.candidate)
    /\ UNCHANGED <<journal, retiring, reader, meddled>> /\ UNCHANGED Files

RecoverEnds(w) ==
    /\ writer[w].at = "recovered" /\ journal' = NoOne /\ Release(w)
    /\ UNCHANGED <<pointer, retiring, reader, meddled, writes>> /\ UNCHANGED Files

\* protected_generation_retirement: both locks, and never the active one
RetireBegins(w, g) ==
    /\ Begins(w) /\ g \in present /\ Takes(w) /\ ~SharedOn(g) /\ pointer # g
    /\ retiring' = retiring \cup {g}
    /\ WriterAt(w, "retire", NoOne, g)
    /\ UNCHANGED <<pointer, journal, reader, meddled>> /\ UNCHANGED Files

RetireRemoves(w) ==
    /\ writer[w].at = "retire"
    /\ present' = present \ {writer[w].candidate} /\ valid' = valid \ {writer[w].candidate}
    /\ retiring' = retiring \ {writer[w].candidate} /\ meddled' = TRUE /\ Release(w)
    /\ UNCHANGED <<pointer, journal, backups, reader, writes>>

\* restore_verified_backup_as_test_copy: a backup under a name that is free
RestoreCopy(w, g) ==
    /\ Begins(w) /\ publication = NoOne /\ ~Pending
    /\ g \notin present /\ backups # {}
    /\ present' = present \cup {g} /\ valid' = valid \cup {g}
    /\ UNCHANGED <<pointer, journal, backups, publication, retiring, writer, reader, meddled>>

\* prepare_versioned_generation takes no lock; a failure leaves the folder where it is
PrepareGeneration(w, g, sound) ==
    /\ Begins(w) /\ g \notin present
    /\ present' = present \cup {g} /\ valid' = IF sound THEN valid \cup {g} ELSE valid
    /\ UNCHANGED <<pointer, journal, backups, publication, retiring, writer, reader, meddled>>

\* an operation raises, or its process ends: what is on disk stays as it is
Stops(w) ==
    /\ writer[w].at # "idle" /\ Return(w)
    /\ publication' = IF publication = w THEN NoOne ELSE publication
    /\ retiring' = IF writer[w].at = "retire" THEN retiring \ {writer[w].candidate} ELSE retiring
    /\ UNCHANGED <<pointer, journal, reader, meddled, writes>> /\ UNCHANGED Files

-----------------------------------------------------------------------------
(* isolated_generation_search_paths over protected_generation_read.           *)

ReaderAt(r, step, g) ==
    /\ reader' = [reader EXCEPT ![r] = [at |-> step, generation |-> g]]
    /\ UNCHANGED <<pointer, journal, publication, retiring, writer, meddled, writes>> /\ UNCHANGED Files

ReaderBegins(r)  == reader[r].at = "idle" /\ ~Pending /\ ReaderAt(r, "resolve", NoOne)
Resolve(r)       == reader[r].at = "resolve" /\ pointer \in present /\ ReaderAt(r, "lock", pointer)
ReaderLocks(r)   == /\ reader[r].at = "lock" /\ reader[r].generation \notin retiring
                    /\ ReaderAt(r, "again", reader[r].generation)
ReaderIsBusy(r)  == reader[r].at = "lock" /\ reader[r].generation \in retiring /\ ReaderAt(r, "resolve", NoOne)
\* the pointer is resolved once more under the lock
ResolveAgain(r)  == /\ reader[r].at = "again"
                    /\ IF pointer = reader[r].generation THEN ReaderAt(r, "look", pointer)
                       ELSE ReaderAt(r, "resolve", NoOne)
ReaderLooks(r)   == reader[r].at = "look" /\ ~Pending /\ ReaderAt(r, "read", reader[r].generation)
ReaderLeaves(r)  == reader[r].at # "idle" /\ ReaderAt(r, "idle", NoOne)

Read(r) == \/ ReaderBegins(r) \/ Resolve(r) \/ ReaderLocks(r) \/ ReaderIsBusy(r)
           \/ ResolveAgain(r) \/ ReaderLooks(r) \/ ReaderLeaves(r)

Publish(w) == \/ \E p, c \in Generations : PublishBegins(w, p, c)
              \/ BackupIsMade(w) \/ PrepareTransition(w) \/ PublishSwitches(w) \/ PublishEnds(w)

Operate(w) == \/ RestoreEnds(w) \/ RestoreRollsBack(w) \/ RecoverSwitches(w) \/ RecoverEnds(w)
              \/ RetireRemoves(w) \/ Stops(w)
              \/ \E g \in Generations : \/ Activate(w, g) \/ RestoreSwitches(w, g)
                                        \/ RetireBegins(w, g) \/ RestoreCopy(w, g)
                                        \/ \E sound \in BOOLEAN : PrepareGeneration(w, g, sound)

GenerationNext == (\E w \in Writers : Publish(w) \/ Operate(w)) \/ \E r \in Readers : Read(r)
GenerationSpec == GenerationInit /\ [][GenerationNext]_generationVars

-----------------------------------------------------------------------------
\* What is being read, and what the pointer names, is there: a reader resolves again
\* under its lock and a publication validates again under its own, because a
\* retirement may take place in between (generation_protected_session.py,
\* generation_journaled_publish.py).
GenerationInUseExists ==
    /\ pointer \in present
    /\ \A r \in Readers : reader[r].at = "read" => reader[r].generation \in present

\* A transition that was interrupted can be recovered: the pointer is one of the two
\* generations of its journal and both validate.  Only a restore and a retirement,
\* which do not look at the journal, may take that away
\* (generation_transition_journal.py, generation_activation.py).
PendingIsDecidable == Pending /\ ~meddled => Recoverable
=============================================================================
