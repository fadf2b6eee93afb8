-------------------------- MODULE ProductionTransition --------------------------
(***************************************************************************)
(* The switch of the production RAG index between the legacy index and a   *)
(* versioned generation (rag/runtime/production_generation_transition.py), *)
(* the drivers that release or try a generation and roll it back           *)
(* (author_mcp/v1_incremental_release.py and                               *)
(* v1_incremental_supervised_live_trial.py), and the readers: requests of  *)
(* the MCP server and the semantic worker process each may start           *)
(* (author_mcp/rag_bridge.py, rag/runtime/v1_semantic_worker.py).          *)
(*                                                                         *)
(* The files survive a crash; the byte locks do not, the operating system  *)
(* takes them from a process that dies.  A step of a driver is what happens *)
(* between two file writes, each of which is atomic (os.replace, unlink).  *)
(* The lock is never waited for: whoever finds it taken raises.            *)
(*                                                                         *)
(* The gate that decides whether a candidate may be published             *)
(* (production_supervised_trial.py) compares evidence of many kinds; here  *)
(* it may refuse at any time, and passes only if the parts of it that read *)
(* the files above let it.                                                 *)
(***************************************************************************)
EXTENDS Naturals, FiniteSets, TLC

CONSTANTS
    Candidates, \* versioned generations
    Sound,      \* those whose bundle passes the verification after the switch
    Drivers,    \* operator processes
    Requests,   \* requests the MCP server can work on at a time
    Faults,     \* which failures can happen
    MaxFaults,  \* bound on how often drivers fail
    Legacy,     \* no active-generation.json
    None

FaultKinds == {"raise", "driver_crash", "mcp_crash"}

ASSUME SoundAssumption == Sound \subseteq Candidates
ASSUME FaultsAssumption == Faults \subseteq FaultKinds /\ MaxFaults \in Nat
ASSUME NamesAssumption ==
    /\ Legacy \notin Candidates /\ None \notin Candidates /\ Legacy # None
    /\ None \notin Drivers /\ None \notin Requests

VARIABLES
    pointer,   \* active-generation.json
    journal,   \* production-generation-transition.json: its candidate, or None
    archived,  \* candidates with a recovered-pointer-<candidate>.json
    verified,  \* history: candidates that passed the verification after a switch
    writer,    \* driver that holds the generation lock exclusively
    step,      \* driver -> where it stands
    goal,      \* driver -> "release", "trial" or "reconcile"
    subject,   \* driver -> its candidate
    verdict,   \* driver -> what it reported last
    pin,       \* request -> generation it holds the shared lock on, or None
    searcher,  \* request -> state of the semantic worker it started
    wpin,      \* request -> generation that worker holds the shared lock on
    semantic,  \* request that holds the semantic lock
    faults     \* failures of drivers so far

files      == <<pointer, journal, archived, verified>>
drivers    == <<writer, step, goal, subject, verdict>>
readers    == <<pin, searcher, wpin, semantic>>
transition == <<files, drivers, readers, faults>>

Generations == Candidates \cup {Legacy}

Unlocked == {"idle", "publish", "prove", "decide", "look", "rollback", "revert", "prove_legacy"}
Locked   == {"journal", "switch", "verify", "commit", "rv_journal", "archive", "unlink"}

TypeOK ==
    /\ pointer \in Generations
    /\ journal \in Candidates \cup {None}
    /\ archived \subseteq Candidates
    /\ verified \subseteq Candidates
    /\ writer \in Drivers \cup {None}
    /\ step \in [Drivers -> Unlocked \cup Locked]
    /\ goal \in [Drivers -> {"release", "trial", "reconcile"}]
    /\ subject \in [Drivers -> Candidates \cup {None}]
    /\ verdict \in [Drivers -> {"none", "active", "legacy", "critical"}]
    /\ pin \in [Requests -> Generations \cup {None}]
    /\ searcher \in [Requests -> {"none", "started", "searching", "ended", "collected"}]
    /\ wpin \in [Requests -> Generations \cup {None}]
    /\ semantic \in Requests \cup {None}
    /\ faults \in Nat

TransitionInit ==
    /\ pointer = Legacy /\ journal = None
    /\ archived = {} /\ verified = {}
    /\ writer = None
    /\ step = [d \in Drivers |-> "idle"]
    /\ goal = [d \in Drivers |-> "reconcile"]
    /\ subject = [d \in Drivers |-> None]
    /\ verdict = [d \in Drivers |-> "none"]
    /\ pin = [r \in Requests |-> None]
    /\ searcher = [r \in Requests |-> "none"]
    /\ wpin = [r \in Requests |-> None]
    /\ semantic = None
    /\ faults = 0

\* production_generation_lock(exclusive=True) would be granted.
LockIsFree ==
    /\ writer = None
    /\ \A r \in Requests : pin[r] = None /\ wpin[r] = None

Goto(d, where) == step' = [step EXCEPT ![d] = where]

\* A driver leaves the lock, or never had it.
Release(d) == writer' = IF writer = d THEN None ELSE writer

Report(d, what) ==
    /\ Goto(d, "idle")
    /\ verdict' = [verdict EXCEPT ![d] = what]

-----------------------------------------------------------------------------
(* The driver: preflight, publish, prove. *)

\* Without the lock: neither pointer nor journal nor archived pointer is there.
Prepare(d, g, c) ==
    /\ step[d] = "idle"
    /\ g \in {"release", "trial"}
    /\ pointer = Legacy /\ journal = None /\ c \notin archived
    /\ Goto(d, "publish")
    /\ goal' = [goal EXCEPT ![d] = g]
    /\ subject' = [subject EXCEPT ![d] = c]
    /\ verdict' = [verdict EXCEPT ![d] = "none"]
    /\ UNCHANGED <<files, writer, readers, faults>>

\* Faulty variant: the gate does not look for an archived pointer.
AdmitConsumed(d) ==
    /\ step[d] = "publish"
    /\ LockIsFree
    /\ pointer = Legacy /\ journal = None
    /\ writer' = d
    /\ Goto(d, "journal")
    /\ UNCHANGED <<files, goal, subject, verdict, readers, faults>>

\* publish_validated_generation: the gate is evaluated again under the lock.
Admit(d) ==
    /\ step[d] = "publish"
    /\ LockIsFree
    /\ pointer = Legacy /\ journal = None /\ subject[d] \notin archived
    /\ writer' = d
    /\ Goto(d, "journal")
    /\ UNCHANGED <<files, goal, subject, verdict, readers, faults>>

\* The lock is taken, or the gate refuses.
Refused(d) ==
    /\ step[d] = "publish"
    /\ Goto(d, "decide")
    /\ UNCHANGED <<files, writer, goal, subject, verdict, readers, faults>>

\* Faulty variant: the journal names what was active before.
JournalPrevious(d) ==
    /\ step[d] = "journal"
    /\ journal' = pointer
    /\ Goto(d, "switch")
    /\ UNCHANGED <<pointer, archived, verified, writer, goal, subject, verdict, readers, faults>>

WriteJournal(d) ==
    /\ step[d] = "journal"
    /\ journal' = subject[d]
    /\ Goto(d, "switch")
    /\ UNCHANGED <<pointer, archived, verified, writer, goal, subject, verdict, readers, faults>>

SwitchPointer(d) ==
    /\ step[d] = "switch"
    /\ pointer' = subject[d]
    /\ Goto(d, "verify")
    /\ UNCHANGED <<journal, archived, verified, writer, goal, subject, verdict, readers, faults>>

\* Faulty variant: the bundle is not looked at.
SkipVerification(d) ==
    /\ step[d] = "verify"
    /\ Goto(d, "commit")
    /\ UNCHANGED <<files, writer, goal, subject, verdict, readers, faults>>

VerifyTarget(d) ==
    /\ step[d] = "verify"
    /\ subject[d] \in Sound
    /\ verified' = verified \cup {subject[d]}
    /\ Goto(d, "commit")
    /\ UNCHANGED <<pointer, journal, archived, writer, goal, subject, verdict, readers, faults>>

\* The verification of an unsound bundle raises.
VerificationFails(d) ==
    /\ step[d] = "verify"
    /\ subject[d] \notin Sound
    /\ Release(d)
    /\ Goto(d, "decide")
    /\ UNCHANGED <<files, goal, subject, verdict, readers, faults>>

Commit(d) ==
    /\ step[d] = "commit"
    /\ journal' = None
    /\ Release(d)
    /\ Goto(d, "prove")
    /\ UNCHANGED <<pointer, archived, verified, goal, subject, verdict, readers, faults>>

\* Queries through the public MCP server.  A trial goes back whatever they say.
ProveCandidate(d) ==
    /\ step[d] = "prove"
    /\ pointer = subject[d] /\ journal = None
    /\ IF goal[d] = "release" THEN Report(d, "active")
                              ELSE Goto(d, "decide") /\ UNCHANGED verdict
    /\ UNCHANGED <<files, writer, goal, subject, readers, faults>>

CandidateDisproved(d) ==
    /\ step[d] = "prove"
    /\ Goto(d, "decide")
    /\ UNCHANGED <<files, writer, goal, subject, verdict, readers, faults>>

-----------------------------------------------------------------------------
(* Rollback: of a pending transition, or of a completed one. *)

\* Two files are looked at, one after the other and without the lock.
Decide(d) ==
    /\ step[d] = "decide"
    /\ Goto(d, IF journal # None THEN "rollback" ELSE "look")
    /\ UNCHANGED <<files, writer, goal, subject, verdict, readers, faults>>

Look(d) ==
    /\ step[d] = "look"
    /\ Goto(d, IF pointer # Legacy THEN "revert" ELSE "prove_legacy")
    /\ UNCHANGED <<files, writer, goal, subject, verdict, readers, faults>>

\* An operator calls rollback_pending_to_legacy after a crash.
Reconcile(d, c) ==
    /\ step[d] = "idle"
    /\ journal = c
    /\ Goto(d, "rollback")
    /\ goal' = [goal EXCEPT ![d] = "reconcile"]
    /\ subject' = [subject EXCEPT ![d] = c]
    /\ verdict' = [verdict EXCEPT ![d] = "none"]
    /\ UNCHANGED <<files, writer, readers, faults>>

\* Faulty variant: expects the pointer to be switched still.
MayRollbackSwitched(d) ==
    /\ LockIsFree
    /\ journal = subject[d]
    /\ pointer = subject[d] /\ subject[d] \notin archived

\* rollback_pending_to_legacy finds its journal and a pointer it may move.
MayRollback(d) ==
    /\ LockIsFree
    /\ journal = subject[d]
    /\ pointer = Legacy \/ (pointer = subject[d] /\ subject[d] \notin archived)

Rollback(d) ==
    /\ step[d] = "rollback"
    /\ MayRollback(d)
    /\ writer' = d
    /\ Goto(d, IF pointer = Legacy THEN "unlink" ELSE "archive")
    /\ UNCHANGED <<files, goal, subject, verdict, readers, faults>>

RollbackRefused(d) ==
    /\ step[d] = "rollback"
    /\ ~MayRollback(d)
    /\ Report(d, "critical")
    /\ UNCHANGED <<files, writer, goal, subject, readers, faults>>

\* revert_active_to_legacy, whose verification of the legacy index may refuse.
MayRevert(d) ==
    /\ LockIsFree
    /\ journal = None
    /\ pointer = subject[d] /\ subject[d] \notin archived

Revert(d) ==
    /\ step[d] = "revert"
    /\ MayRevert(d)
    /\ writer' = d
    /\ Goto(d, "rv_journal")
    /\ UNCHANGED <<files, goal, subject, verdict, readers, faults>>

\* Faulty variant: the refusal is swallowed.
RevertIgnored(d) ==
    /\ step[d] = "revert"
    /\ Report(d, "legacy")
    /\ UNCHANGED <<files, writer, goal, subject, readers, faults>>

RevertRefused(d) ==
    /\ step[d] = "revert"
    /\ Report(d, "critical")
    /\ UNCHANGED <<files, writer, goal, subject, readers, faults>>

JournalRevert(d) ==
    /\ step[d] = "rv_journal"
    /\ journal' = subject[d]
    /\ Goto(d, "archive")
    /\ UNCHANGED <<pointer, archived, verified, writer, goal, subject, verdict, readers, faults>>

\* Faulty variant: the pointer is deleted, not kept.
DeletePointer(d) ==
    /\ step[d] = "archive"
    /\ pointer' = Legacy
    /\ Goto(d, "unlink")
    /\ UNCHANGED <<journal, archived, verified, writer, goal, subject, verdict, readers, faults>>

\* One os.replace: the pointer becomes the archived pointer.
ArchivePointer(d) ==
    /\ step[d] = "archive"
    /\ pointer' = Legacy
    /\ archived' = archived \cup {pointer}
    /\ Goto(d, "unlink")
    /\ UNCHANGED <<journal, verified, writer, goal, subject, verdict, readers, faults>>

Unlink(d) ==
    /\ step[d] = "unlink"
    /\ journal' = None
    /\ Release(d)
    /\ Goto(d, IF goal[d] = "reconcile" THEN "idle" ELSE "prove_legacy")
    /\ UNCHANGED <<pointer, archived, verified, goal, subject, verdict, readers, faults>>

ProveLegacy(d) ==
    /\ step[d] = "prove_legacy"
    /\ pointer = Legacy /\ journal = None
    /\ Report(d, "legacy")
    /\ UNCHANGED <<files, writer, goal, subject, readers, faults>>

LegacyDisproved(d) ==
    /\ step[d] = "prove_legacy"
    /\ Report(d, "critical")
    /\ UNCHANGED <<files, writer, goal, subject, readers, faults>>

-----------------------------------------------------------------------------
(* Failures of a driver: an exception under the lock, or the process dies.   *)

Fail(kind) ==
    /\ kind \in Faults /\ faults < MaxFaults
    /\ faults' = faults + 1

Raise(d) ==
    /\ Fail("raise")
    /\ step[d] \in Locked
    /\ Release(d)
    /\ IF step[d] \in {"journal", "switch", "verify", "commit"}
         THEN Goto(d, "decide") /\ UNCHANGED verdict
         ELSE Report(d, "critical")
    /\ UNCHANGED <<files, goal, subject, readers>>

DriverDies(d) ==
    /\ Fail("driver_crash")
    /\ step[d] # "idle"
    /\ Release(d)
    /\ Goto(d, "idle")
    /\ UNCHANGED <<files, goal, subject, verdict, readers>>

-----------------------------------------------------------------------------
(* Readers.  production_generation_read(): the shared lock, then the journal, *)
(* then the pointer; nothing can change between, so it is one step.           *)

\* Faulty variant: reads the pointer without looking for a journal.
MayReadPending == writer = None

MayRead == writer = None /\ journal = None

StartRead(r) ==
    /\ pin[r] = None /\ searcher[r] = "none"
    /\ MayRead
    /\ pin' = [pin EXCEPT ![r] = pointer]
    /\ UNCHANGED <<files, drivers, searcher, wpin, semantic, faults>>

\* Faulty variant: the worker is started without the semantic lock.
StartWorkerUnlocked(r) ==
    /\ pin[r] # None /\ searcher[r] = "none"
    /\ semantic' = r
    /\ searcher' = [searcher EXCEPT ![r] = "started"]
    /\ UNCHANGED <<files, drivers, pin, wpin, faults>>

\* The semantic lock is polled; the worker is a process of its own.
StartWorker(r) ==
    /\ pin[r] # None /\ searcher[r] = "none"
    /\ semantic = None
    /\ semantic' = r
    /\ searcher' = [searcher EXCEPT ![r] = "started"]
    /\ UNCHANGED <<files, drivers, pin, wpin, faults>>

WorkerPins(r) ==
    /\ searcher[r] = "started"
    /\ MayRead
    /\ wpin' = [wpin EXCEPT ![r] = pointer]
    /\ searcher' = [searcher EXCEPT ![r] = "searching"]
    /\ UNCHANGED <<files, drivers, pin, semantic, faults>>

\* It answers, fails, or is killed after its timeout; nobody collects the
\* answer of a worker whose server died.
WorkerEnds(r) ==
    /\ searcher[r] \in {"started", "searching"}
    /\ searcher' = [searcher EXCEPT ![r] = IF semantic = r THEN "ended" ELSE "none"]
    /\ wpin' = [wpin EXCEPT ![r] = None]
    /\ UNCHANGED <<files, drivers, pin, semantic, faults>>

CollectWorker(r) ==
    /\ searcher[r] = "ended"
    /\ semantic' = None
    /\ searcher' = [searcher EXCEPT ![r] = "collected"]
    /\ UNCHANGED <<files, drivers, pin, wpin, faults>>

FinishRead(r) ==
    /\ pin[r] # None /\ searcher[r] \in {"none", "collected"}
    /\ pin' = [pin EXCEPT ![r] = None]
    /\ searcher' = [searcher EXCEPT ![r] = "none"]
    /\ UNCHANGED <<files, drivers, wpin, semantic, faults>>

\* The MCP server dies: its locks are freed, its workers search on.
ServerDies ==
    /\ Fail("mcp_crash")
    /\ pin' = [r \in Requests |-> None]
    /\ semantic' = None
    /\ searcher' = [r \in Requests |-> IF searcher[r] \in {"ended", "collected"} THEN "none"
                                                                            ELSE searcher[r]]
    /\ UNCHANGED <<files, drivers, wpin>>

-----------------------------------------------------------------------------
Publish(d) ==
    \/ Admit(d)
    \/ Refused(d)
    \/ WriteJournal(d)
    \/ SwitchPointer(d)
    \/ VerifyTarget(d)
    \/ VerificationFails(d)
    \/ Commit(d)
    \/ ProveCandidate(d)
    \/ CandidateDisproved(d)

GoBack(d) ==
    \/ Decide(d)
    \/ Look(d)
    \/ Rollback(d)
    \/ RollbackRefused(d)
    \/ Revert(d)
    \/ RevertRefused(d)
    \/ JournalRevert(d)
    \/ ArchivePointer(d)
    \/ Unlink(d)
    \/ ProveLegacy(d)
    \/ LegacyDisproved(d)

Reader(r) ==
    \/ StartWorker(r)
    \/ WorkerPins(r)
    \/ WorkerEnds(r)
    \/ CollectWorker(r)
    \/ FinishRead(r)

TransitionNext ==
    \/ \E d \in Drivers, c \in Candidates :
          (\E g \in {"release", "trial"} : Prepare(d, g, c)) \/ Reconcile(d, c)
    \/ \E d \in Drivers : Publish(d) \/ GoBack(d) \/ Raise(d) \/ DriverDies(d)
    \/ \E r \in Requests : StartRead(r) \/ Reader(r)
    \/ ServerDies

Transition == TransitionInit /\ [][TransitionNext]_transition

\* A process that runs goes on, and an operator reconciles what was left
\* pending.  Nobody has to start a read or a release.
TransitionFairness ==
    /\ \A d \in Drivers : WF_transition(Publish(d) \/ GoBack(d))
    /\ \A d \in Drivers : WF_transition(\E c \in Candidates : Reconcile(d, c))
    /\ \A r \in Requests : WF_transition(WorkerEnds(r)) /\ WF_transition(CollectWorker(r))
                           /\ SF_transition(FinishRead(r))

FairTransition == Transition /\ TransitionFairness

-----------------------------------------------------------------------------
\* Whoever reads, reads the generation the pointer names now, no transition is
\* pending, and a generation other than the legacy one has passed its
\* verification: neither a switch nor a crash in the middle of one is seen.
ReadersSeeServedGeneration ==
    \A g \in {pin[r] : r \in Requests} \cup {wpin[r] : r \in Requests} :
        g # None => g = pointer /\ journal = None /\ (g = Legacy \/ g \in verified)

\* A pending journal can always be rolled back: it names the pointer's
\* generation or the pointer is still, or again, legacy; and the archived
\* pointer that rollback would write is not there yet.
PendingIsRecoverable ==
    journal # None =>
        /\ pointer \in {Legacy, journal}
        /\ pointer = journal => journal \notin archived

\* A candidate whose pointer was archived is never active again, however many
\* drivers try, and its archived pointer stays.
ConsumedForGood ==
    [][/\ archived \subseteq archived'
       /\ \A c \in archived : pointer' # c]_transition

\* A candidate that was active and no longer is has left its archived pointer.
NoSwitchWithoutEvidence ==
    [][pointer # Legacy /\ pointer' # pointer =>
          pointer' = Legacy /\ pointer \in archived']_transition

\* What a driver reported last is still so, with a single driver: a release it
\* called active is active, and after a rollback it proved, legacy is.
ReportsAreTrue ==
    \A d \in Drivers :
        /\ verdict[d] = "active" /\ step[d] = "idle" => pointer = subject[d] /\ journal = None
        /\ verdict[d] = "legacy" => pointer = Legacy

\* The vector store is single-process: one worker searches at a time.
OneVectorWorker ==
    \A r, q \in Requests : searcher[r] = "searching" /\ searcher[q] = "searching" => r = q

\* A transition that was interrupted does not stay pending.
PendingIsReconciled == journal # None ~> journal = None

\* The files and locks implement the promise to the readers.
Holders == Requests \X {"request", "worker"}

Service == INSTANCE GenerationService
    WITH Nothing <- None,
         served  <- IF journal = None THEN pointer ELSE None,
         proved  <- verified,
         retired <- archived,
         reads   <- [h \in Holders |-> IF h[2] = "request" THEN pin[h[1]] ELSE wpin[h[1]]]

ImplementsService == Service!Spec

\* Drivers are alike, and so are requests (for TLC).
ProcessSymmetry == Permutations(Drivers) \cup Permutations(Requests)
=============================================================================
