---------------------------- MODULE UpdateRecovery ----------------------------
(***************************************************************************)
(* The recovery of an interrupted update (src/installer/rag_p9b_*.py): files *)
(* are put back from a verified snapshot, then shortcuts and registry keys,  *)
(* with an append-only journal, and in the scheduled form at most three      *)
(* attempts that a ledger counts before they begin.  Both coordinators are   *)
(* here: recover_combined_lab, which run_lab_retry schedules, and            *)
(* recover_detached_combined, whose gates may close between any two stages.  *)
(*                                                                         *)
(* A step is one durable write.  A worker may die at any step; what it wrote *)
(* stays, an append it was in leaves a record without its newline, and the   *)
(* ledger it was replacing leaves its .pending file.  Nothing in the code    *)
(* keeps a scheduler from starting a worker while another one runs:          *)
(* `overlapped' remembers that it did.                                       *)
(***************************************************************************)
EXTENDS Naturals, FiniteSets

CONSTANTS Workers,    \* processes that recover
          Targets,    \* files of the installation, the ones the update added included
          Items,      \* shortcuts and registry keys
          NoOne,      \* no process
          MaxAttempts,\* _MAX_ATTEMPTS of the ledger
          MaxRuns,    \* bound: runs of the detached coordinator
          MaxFaults   \* bound: deaths, failed writes and closed gates

VARIABLES
    detached,   \* which coordinator recovers
    place,      \* each target and item: "new" as the update left it, "old" as it was
    journal,    \* whether there is one, its records, and what reading it says
    ledger,     \* attempts and state of the retry ledger
    pending,    \* its .pending file exists
    holder,     \* who has the lock of the ledger
    worker,     \* what each worker does
    overlapped, \* a worker began while another one was at work
    verifiers,  \* workers' runs that ended verified
    begun,      \* bound: detached runs
    faults      \* bound

recoveryVars == <<detached, place, journal, ledger, pending, holder, worker,
                  overlapped, verifiers, begun, faults>>

Resting == [at |-> "idle", own |-> 0, resumed |-> FALSE, left |-> {}, prior |-> <<>>]

RecoveryInit ==
    /\ detached \in BOOLEAN
    /\ place \in {[x \in Targets \cup Items |-> "new"]}
    /\ journal = [is |-> "absent", count |-> 0]
    /\ ledger = [attempts |-> 0, is |-> "ready"]
    /\ pending = FALSE /\ holder = NoOne
    /\ worker = [w \in Workers |-> Resting]
    /\ overlapped = FALSE /\ verifiers = 0 /\ begun = 0 /\ faults = 0

RecoveryTypeOK ==
    /\ place \in [Targets \cup Items -> {"new", "old"}]
    /\ journal.is \in {"absent", "open", "verified", "torn"} /\ journal.count \in Nat
    /\ ledger.attempts \in 0..MaxAttempts /\ ledger.is \in {"ready", "review", "terminal"}
    /\ holder \in Workers \cup {NoOne} /\ pending \in BOOLEAN /\ overlapped \in BOOLEAN
    /\ \A w \in Workers :
         /\ worker[w].at \in {"idle", "reserve", "open", "arm", "files", "replace", "filed", "read",
                              "shellarm", "shell", "written", "undo", "shown", "prove", "conclude",
                              "finish", "mark"}
         /\ worker[w].left \subseteq Targets \cup Items

Goes(w, step)        == worker' = [worker EXCEPT ![w].at = step]
GoesOver(w, step, S) == worker' = [worker EXCEPT ![w].at = step, ![w].left = S]
Return(w)            == worker' = [worker EXCEPT ![w] = Resting]
MayFail              == faults < MaxFaults /\ faults' = faults + 1
Kept                 == <<detached, overlapped, begun>>
Ledger               == <<ledger, pending, holder>>

-----------------------------------------------------------------------------
(* The ledger: an attempt is counted before its worker runs, and the third    *)
(* one already leaves it at REVIEW_REQUIRED.                                  *)

AtWork == {w \in Workers : worker[w].at # "idle"}

Begin(w) ==
    /\ ~detached /\ worker[w].at = "idle" /\ holder = NoOne
    /\ ledger.is = "ready" /\ ledger.attempts < MaxAttempts /\ ~pending
    /\ pending' = TRUE /\ holder' = w
    /\ overlapped' = (overlapped \/ AtWork # {})
    /\ Goes(w, "reserve")
    /\ UNCHANGED <<detached, place, journal, ledger, verifiers, begun, faults>>

\* the detached coordinator is called without a ledger
BeginDetached(w) ==
    /\ detached /\ worker[w].at = "idle" /\ begun < MaxRuns /\ begun' = begun + 1
    /\ overlapped' = (overlapped \/ AtWork # {})
    /\ Goes(w, "open")
    /\ UNCHANGED <<detached, place, journal, verifiers, faults>> /\ UNCHANGED Ledger

Reserve(w) ==
    /\ worker[w].at = "reserve"
    /\ ledger' = [attempts |-> ledger.attempts + 1,
                  is |-> IF ledger.attempts + 1 = MaxAttempts THEN "review" ELSE "ready"]
    /\ pending' = FALSE /\ holder' = NoOne
    /\ Goes(w, "open")
    /\ UNCHANGED <<place, journal, verifiers, faults>> /\ UNCHANGED Kept

MarkBegins(w) ==
    /\ worker[w].at = "finish" /\ holder = NoOne
    /\ \/ ~pending /\ ledger.is # "terminal" /\ pending' = TRUE /\ holder' = w /\ Goes(w, "mark")
       \/ (pending \/ ledger.is = "terminal") /\ Return(w) /\ UNCHANGED <<pending, holder>>
    /\ UNCHANGED <<place, journal, ledger, verifiers, faults>> /\ UNCHANGED Kept

Mark(w) ==
    /\ worker[w].at = "mark"
    /\ ledger' = [ledger EXCEPT !.is = "terminal"]
    /\ pending' = FALSE /\ holder' = NoOne /\ Return(w)
    /\ UNCHANGED <<place, journal, verifiers, faults>> /\ UNCHANGED Kept

-----------------------------------------------------------------------------
(* The journal: a writer appends only if no one else did since it last read.  *)

Open(w) ==
    /\ worker[w].at = "open"
    /\ \/ journal.is = "absent" /\ journal' = [is |-> "open", count |-> 0] /\ Goes(w, "arm")
       \/ /\ journal.is = "open" /\ journal.count > 0                          \* resume
          /\ worker' = [worker EXCEPT ![w].at = IF detached THEN "files" ELSE "arm",
                                      ![w].own = journal.count, ![w].resumed = TRUE,
                                      ![w].left = IF detached THEN Targets ELSE {}]
          /\ UNCHANGED journal
       \/ journal.is # "absent" /\ ~(journal.is = "open" /\ journal.count > 0)
          /\ Return(w) /\ UNCHANGED journal
    /\ UNCHANGED <<place, verifiers, faults>> /\ UNCHANGED Kept /\ UNCHANGED Ledger

\* Faulty variant: the journal is not read again before an append.
MayAppendUnread(w) == worker[w].at # "idle"

MayAppend(w) == journal.is = "open" /\ journal.count = worker[w].own

\* an append that succeeds and where it leads, or the exception it raises
Appends(w, step, S) ==
    /\ MayAppend(w)
    /\ journal' = [journal EXCEPT !.count = @ + 1]
    /\ worker' = [worker EXCEPT ![w].at = step, ![w].own = @ + 1, ![w].left = S]

\* a failure is journalled if it can be, and the run ends for review
Fails(w) ==
    /\ journal' = IF MayAppend(w) THEN [journal EXCEPT !.count = @ + 1] ELSE journal
    /\ Return(w)

AppendRaises(w) == ~MayAppend(w) /\ Return(w) /\ UNCHANGED journal

Arm(w) ==
    /\ worker[w].at = "arm"
    /\ Appends(w, "files", Targets) \/ AppendRaises(w)
    /\ UNCHANGED <<place, verifiers, faults>> /\ UNCHANGED Kept /\ UNCHANGED Ledger

\* identity, ancestry and the stopped bridge are looked at again before each stage
GateCloses(w) ==
    /\ detached /\ MayFail
    /\ \/ worker[w].at \in {"read", "prove"}
       \/ worker[w].at = "files" /\ worker[w].left = Targets
    /\ Fails(w)
    /\ UNCHANGED <<place, verifiers>> /\ UNCHANGED Kept /\ UNCHANGED Ledger

-----------------------------------------------------------------------------
(* The files.  Only the detached executor journals each of them.              *)

Restored(S) == \A x \in S : place[x] = "old"

BeforeReplace(w) ==
    /\ worker[w].at = "files" /\ worker[w].left # {} /\ detached
    /\ Appends(w, "replace", worker[w].left) \/ AppendRaises(w)
    /\ UNCHANGED <<place, verifiers, faults>> /\ UNCHANGED Kept /\ UNCHANGED Ledger

ReplaceFile(w, x) ==
    /\ worker[w].at = IF detached THEN "replace" ELSE "files"
    /\ x \in worker[w].left
    /\ place' = [place EXCEPT ![x] = "old"]
    /\ GoesOver(w, "files", worker[w].left \ {x})
    /\ UNCHANGED <<journal, verifiers, faults>> /\ UNCHANGED Kept /\ UNCHANGED Ledger

ReplaceFails(w) ==
    /\ worker[w].at \in {"files", "replace"} /\ worker[w].left # {} /\ MayFail
    /\ Fails(w)
    /\ UNCHANGED <<place, verifiers>> /\ UNCHANGED Kept /\ UNCHANGED Ledger

FilesChecked(w) ==
    /\ worker[w].at = "files" /\ worker[w].left = {}
    /\ \/ Restored(Targets) /\ (Appends(w, "read", {}) \/ AppendRaises(w))
       \/ ~Restored(Targets) /\ Fails(w)
    /\ UNCHANGED <<place, verifiers, faults>> /\ UNCHANGED Kept /\ UNCHANGED Ledger

-----------------------------------------------------------------------------
(* The shell: everything is read before the first write, and a failure puts   *)
(* back what was read.                                                        *)

ReadPrior(w) ==
    /\ worker[w].at = "read"
    /\ worker' = [worker EXCEPT ![w].at = "shellarm", ![w].prior = [i \in Items |-> place[i]]]
    /\ UNCHANGED <<place, journal, verifiers, faults>> /\ UNCHANGED Kept /\ UNCHANGED Ledger

ShellArm(w) ==
    /\ worker[w].at = "shellarm"
    /\ Appends(w, "shell", Items) \/ AppendRaises(w)
    /\ UNCHANGED <<place, verifiers, faults>> /\ UNCHANGED Kept /\ UNCHANGED Ledger

WriteItem(w, i) ==
    /\ worker[w].at = "shell" /\ i \in worker[w].left
    /\ place' = [place EXCEPT ![i] = "old"]
    /\ GoesOver(w, IF worker[w].left = {i} THEN "written" ELSE "shell", worker[w].left \ {i})
    /\ UNCHANGED <<journal, verifiers, faults>> /\ UNCHANGED Kept /\ UNCHANGED Ledger

\* the failing write is registered for compensation before it is tried
WriteFails(w, i) ==
    /\ worker[w].at = "shell" /\ i \in worker[w].left /\ MayFail
    /\ journal' = IF MayAppend(w) THEN [journal EXCEPT !.count = @ + 1] ELSE journal
    /\ worker' = [worker EXCEPT ![w].at = "undo", ![w].left = (Items \ @) \cup {i},
                                ![w].own = IF MayAppend(w) THEN @ + 1 ELSE @]
    /\ UNCHANGED <<place, verifiers>> /\ UNCHANGED Kept /\ UNCHANGED Ledger

Written(w) ==
    /\ worker[w].at = "written"
    /\ \/ Appends(w, "shown", {})
       \/ ~MayAppend(w) /\ GoesOver(w, "undo", Items) /\ UNCHANGED journal
    /\ UNCHANGED <<place, verifiers, faults>> /\ UNCHANGED Kept /\ UNCHANGED Ledger

PutBack(w, i) ==
    /\ worker[w].at = "undo" /\ i \in worker[w].left
    /\ \/ place' = [place EXCEPT ![i] = worker[w].prior[i]] /\ UNCHANGED faults
       \/ MayFail /\ UNCHANGED place
    /\ GoesOver(w, "undo", worker[w].left \ {i})
    /\ UNCHANGED <<journal, verifiers>> /\ UNCHANGED Kept /\ UNCHANGED Ledger

UndoEnds(w) ==
    /\ worker[w].at = "undo" /\ worker[w].left = {}
    /\ Fails(w)
    /\ UNCHANGED <<place, verifiers, faults>> /\ UNCHANGED Kept /\ UNCHANGED Ledger

ShellChecked(w) ==
    /\ worker[w].at = "shown"
    /\ \/ Restored(Items) /\ (Appends(w, "prove", {}) \/ AppendRaises(w))
       \/ ~Restored(Items) /\ Fails(w)
    /\ UNCHANGED <<place, verifiers, faults>> /\ UNCHANGED Kept /\ UNCHANGED Ledger

-----------------------------------------------------------------------------
Whole == Restored(Targets \cup Items)

FinalVerify(w) ==
    /\ worker[w].at = "prove"
    /\ \/ Whole /\ Goes(w, "conclude") /\ UNCHANGED journal
       \/ ~Whole /\ Fails(w)
    /\ UNCHANGED <<place, verifiers, faults>> /\ UNCHANGED Kept /\ UNCHANGED Ledger

Conclude(w) ==
    /\ worker[w].at = "conclude"
    /\ \/ /\ MayAppend(w)
          /\ journal' = [is |-> "verified", count |-> journal.count + 1]
          /\ verifiers' = verifiers + 1
          /\ IF detached THEN Return(w) ELSE Goes(w, "finish")
       \/ AppendRaises(w) /\ UNCHANGED verifiers
    /\ UNCHANGED <<place, faults>> /\ UNCHANGED Kept /\ UNCHANGED Ledger

\* what is being appended when the machine stops may be left without its newline
Appending == {"arm", "files", "shellarm", "written", "shown", "conclude"}

Dies(w) ==
    /\ worker[w].at # "idle" /\ MayFail
    /\ Return(w)
    /\ holder' = IF holder = w THEN NoOne ELSE holder
    /\ \/ UNCHANGED journal
       \/ worker[w].at \in Appending /\ MayAppend(w) /\ journal' = [journal EXCEPT !.is = "torn"]
    /\ UNCHANGED <<place, ledger, pending, verifiers>> /\ UNCHANGED Kept

RecoveryNext ==
    \E w \in Workers :
       \/ Begin(w) \/ BeginDetached(w) \/ Reserve(w) \/ MarkBegins(w) \/ Mark(w) \/ Open(w) \/ Arm(w) \/ GateCloses(w)
       \/ BeforeReplace(w) \/ ReplaceFails(w) \/ FilesChecked(w)
       \/ \E x \in Targets : ReplaceFile(w, x)
       \/ ReadPrior(w) \/ ShellArm(w) \/ Written(w) \/ UndoEnds(w) \/ ShellChecked(w)
       \/ \E i \in Items : WriteItem(w, i) \/ WriteFails(w, i) \/ PutBack(w, i)
       \/ FinalVerify(w) \/ Conclude(w) \/ Dies(w)

RecoverySpec == RecoveryInit /\ [][RecoveryNext]_recoveryVars

-----------------------------------------------------------------------------
(* A journal that ends verified, and so a ledger that is terminal, stands for *)
(* an installation whose every file, shortcut and key is what it was before   *)
(* the update, whatever died before - unless two workers ran at a time.       *)
VerifiedIsRestored ==
    journal.is = "verified" \/ ledger.is = "terminal" => Whole \/ overlapped

(* Of all the workers that ever recover one transaction, overlapping or not,  *)
(* at most one ends verified (the sequence check of RollbackJournal).         *)
OneRunVerifies == verifiers <= 1
=============================================================================
