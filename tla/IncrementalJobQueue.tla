--------------------------- MODULE IncrementalJobQueue ---------------------------
(***************************************************************************)
(* The durable queue of approved index events                              *)
(* (rag/runtime/incremental_job_queue.py) and the one-shot workers that    *)
(* reserve a job, build a staging bundle of its source, and acknowledge or *)
(* give it back (rag/runtime/incremental_offline_worker.py).               *)
(*                                                                         *)
(* A reservation is a lease with a token, renewed by a heartbeat thread.   *)
(* Every operation reads the clock first and then waits for the write lock *)
(* of SQLite: the transaction judges leases by a clock that may lag.  Time *)
(* is relative: ttl and wait count down, lag counts up, as Tick passes.    *)
(*                                                                         *)
(* The random token of a reservation is stood for by the number of the     *)
(* attempt, which every reservation raises.  Jobs are numbered in the      *)
(* order (due time, creation, id) in which the queue is scanned.           *)
(***************************************************************************)
EXTENDS Integers, FiniteSets

CONSTANTS
    Jobs,           \* one per approved (source, commit, sha) event
    OfflineWorkers, \* processes that call process_offline_job_once
    MaxClaims,      \* max_attempts
    Lease,          \* lease_seconds, in ticks
    MaxLag,         \* longest wait for the write lock (busy_timeout), in ticks
    RetryDelay,     \* retry_delay_seconds, in ticks
    Debounce,       \* debounce_seconds, in ticks
    Batch,          \* jobs one claim looks at
    Faults,         \* which failures can happen
    MaxFailures     \* bound on how often they do

FaultKinds == {"busy", "crash"}

ASSUME JobsAssumption == Jobs \subseteq Nat \ {0}
ASSUME BoundsAssumption ==
    /\ MaxClaims \in Nat \ {0} /\ Lease \in Nat \ {0} /\ Batch \in Nat \ {0}
    /\ MaxLag \in Nat /\ RetryDelay \in Nat /\ Debounce \in Nat
    /\ MaxFailures \in Nat /\ Faults \subseteq FaultKinds
    /\ MaxLag < Lease

VARIABLES
    state,    \* job -> state of its row
    attempts, \* job -> reservations so far; also the token of the last one
    ttl,      \* job -> ticks until its lease ends, counted on below zero; 0: no lease
    wait,     \* job -> ticks until its next attempt, counted on below zero
    receipt,  \* job -> content of the bundle in its staging receipt
    sourceOf, \* job -> what has become of its source since the event
    step,     \* worker -> where it stands
    job,      \* worker -> the job it reserved, or 0
    token,    \* worker -> the token it was given
    lag,      \* worker -> ticks since its operation read the clock
    built,    \* worker -> content of the bundle it built
    beat,     \* worker -> its heartbeat thread
    beatlag,  \* worker -> ticks since the heartbeat read the clock
    lost,     \* worker -> lease_lost is set
    failures  \* failures so far

rows      == <<state, attempts, ttl, wait, receipt>>
workers   == <<step, job, token, lag, built>>
beats     == <<beat, beatlag, lost>>
queueVars == <<rows, sourceOf, workers, beats, failures>>

Concluded == {"REJECTED", "FAILED", "STAGED_OFFLINE_VALIDATED"}
States    == {"ABSENT", "PENDING", "RETRY", "CLAIMED"} \cup Concluded
Bundles   == {"observed", "other", "none"}

\* Steps that have read the clock and wait for the write lock.
InTransaction == {"claiming", "commit", "rejected", "report"}
Steps == InTransaction \cup {"idle", "building", "built", "validating"}

QueueTypeOK ==
    /\ state \in [Jobs -> States]
    /\ attempts \in [Jobs -> Nat]
    /\ ttl \in [Jobs -> (-MaxLag)..Lease]
    /\ wait \in [Jobs -> Int]
    /\ receipt \in [Jobs -> Bundles]
    /\ sourceOf \in [Jobs -> {"committed", "superseded", "changed"}]
    /\ step \in [OfflineWorkers -> Steps]
    /\ job \in [OfflineWorkers -> Jobs \cup {0}]
    /\ token \in [OfflineWorkers -> Nat]
    /\ lag \in [OfflineWorkers -> 0..MaxLag]
    /\ built \in [OfflineWorkers -> Bundles]
    /\ beat \in [OfflineWorkers -> {"off", "waiting", "renewing"}]
    /\ beatlag \in [OfflineWorkers -> 0..MaxLag]
    /\ lost \in [OfflineWorkers -> BOOLEAN]
    /\ failures \in Nat

QueueInit ==
    /\ state = [j \in Jobs |-> "ABSENT"]
    /\ attempts = [j \in Jobs |-> 0]
    /\ ttl = [j \in Jobs |-> 0]
    /\ wait = [j \in Jobs |-> 0]
    /\ receipt = [j \in Jobs |-> "none"]
    /\ sourceOf = [j \in Jobs |-> "committed"]
    /\ step = [w \in OfflineWorkers |-> "idle"]
    /\ job = [w \in OfflineWorkers |-> 0]
    /\ token = [w \in OfflineWorkers |-> 0]
    /\ lag = [w \in OfflineWorkers |-> 0]
    /\ built = [w \in OfflineWorkers |-> "none"]
    /\ beat = [w \in OfflineWorkers |-> "off"]
    /\ beatlag = [w \in OfflineWorkers |-> 0]
    /\ lost = [w \in OfflineWorkers |-> FALSE]
    /\ failures = 0

Floor(n, least) == IF n < least THEN least ELSE n

\* assess_commit_index_event: HEAD is the observed commit, the file is clean
\* and has the observed content.
Eligible(j) == sourceOf[j] = "committed"

Goto(w, where) ==
    /\ step' = [step EXCEPT ![w] = where]
    /\ lag' = [lag EXCEPT ![w] = 0]

\* The worker returns; it stops its heartbeat.
Return(w) ==
    /\ Goto(w, "idle")
    /\ job' = [job EXCEPT ![w] = 0]
    /\ token' = [token EXCEPT ![w] = 0]
    /\ built' = [built EXCEPT ![w] = "none"]
    /\ beat' = [beat EXCEPT ![w] = "off"]
    /\ beatlag' = [beatlag EXCEPT ![w] = 0]
    /\ lost' = [lost EXCEPT ![w] = FALSE]

\* The row is still the reservation of this worker, by a clock late ticks old.
Holds(w, late) ==
    /\ job[w] # 0
    /\ state[job[w]] = "CLAIMED"
    /\ attempts[job[w]] = token[w]
    /\ ttl[job[w]] + late > 0

-----------------------------------------------------------------------------
(* Events and claims. *)

\* INSERT OR IGNORE of an event that is eligible; it is stable in n ticks.
Enqueue(j, n) ==
    /\ state[j] = "ABSENT"
    /\ Eligible(j)
    /\ state' = [state EXCEPT ![j] = "PENDING"]
    /\ wait' = [wait EXCEPT ![j] = n]
    /\ UNCHANGED <<attempts, ttl, receipt, sourceOf, workers, beats, failures>>

\* A commit, an edit or a reset in the project.
SourceMoves(j, s) ==
    /\ sourceOf[j] # s
    /\ sourceOf' = [sourceOf EXCEPT ![j] = s]
    /\ UNCHANGED <<rows, workers, beats, failures>>

\* process_offline_job_once reads the clock for its claim.
Begin(w) ==
    /\ step[w] = "idle"
    /\ Goto(w, "claiming")
    /\ UNCHANGED <<rows, sourceOf, job, token, built, beats, failures>>

Expired(late) == {j \in Jobs : state[j] = "CLAIMED" /\ ttl[j] + late <= 0}

\* Faulty variant: an expired reservation is retried whatever the attempts.
ExpireToRetry(late) ==
    [j \in Jobs |-> IF j \in Expired(late) THEN "RETRY" ELSE state[j]]

\* First part of a claim: rows whose lease ended become RETRY or FAILED.
Expire(late) ==
    [j \in Jobs |-> IF j \notin Expired(late) THEN state[j]
                    ELSE IF attempts[j] >= MaxClaims THEN "FAILED" ELSE "RETRY"]

\* Faulty variant: only events that were never tried are due.
DueFirst(rowstate, late) ==
    {j \in Jobs : rowstate[j] = "PENDING" /\ wait[j] + late <= 0}

\* A row that expired just now is due at once.
Due(rowstate, late) ==
    {j \in Jobs : /\ rowstate[j] \in {"PENDING", "RETRY"}
                  /\ wait[j] + late <= 0 \/ j \in Expired(late)}

\* The first Batch due jobs, in order.
Scanned(rowstate, late) ==
    {j \in Due(rowstate, late) :
        Cardinality({i \in Due(rowstate, late) : i < j}) < Batch}

\* The scan rejects jobs whose source moved on until it finds one to reserve.
Reservable(rowstate, late) ==
    {j \in Scanned(rowstate, late) :
        Eligible(j) /\ \A i \in Scanned(rowstate, late) : i < j => ~Eligible(i)}

Rejected(rowstate, late) ==
    {j \in Scanned(rowstate, late) :
        ~Eligible(j) /\ \A i \in Reservable(rowstate, late) : j < i}

\* Second part of a claim: after, the rows' state once leases expired.
Claim(w) ==
    /\ step[w] = "claiming"
    /\ LET late  == lag[w]
           after == Expire(late)
           taken == Reservable(after, late)
       IN /\ state' = [j \in Jobs |->
                         IF j \in taken THEN "CLAIMED"
                         ELSE IF j \in Rejected(after, late) THEN "REJECTED" ELSE after[j]]
          /\ attempts' = [j \in Jobs |-> IF j \in taken THEN attempts[j] + 1 ELSE attempts[j]]
          /\ ttl' = [j \in Jobs |-> IF j \in taken THEN Lease - late
                                   ELSE IF j \in Expired(late) THEN 0 ELSE ttl[j]]
          /\ wait' = [j \in Jobs |-> IF j \in Expired(late) THEN -late ELSE wait[j]]
          /\ IF taken = {} THEN Return(w)
                           ELSE /\ Goto(w, "building")
                                /\ job' = [job EXCEPT ![w] = CHOOSE j \in taken : TRUE]
                                /\ token' = [token EXCEPT ![w] = attempts'[job'[w]]]
                                /\ beat' = [beat EXCEPT ![w] = "waiting"]
                                /\ UNCHANGED <<built, beatlag, lost>>
    /\ UNCHANGED <<receipt, sourceOf, failures>>

-----------------------------------------------------------------------------
(* The worker, after it reserved a job. *)

\* The builder reads the file as it is now.
Build(w) ==
    /\ step[w] = "building"
    /\ built' = [built EXCEPT ![w] = IF sourceOf[job[w]] = "changed" THEN "other" ELSE "observed"]
    /\ Goto(w, IF lost[w] THEN "report" ELSE "built")
    /\ UNCHANGED <<rows, sourceOf, job, token, beats, failures>>

BuildFails(w) ==
    /\ step[w] = "building"
    /\ Goto(w, "report")
    /\ UNCHANGED <<rows, sourceOf, job, token, built, beats, failures>>

\* acknowledge_staged_bundle reads the row, outside of any transaction.
AckLooks(w) ==
    /\ step[w] = "built"
    /\ Goto(w, IF Holds(w, 0) THEN "validating" ELSE "rejected")
    /\ UNCHANGED <<rows, sourceOf, job, token, built, beats, failures>>

\* Faulty variant: any valid bundle will do.
AckAnyBundle(w) ==
    /\ step[w] = "validating"
    /\ Goto(w, IF Eligible(job[w]) THEN "commit" ELSE "rejected")
    /\ UNCHANGED <<rows, sourceOf, job, token, built, beats, failures>>

\* The bundle is validated, the clock read again, the source checked again.
AckValidates(w) ==
    /\ step[w] = "validating"
    /\ Goto(w, IF built[w] = "observed" /\ Eligible(job[w]) THEN "commit" ELSE "rejected")
    /\ UNCHANGED <<rows, sourceOf, job, token, built, beats, failures>>

AckRefuses(w) ==
    /\ step[w] = "validating"
    /\ Goto(w, "rejected")
    /\ UNCHANGED <<rows, sourceOf, job, token, built, beats, failures>>

Unlease(w) == ttl' = [ttl EXCEPT ![job[w]] = 0]

Stage(w) ==
    /\ state' = [state EXCEPT ![job[w]] = "STAGED_OFFLINE_VALIDATED"]
    /\ receipt' = [receipt EXCEPT ![job[w]] = built[w]]
    /\ Unlease(w)

\* Faulty variant: trusts the look at the row before the validation.
AckCommitsUnchecked(w) ==
    /\ step[w] = "commit"
    /\ Stage(w)
    /\ Return(w)
    /\ UNCHANGED <<attempts, wait, sourceOf, failures>>

\* The transaction of the acknowledgment, if the reservation still stands.
AckCommits(w) ==
    /\ step[w] = "commit"
    /\ IF Holds(w, lag[w])
         THEN Stage(w) /\ Return(w)
         ELSE /\ Goto(w, "rejected")
              /\ UNCHANGED <<state, receipt, ttl, job, token, built, beats>>
    /\ UNCHANGED <<attempts, wait, sourceOf, failures>>

\* Faulty variant: the failure is recorded for whoever holds the job.
ReportsAnyToken(w) ==
    /\ step[w] \in {"rejected", "report"}
    /\ state' = [state EXCEPT ![job[w]] =
                    IF @ # "CLAIMED" THEN @
                    ELSE IF attempts[job[w]] < MaxClaims THEN "RETRY" ELSE "FAILED"]
    /\ wait' = [wait EXCEPT ![job[w]] = RetryDelay]
    /\ Unlease(w)
    /\ Return(w)
    /\ UNCHANGED <<attempts, receipt, sourceOf, failures>>

\* report_staging_failure: the job is given back, or has failed for good.
Reports(w) ==
    /\ step[w] \in {"rejected", "report"}
    /\ IF Holds(w, lag[w])
         THEN LET again == attempts[job[w]] < MaxClaims
              IN /\ state' = [state EXCEPT ![job[w]] = IF again THEN "RETRY" ELSE "FAILED"]
                 /\ wait' = [wait EXCEPT ![job[w]] =
                               (IF again THEN RetryDelay ELSE 0) - lag[w]]
                 /\ Unlease(w)
         ELSE UNCHANGED <<state, wait, ttl>>
    /\ Return(w)
    /\ UNCHANGED <<attempts, receipt, sourceOf, failures>>

-----------------------------------------------------------------------------
(* The heartbeat thread. *)

Beat(w) ==
    /\ beat[w] = "waiting"
    /\ beat' = [beat EXCEPT ![w] = "renewing"]
    /\ beatlag' = [beatlag EXCEPT ![w] = 0]
    /\ UNCHANGED <<rows, sourceOf, workers, lost, failures>>

\* The heartbeat gives up; the worker sees it once the builder returns.
BeatEnds(w) ==
    /\ beat' = [beat EXCEPT ![w] = "off"]
    /\ beatlag' = [beatlag EXCEPT ![w] = 0]
    /\ lost' = [lost EXCEPT ![w] = TRUE]

\* Faulty variant: the lease grows by its length.
RenewExtends(w) ==
    /\ beat[w] = "renewing"
    /\ Holds(w, beatlag[w])
    /\ ttl' = [ttl EXCEPT ![job[w]] = @ + Lease]
    /\ beat' = [beat EXCEPT ![w] = "waiting"]
    /\ beatlag' = [beatlag EXCEPT ![w] = 0]
    /\ UNCHANGED <<state, attempts, wait, receipt, sourceOf, workers, lost, failures>>

Renew(w) ==
    /\ beat[w] = "renewing"
    /\ IF Holds(w, beatlag[w])
         THEN /\ ttl' = [ttl EXCEPT ![job[w]] = Lease - beatlag[w]]
              /\ beat' = [beat EXCEPT ![w] = "waiting"]
              /\ beatlag' = [beatlag EXCEPT ![w] = 0]
              /\ UNCHANGED lost
         ELSE BeatEnds(w) /\ UNCHANGED ttl
    /\ UNCHANGED <<state, attempts, wait, receipt, sourceOf, workers, failures>>

-----------------------------------------------------------------------------
(* Failures. *)

Fail(kind) ==
    /\ kind \in Faults /\ failures < MaxFailures
    /\ failures' = failures + 1

\* SQLite does not get the write lock in time, and raises.
Busy(w) ==
    /\ Fail("busy")
    /\ step[w] \in InTransaction
    /\ IF step[w] \in {"commit", "rejected"}
         THEN Goto(w, "report") /\ UNCHANGED <<job, token, built, beats>>
         ELSE Return(w)
    /\ UNCHANGED <<rows, sourceOf>>

BeatBusy(w) ==
    /\ Fail("busy")
    /\ beat[w] = "renewing"
    /\ BeatEnds(w)
    /\ UNCHANGED <<rows, sourceOf, workers>>

Crash(w) ==
    /\ Fail("crash")
    /\ step[w] # "idle"
    /\ Return(w)
    /\ UNCHANGED <<rows, sourceOf>>

\* Nobody waits for the write lock longer than busy_timeout.
Tick ==
    /\ \A w \in OfflineWorkers : /\ step[w] \in InTransaction => lag[w] < MaxLag
                                 /\ beat[w] = "renewing" => beatlag[w] < MaxLag
    /\ ttl' = [j \in Jobs |-> IF state[j] = "CLAIMED" THEN Floor(ttl[j] - 1, -MaxLag)
                                                      ELSE ttl[j]]
    /\ wait' = [j \in Jobs |-> Floor(wait[j] - 1, -MaxLag)]
    /\ lag' = [w \in OfflineWorkers |-> IF step[w] \in InTransaction THEN lag[w] + 1 ELSE 0]
    /\ beatlag' = [w \in OfflineWorkers |-> IF beat[w] = "renewing" THEN beatlag[w] + 1 ELSE 0]
    /\ UNCHANGED <<state, attempts, receipt, sourceOf, step, job, token, built, beat, lost, failures>>

-----------------------------------------------------------------------------
Work(w) ==
    \/ Claim(w)
    \/ Build(w)
    \/ BuildFails(w)
    \/ AckLooks(w)
    \/ AckValidates(w)
    \/ AckRefuses(w)
    \/ AckCommits(w)
    \/ Reports(w)

QueueNext ==
    \/ \E j \in Jobs, n \in 0..Debounce : Enqueue(j, n)
    \/ \E j \in Jobs, s \in {"committed", "superseded", "changed"} : SourceMoves(j, s)
    \/ \E w \in OfflineWorkers : Begin(w) \/ Work(w)
    \/ \E w \in OfflineWorkers : Beat(w) \/ Renew(w)
    \/ \E w \in OfflineWorkers : Busy(w) \/ BeatBusy(w) \/ Crash(w)
    \/ Tick

QueueSpec == QueueInit /\ [][QueueNext]_queueVars

\* Time passes, a worker that runs goes on, and the application calls a worker
\* again and again.
Fairness ==
    /\ WF_queueVars(Tick)
    /\ \A w \in OfflineWorkers :
          WF_queueVars(Begin(w)) /\ WF_queueVars(Work(w)) /\ WF_queueVars(Renew(w))

FairSpec == QueueSpec /\ Fairness

-----------------------------------------------------------------------------
\* However workers crash, lose their lease or report twice, a job is reserved
\* at most MaxClaims times.
AttemptsAreBounded == \A j \in Jobs : attempts[j] <= MaxClaims

\* A job has a staging receipt exactly when it is staged, and the receipt is of
\* a bundle with the observed content, whatever became of the source meanwhile.
StagedMatchesEvent ==
    \A j \in Jobs :
        /\ receipt[j] # "none" <=> state[j] = "STAGED_OFFLINE_VALIDATED"
        /\ receipt[j] # "other"

\* A job that is concluded stays as it is; a late worker cannot revive it.
ConcludedIsFinal ==
    [][\A j \in Jobs : state[j] \in Concluded =>
          state'[j] = state[j] /\ receipt'[j] = receipt[j] /\ attempts'[j] = attempts[j]]_queueVars

\* As long as its lease runs, a reservation ends only by the worker that holds
\* its token: neither another claim nor a worker of an earlier attempt ends it.
LiveReservationIsTheOwners ==
    [][\A j \in Jobs :
          state[j] = "CLAIMED" /\ ttl[j] > 0
          /\ (state'[j] # "CLAIMED" \/ attempts'[j] # attempts[j]) =>
              \E w \in OfflineWorkers : /\ job[w] = j /\ token[w] = attempts[j]
                                        /\ step[w] # "idle" /\ step'[w] = "idle"]_queueVars

\* "only the current unexpired lease owner can act": a worker ends its
\* reservation only while the lease runs.
OnlyUnexpiredOwnerActs ==
    [][\A w \in OfflineWorkers :
          /\ step[w] \in {"commit", "rejected", "report"}
          /\ job[w] # 0
          /\ state[job[w]] = "CLAIMED" /\ state'[job[w]] # "CLAIMED"
          /\ step'[w] = "idle"
          => ttl[job[w]] > 0]_queueVars

\* A job that was accepted is staged, rejected or failed in the end.
EveryJobConcludes ==
    \A j \in Jobs : state[j] = "PENDING" ~> state[j] \in Concluded
=============================================================================
