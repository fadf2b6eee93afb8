# CodeBridge, verified

TLA+ models of CodeBridge (`src/`): a Windows bridge that lets a chat client run
commands in visible terminals and search a project's documents, through an MCP
server, an adapter with a persistent exchange protocol, a desktop runtime that
owns the terminals, and a retrieval index that is rebuilt and switched while it
is read.

The project holds one module per modelled component, an abstract specification of
what the three central ones promise, TLC configurations on small instances, and
TLAPS proofs of the core's properties for instances of any size.

| file | what it is |
|---|---|
| `TerminalManager.tla` | the terminals and the sessions they drive (operations only) |
| `CommandRuntime.tla` | the v2 path: start, worker, stop, snapshot, recycle, restart |
| `CommandPaths.tla` | the two older paths on the same terminals: external commands and jobs |
| `CommandService.tla` | what a client of the command service is promised |
| `ShellSession.tla`, `PowerShellSession.tla`, `LinuxSession.tla`, `MCShellSessions.tla` | a session from inside: what both share, each of them, both under one specification |
| `ControlChannel.tla` | the named pipe between a PowerShell session and the scripts in its shell |
| `CommandOutput.tla` | the output of a command, from callback to store to follower |
| `TurnTimer.tla` | the timer of the assistant's turn and the browser extension |
| `RuntimeConnection.tla` | how clients find the running bridge and keep connections to it |
| `ManagedProcesses.tla` | the processes a bridge starts, recycles and stops |
| `ProtocolExchange.tla` | clients, handlers and ledger of the exchange protocol CBMCP/1 |
| `ExchangeService.tla` | what a request that is posted again and again is promised |
| `ProductionTransition.tla` | the switch of the production index, its drivers and readers |
| `GenerationService.tla` | what a reader of the index is promised |
| `IncrementalJobQueue.tla` | the durable queue of index events and its one-shot workers |
| `TestGenerations.tla` | the second tree of generations, with its own journal and restore |
| `StagedIndex.tla` | staging, merge, validation and publication of an index |
| `IncrementalFiles.tla` | single files brought up to date: manifest, vectors, embedding cache |
| `LexicalStore.tla` | the SQLite tables and full-text indexes, and the purge over three stores |
| `Retrieval.tla` | one search and the context fetched for it |
| `TextChunking.tla`, `CodeChunking.tla`, `Chunking.tla` | files cut into chunks: pure definitions, and a file on its way through them |
| `ModelRuntime.tla` | the processes behind the models, and their installation |
| `UpdateRecovery.tla` | the recovery of an interrupted update of the installation |
| `MCBridgeServices.tla`, `MCIndexServices.tla` | the services of each side under one specification |
| other `MC*.tla`, `*.cfg` | instances and runs |
| `*Proofs.tla` | theorems and their proofs |
| `PROJECT.json` | components, runs, mutants, source map, findings, hazards, theorems |

Run one with `tlc -config <run>.cfg <module>.tla`, where `PROJECT.json` names the
module of each run (an MC module, or for the exchange and the queue the component
itself), prove one with `tlapm <name>Proofs.tla`.  Seven configurations are *expected to fail* and say so
in their first line; section 9 tells what each shows.

## 1. The system

```
 chat page -- browser extension --> companion server (turn timer)
 chat client -- MCP --> mcp_server --> http_client --CBMCP/1--> adapter_server
                           |                                        |  persistent_ledger (SQLite)
                           | rag_bridge                             |  runtime_client (runtime.json, pool)
                           v                                        v
             production index  <-- drivers          desktop runtime (BridgeRuntime)
             (pointer, journal,    (release,            |   ledgers and stores (SQLite)
              byte locks)           trial, rollback)    v
                  ^                                 TerminalManager -> cmd, PowerShell, SSH sessions
                  |                                                        |
          offline workers <-- job queue (SQLite) <-- approved commits   control pipe, pty
```

### Inventory

State that a component keeps, what changes it, what is hard about it, and what
makes it correct.  `PROJECT.json` lists the same components with their sources and
what each leaves out, and under `hazards` the places where tests hardly reach, line
by line, each with the property that watches it.

**Terminal manager** (`app_rewrite/terminal_manager.py`).  State: the active
target, the prepared target, the targets being recovered, one session object per
target.  Operations: `prepare` (type without Enter), `execute_prepared` (press
Enter and wait), `discard_prepared`, `cancel_active`, `recycle`, `status`.  Its
lock is released between any two looks at a session, and the `finally` of
`execute_prepared` clears the authority without asking whose it is.  Correct if
one command at a time has the authority, Enter runs the text it was pressed for,
and the authority comes back.  *`TerminalManager`.*

**v2 command execution** (`app_rewrite/runtime.py`, `execution_ledger.py`).
State: one durable row per request (CREATED, RUNNING, and four ways to end), the
lock `_phase5b_lock`, the active execution, a worker thread per command.
Operations: `start_phase5b_local`, `_run_phase5b_local`, `stop_phase5d_execution`,
`force_stop_active`, `snapshot` with the recovery of orphans, `start`.  Hard: stop,
worker, recovery and restart all write one row; a start may be repeated at any
time.  Correct if a command is given to a shell at most once and every row concludes
once.  *`CommandRuntime`.*

**External commands and jobs** (`runtime.py`, `external_prepare_store.py`,
`external_execute_store.py`, `executor.py`, `job_store.py`).  State: two SQLite
stores of prepared and executed commands, a store of jobs, the locks of preparation
and execution, one remembered id.  Hard: a prepared command of a former runtime is
typed again, a cancelled job is concluded by whom, one path discards the text of the
other.  Correct if Enter is pressed once for a command, never for a withdrawn job,
and everything concludes.  *`CommandPaths`.*

**Sessions** (`windows_terminal_session.py`, `linux_terminal_session.py`,
`cmd_terminal_session.py`).  State: a shell process, its prompt, the execution in
progress, a reader thread, text and marks on their way.  Hard: marks overtake the
text they follow; a shell dies at any time; Ctrl+C may be ignored; a restart drops
what an execution still waits for.  Correct if reported output is the command's own,
a verdict is about a run that took place, and `execute()` returns.  *PowerShell and
SSH from inside in `MCShellSessions`; cmd as its callers see it.*

**Control channel** (`windows_control_channel.py`, `ipc_named_pipe.py`).  State: a
pipe, a thread, partial reads, pending operations to be cancelled.  Hard: frames
arrive in parts, a script is interrupted in the middle of one, `close` races the
thread's creation of the pipe.  *`ControlChannel`.*

**Output of a command** (`execution_ledger.py`, `external_execute_store.py`,
`runtime.py` `phase5f_wait`).  State: chunks with offsets, a signal with a
generation number.  Correct if a reader that follows its cursor sees every byte
once, and one that waits is woken.  *`CommandOutput`.*

**Exchange protocol** (`author_mcp/http_client.py`, `adapter_server.py`,
`persistent_ledger.py`, `runtime_client.py`).  State: a durable row per request, a
lock in memory per request, handlers in flight.  Operations: REQUEST/SYN,
RESPONSE/SYN, RESPONSE/ACK.  Hard: repeated posts overtaking each other, clients
that leave, calls that time out and take effect later, a crash between the
operation and its answer.  Correct if all who are answered are answered alike and
the operation is done once.  *`ProtocolExchange`.*

**Turn timer and companion** (`chatgpt_companion.py`, the browser extension).
State: the turn with its claim and deadline, the manual request, what each page
remembers.  Hard: the state is taken in two critical sections; posts are lost or
late; several pages report one end.  Correct if new work is refused or admitted by
what was true during the question, and a turn ends once.  *`TurnTimer`.*

**Runtime file and connection pool** (`runtime_client.py`, `http_pool.py`).  State:
a cached `runtime.json`, idle connections.  Hard: the file is replaced between the
two signatures of a read; a connection outlives its bridge.  *`RuntimeConnection`.*

**Process managers** (`author_mcp_manager.py`, `secure_tunnel_manager.py`).  State:
the processes a bridge started, those it inherited.  Hard: pids are used again
between look and terminate; another bridge lives in another session; a process cannot
be read.  Correct if
only orphans are stopped.  *`ManagedProcesses`.*

**Production index switch** (`rag/runtime/production_generation_*.py`, the drivers
`author_mcp/v1_incremental_*.py`).  State: the pointer, a journal of a pending
transition, archived pointers, a byte lock shared by readers and exclusive for
writers.  Hard: a crash between any two writes; decisions that drivers take without
the lock.  Correct if readers only ever see a verified generation and every
interrupted switch can be rolled back.  *`ProductionTransition`, with the locks and
processes of the semantic search bridge (`rag_bridge.py`); the gates, which compare
evidence, are a choice.*

**Incremental job queue** (`rag/runtime/incremental_job_queue.py`,
`incremental_offline_worker.py`).  State: jobs with attempts, lease and token, a
receipt of what was staged.  Hard: leases judged by a clock that was read before the
write lock was granted, validation outside of the transaction, late workers.
Correct if a job is concluded once, by the holder of its lease, with a bundle of the
content that was observed.  *`IncrementalJobQueue`.*

**Test generations** (`rag/runtime/generation_*.py`).  State: a tree of generations,
a pointer, a journal, verified backups, locks per generation.  Hard: restore and
retirement do not look at the journal.  *`TestGenerations`.*

**Staged index** (`production_index.py`, `controlled_merge.py`,
`incremental_bundle_*.py`, `production_publish.py`).  State: a manifest that names
what is embedded, the directory in use and the ones set aside.  Correct if a
manifest names only what is whole and the index in use is never lost.
*`StagedIndex`.*

**Incremental files** (`rag/index/incremental.py`, `manifest.py`,
`embedding_cache.py`).  State: manifest, vectors and cache, written one after
another.  *`IncrementalFiles`.*

**Lexical and vector index** (`rag/index/sqlite_schema.py`, `fts5.py`, `purge.py`).
State: tables with cascades, six triggers, three stores to purge.  *`LexicalStore`.*

**Ranking and retrieval** (`rag/ranking`, `rag/retrieval`, `search_service.py`,
`context_service.py`).  No state but the index's; hard is an index that is replaced
between the opening of its two stores, and files edited after indexing.
*`Retrieval`.*

**Chunking** (`rag/chunking`).  Pure functions of text; hard is that every line be
indexed once and say truly where it is from.  *`Chunking`.*

**Model lifecycle** (`rag/models`, `rag/runtime/model_manager.py`).  State: which
model's process runs, which files are whole.  Hard: a process that will not end, a
partial download.  *`ModelRuntime`.*

**Recovery of an installation** (`installer/rag_p9b_*.py`).  State: an append-only
journal, a ledger of attempts, files, shortcuts and registry keys.  Hard: death at
any durable write, two workers at once.  *`UpdateRecovery`.*

**Not modelled**, with the reasons, in section 11.

## 2. Commands: `TerminalManager`, `CommandRuntime`, `CommandPaths`

`TerminalManager` has operations but no `Next`: it is a passive object.  Each
operator is one section under the manager's lock or one call of a session, so
that threads interleave exactly where the code releases the lock.  A prompt is the
set of requests whose text stands on it; this is all the properties need of the
text, and it keeps visible what the code does not compare: `execute_prepared`
checks the name of the terminal, not the command.

`CommandRuntime` gives the threads of the v2 path, with a program counter for each.

| model | code |
|---|---|
| `Start`, `StartAdmit` ... `StartTypeRefused` | `start_phase5b_local` up to `worker.start()`, holding `lock` = `_phase5b_lock` |
| `WorkerBegin` ... `WorkerExit` | `_run_phase5b_local`: re-check of the row, `execute_prepared` in its parts, verdict, `finally` |
| `StopCreated`, `StopDiscards`, `StopRunning` | `stop_phase5d_execution` |
| `ForceStop`, `CancelLook`, `CancelSignal`, `CancelDiscard` | `force_stop_active`, `cancel_active` |
| `SnapshotRead` ... `SnapshotAwait` | `snapshot`, `_recover_orphaned_terminal_state` |
| `Recycle` | `recycle`, `_recover_after_cancel` |
| `ShellEnds`, `ShellForced`, `ShellLost` | reader loop and completion thread of a session |
| `Restart` | the process dies, `start()` with `interrupt_runtime` of the ledger |
| `state`, `target` | columns of the ledger; `Transition` is `ExecutionLedger.transition` |

`environment`, fixed in the initial state and never changed, says which of the
surrounding events a behaviour may have; one run covers several.  A property that
does not hold everywhere names the environments it holds in.  This is the border
of each: that it holds on this side is proved, that it breaks on the other was found
by running TLC on every set of the six events with two commands, and of those with
`snapshot` with three (`OneCommandAtATime` and `ConcludedIsNotRunning` together are
`TerminalIsExclusive` in the runs):

| property | holds for | smallest sets that break it |
|---|---|---|
| `EnterRunsOwnText` | `stop_created`, `restart` | any one of `stop_running`, `force_stop`, `snapshot`, `session_loss` |
| `OneCommandAtATime` | `stop_created`, `restart`, `session_loss` | any one of `stop_running`, `force_stop`, `snapshot` |
| `CancelledBeforeEnterNeverRuns` | as the last | `stop_created` with any one of the same |
| `ConcludedIsNotRunning` | everything but `snapshot` | `snapshot` |
| `AtMostOnce`, `RowMatchesThread`, `ConcludedRowsAreFinal`, `ImplementsService` | everything | |

What breaks them.  A stop of a RUNNING row whose Enter is not pressed yet finds no
execution, discards the text and frees the authority, while the worker goes on to
press Enter (`terminal_manager.py:476`).  A shell that dies before Enter is
replaced by a fresh one, whose empty prompt Enter completes as FINISHED
(`terminal_manager.py:231`; `CommandSessionLoss.cfg`).  `snapshot` reads the
terminals before it looks for an owner, so a command that ends and one that starts
in between make it recycle the terminal of a live worker (`runtime.py:1014`).  That
frees the authority of a command that runs, and a third one takes it
(`PolledRecovery.cfg`).  No instance with two commands shows this: the proof that
`OneCommandAtATime` is inductive failed on it first.

`ImplementsService`: `CommandService` says that a request is accepted once, its row
only moves forward, and its text is delivered at most once and never before it was
accepted.  It promises no more: a row may end without its text having run, because
in the code it may.  The mapping reads `status` off the row and `delivered` off the
history of entered texts.

Liveness (`CommandsConclude`: the authority is released and every row concludes)
assumes that threads go on.  A worker needs *strong* fairness because it takes
`_phase5b_lock` at its begin and at its end, which other calls take and give back
for ever; a Python lock is not fair to one waiter but has no reason to starve it.
Recycles wait for `_recovery_lock` in the same way.  The desktop window polls
`snapshot` from a timer (`ui.py`), which is why recovery is strongly fair.  The
completion thread of a cancelled command wakes after its delay: weak fairness.
Nothing is assumed of commands or of users: a command that nobody cancels may run
on for ever, and the properties allow it.

`CommandPaths` puts external commands and jobs on one `TerminalManager`.

| model | code |
|---|---|
| `PrepareExternal`, `PrepareAgain` ... `PrepareRemember` | `prepare_external` and its row |
| `AsyncReserve`, `WorkerBegin`, `WorkerForgets` | the asynchronous start and its worker under `_external_prepare_lock` |
| `ExecuteExternal`, `ExternalConclude` | `execute_external`, its conclusion by answer or exception |
| `DiscardExternal` | `discard_external` |
| `Submit`, `Approve`, `ClaimNext`, `JobBegin`, `RunJob` | `job_store` and the thread of `ExecutionEngine`, with everything its `finally` does |
| `CancelCall`, `CancelRequest`, `CancelPending` | cancel of a job: by the store or by the engine |
| `ForceStop`, `ForceDiscard`, `Cancelling`, `Snapshot`, `Recycle`, `Restart` | as above, with these stores |
| `Terminal(r)` | `prepare` and `execute_prepared` of the manager for the thread that drives request r |

`call` is who stands under `_external_prepare_lock`; `presses` counts Enter,
`withdrawn` the jobs whose cancel was answered "cancelled".  `EntersOnceItsText`:
Enter is pressed once for an execution whatever is repeated, prepared again after a
restart or recovered as an orphan; while one of the two paths is in use alone it
delivers its own text.  With both it does not: a job's `finally` discards whatever
text stands there (`executor.py:136-139`), and an Enter on the empty prompt is
reported FINISHED (run `PathsCross`).  Other facts that the model shows: preparing
again compares only the terminal of a remembered command; an id that stays
remembered makes the polled recovery of orphans look away (`AuthorityReturns` says
so); `execute_external` of an id whose execution exists already leaves it remembered
(`runtime.py:767`).

`PathsConclude` assumes as little as the v2 path: weak fairness of the threads and
strong fairness where they wait for `_external_prepare_lock`, of the window's poll,
its discard after a forced stop, and recycles.

## 3. Sessions: `MCShellSessions`, `ControlChannel`

`ShellSession` has what both sessions share: an execution `x` with its record, the
texts and marks on their way (`pty`, `frame`), what was reported.  A command prints
a few pieces; a piece may end without a newline, and one kind begins as the echo
ends, because the filter of the echo looks for that.  `PowerShellSession` adds the
reader with its phases and fences, marks that travel by another way than the text,
Ctrl+C with its recovery and the restart; `LinuxSession` the PTY with marks in the
text, and the loss of the connection.  `setting`, fixed at the start, says which
session it is and what happens to it (`Each` in `MCShellSessions`: output of
different shapes, a cancel, a session that is lost).

`OutputIsTrue` is the heart: reported output is a contiguous part of what the
command itself printed.  It is not all of it: text that arrives before the fence of
BEGIN, and ends as the echo of the command ends, is taken for the echo
(`windows_terminal_session.py:2378` drops it from `capture_prefix`), against the
comment at line 2436; `ShellOutputLoss.cfg` shows it, and `OutputIsKept` bounds the
loss by the beginning of the output.  `VerdictIsTrue` ties a result to a run,
`RunsInOwnExecution` excludes that a line left from one execution runs in the next,
and `ExecuteReturns` says that a waiting execution which is cancelled, lost or ended
returns.  Fairness: the threads of the session, the console and the editor go on; a
program need not end; an application that cancelled a remote command which does not
end closes the session, as `TerminalManager._recover_after_cancel` does.

Assumed: when END came, nothing is still on its way after the two seconds the code
waits; the restart takes longer than one poll of 0.10 s; the start of the remote
session is one step.  The display and its filters are left out.

`ControlChannel` is the pipe those marks use: frames in parts, the thread that
answers, the scripts in the shell with a Ctrl+C in the middle of any of them, and
`close()` with its probe of a thread that is still connecting.  A command starts on
the channel's answer to its own announcement, messages handed on are whole, and a
closed session leaves no thread behind.  A Ctrl+C between a question and its answer
leaves a stale answer in the pipe, which may serve as the answer to a later PING
but, as the answer to BEGIN carries its number, never starts a later command.  Assumed: the pipe exists 0.25 s after the probe, and
its buffers do not fill.

## 4. Around the runtime: `MCBridgeServices`

Five services without common state are composed as alternatives: `part` says which
of them a behaviour is about, the others stay in an initial state, and each property
is guarded by its part and includes the module's type invariant.  The composition
saves configurations; it adds no interaction, since the code has none here.

`CommandOutput`.  A session's callback appends pieces, the worker synchronises and
concludes, a reader polls or waits with a cursor; each write may fail.
`NothingIsLost`: a reader has the beginning of the stored text and nothing twice, at
its end all of it, and a FINISHED row holds what the command printed: all of it in
the ledger, the last `MaxFinal` of it in the store of external executions
(`external_execute_store.py:174`: 250000 characters).  A failed append leaves a gap in the store that
`sync_output` does not fill, because some chunk exists (`execution_ledger.py:223`);
a store that fails at the end turns a FINISHED into a FAILED with empty output; one
that fails twice leaves the row RUNNING.  `WaitersAreServed`: a reader waiting by a
generation number is woken although an append falls between its look and its wait.

`TurnTimer`.  Any call of the API begins a turn if none runs; pages report that they
stopped generating; the window asks for a wrap-up.  `GateIsTimely`: the adapter's
decision, made of two critical sections (`chatgpt_companion.py:89`), is one that was
true at some moment of the question; a turn's end is announced once.
`TurnEndsWithPage` needs the content script's look every second and posts that
arrive unless lost; a lost finish leaves the turn RUNNING until its deadline refuses
new work.  `ensure_chatgpt_turn` is not atomic (`runtime.py:160`): between its look
and its claim another call may have begun a turn, which is then started over
(`RunningTurnIsKept`, in no run because TLC violates it).

`RuntimeConnection`.  Bridges stop, crash and start; clients load `runtime.json`
through a cache keyed by two signatures and reuse pooled connections.
`CallsReachTheBridge`: a call reaches the bridge that `runtime.json` named at some
moment of its load, and receives the answer to its own request.  A file that is
replaced *twice* during one load is outside (`doubled`).

`ManagedProcesses`.  Pids are used again, by strangers or by what a bridge of another
session starts (`OthersStart`); bridges crash and leave processes; what a manager
looks at may be unreadable.  `OnlyOrphansAreStopped`: the manager of the stack, which
compares creation times and for which "UNKNOWN is not ORPHAN"
(`author_mcp_manager.py:78`), stops nothing of a bridge that lives, and no failed
start leaves a process nobody knows.  The manager of the tunnel is weaker: an ancestor
it cannot read ends its search as if no bridge were above
(`secure_tunnel_manager.py:201-207`), and it terminates whatever has the pid by then
(lines 220-222).  So it may stop the tunnel, or through a pid used again any process,
of a *living* bridge of another session; the property says exactly this, and that it
does so in no other case (`same`, `read`: what is stopped was seen, wholly).
`LiveOwnerIsNeverKilled`, after `test_live_codebridge_owner_is_never_killed` in
`tests/test_process_lifecycle_recovery.py`, fails.  So does the converse: a tunnel is
recognised by `--profile` in its command line only (`secure_tunnel_manager.py:165-175`),
while line 444 starts it with `run --config`, so that an orphan stays
(`OrphanTunnel.cfg`; compare `tests/test_process_lifecycle_recovery.py:65`).  A process
that ends between being verified and being terminated makes the start fail.

## 5. The exchange: `ProtocolExchange`

A client posts REQUEST/SYN, RESPONSE/SYN and RESPONSE/ACK; each post is served by
a handler thread of the adapter.  `hand[h]` is where a handler stands,
`waiter[h]` the client that still waits for it.

| model | code |
|---|---|
| `Begin`, `Post`, `GiveUp` | `ProtocolHTTPClient.exchange` |
| `ReceiveRequest` | `receive_request`, refusing another content |
| `AnswerAgain`, `TakeRequest`, `ReadControl`, `Perform`, `CallReturns`, `PrepareResponse` | `response_syn` under the lock of its request |
| `ReceiveAck` | `receive_response_ack` |
| `Apply`, `Refuse`, `ApplyStray`, `Effect` | the runtime; a start it knows by its request is not done again |
| `CallTimesOut`, `Crash` | the call goes on without a handler (`stray`) |
| `RequestWrapUp`, `NewTurn` | the turn timer, seen from here |

`Perform` and `Apply` are separate steps, as are `Apply` and `CallReturns`: this is
where the adapter may die or stop waiting while the runtime has, or has not, done
what it was asked.  `calls` and `crashes` are histories.

`NeverRepeatedUnlessCrashed` bounds calls by one more than the crashes of the
adapter.  `AnswersAgree` says that what any client was told is what the ledger
holds, for the content the client sent.  `BlockedMeansNotStarted`: an answer
"Nova execucao bloqueada" is only given for what was not done, if the adapter never
crashed; after a crash the turn control is read anew and the answer can be wrong
(`adapter_server.py:133`).  `ProtocolReplay.cfg` shows what `PROTOCOL.md:16` does not
hold to: after a crash between an operation and `prepare_response`, an operation
that the runtime does not know by its request is done again
(`adapter_server.py:153`).

`ExchangeService`: contents are accepted once, answered once and only if accepted,
confirmed only if answered.  `WaitingIsAnswered` needs strong fairness of handlers,
which contend for the lock of a request, and a runtime that answers each call
(`runtime_client.py` has a timeout on each).

## 6. The index in use: `ProductionTransition`

The files survive crashes, locks do not.  A driver's steps are the gaps between two
file writes, each atomic; `writer` is the exclusive byte lock, `pin` and `wpin` the
shared ones of requests and their workers.

| model | code |
|---|---|
| `Prepare`, `Admit`, `Refused` | preflight without the lock; `publish_validated_generation` and its gate |
| `WriteJournal`, `SwitchPointer`, `VerifyTarget`, `Commit` | its writes, in order |
| `ProveCandidate`, `Decide`, `Look`, `ProveLegacy` | the drivers, which look at files without the lock |
| `Rollback`, `Revert`, `JournalRevert`, `ArchivePointer`, `Unlink` | `rollback_pending_to_legacy`, `revert_active_to_legacy` |
| `Reconcile` | an operator calls the recovery |
| `StartRead` ... `FinishRead`, `ServerDies` | `production_generation_read`, `rag_bridge`, the worker process |

The gate compares evidence of many kinds, so in the model it may refuse whenever it
likes and passes only if pointer, journal and archive let it.

`ReadersSeeServedGeneration`, `PendingIsRecoverable`, `ConsumedForGood` and
`NoSwitchWithoutEvidence` hold with any number of drivers (the last two are proved
and no longer run).  `ReportsAreTrue` is checked for one driver only and *fails with
two*: a second driver whose own publication was refused still decides its rollback
by the pointer it finds, and reverts the first driver's release
(`v1_incremental_release.py:136`).  `OneVectorWorker` is checked without a death of
the MCP server; `GenerationOrphanWorker.cfg` shows that it fails with one
(`rag_bridge.py:131`), against the comment in lines 122-125.  `GenerationService` is
the promise to readers: what they hold was proved when they took it, and is still
served.

Fairness: drivers that run go on; an operator reconciles what is pending, since
nothing else does; workers end, by their timeout at the latest, and requests finish.

## 7. The queue: `IncrementalJobQueue`

Time is discrete and relative: `ttl` counts a lease down, `wait` the time to the
next attempt, `lag` the ticks since an operation read the clock.  A transaction
judges leases by `ttl + lag`, which is what `lease_until_epoch > now` says with a
`now` that is `lag` old.  The random token is the number of the attempt: every
reservation raises it, so it is as unique.

| model | code |
|---|---|
| `Enqueue` | `enqueue_source_event` |
| `Begin`, `Claim` | `claim_approved_job`: expiry, at most `Batch` due jobs, rejection of sources that moved |
| `Build`, `BuildFails` | the builder, which reads the file as it is then |
| `AckLooks`, `AckValidates`, `AckCommits` | `acknowledge_staged_bundle`: look, validation, transaction |
| `Reports` | `report_staging_failure` |
| `Beat`, `Renew` | the heartbeat thread |
| `SourceMoves` | commits and edits in the project |

`LiveReservationIsTheOwners` is the heart: while its lease runs, a reservation is
ended only by the worker that holds its token.  `StagedMatchesEvent` ties what was
staged to what was observed, although the source moves at any time.  The converse
promise of the docstring (line 269), that only an *unexpired* owner acts, is what
`QueueStaleClock.cfg` refutes (`incremental_job_queue.py:277`).

Fairness: time passes, a worker that runs goes on, and the application calls
workers again and again.  `EveryJobConcludes` needs no more: a batch of rejected
jobs ahead of a job is used up, because each rejection concludes one.

## 8. Building and searching an index: `MCIndexServices`

Eight services, composed as alternatives like those of section 4.

`ModelRuntime` (`ModelsAreExclusive`).  Activation, unload and idle unload of the
models, the processes behind them, the fallback to the CPU, downloads through
`.partial` files.  One process runs at a time, released means gone, and only whole
files count as models.  A process that outlives its `kill()` is forgotten; a code
model that fails between two states stays UNLOADING or LOADING and refuses for ever;
two installers share one `.partial`.  `model_manager.py` is used by tests and
benchmarks only.

`StagedIndex`, `IncrementalFiles` (`IndexesAreWhole`).  A manifest names only what is
embedded; merging keeps the documents it is not about; publishing, with its undo and
its rehearsed rollback, never loses the index in use.  Sources change between the
capture and the digest, publishers die at each rename.  A document that becomes empty
makes a merge that never validates; publication compares counts, not content; what a
dead publisher leaves needs a person.  `IncrementalFiles` deletes retired vectors
before the manifest is saved: entries torn by a death in between are excepted
(`torn`).  The split callback reads the file again; a damaged row of the cache
refuses every later pass.

`LexicalStore` (`LexicalIsExact`).  The six triggers keep the full-text tables equal
to the rows through inserts, updates and cascading deletes, and a purge takes the
rows, vectors and entries of its project and no others.  A purge has the three
stores to itself.

`TestGenerations` (`TestGenerationsAreSafe`).  The generation a reader resolves
exists, and a pending journal can be decided.  Restore and retirement do not look at
the journal (`generation_controlled_restore.py:27`), so the second part excepts what
was `meddled` with; a reader may search a generation whose publication was rolled
back meanwhile.

`UpdateRecovery` (`RecoveryIsTrue`).  Both coordinators write a journal record before
and after each change, and an attempt is counted before it runs.  A recovery recorded
as verified has restored everything, if no second worker ran at the same time
(`overlapped`: nothing prevents it, and the compensation of a stale worker then
undoes what the other verified); and one run at most records it, overlapping or not.  A `.pending` ledger left by
a death refuses later attempts; a death after VERIFIED and before its mark keeps the
ledger from TERMINAL; a torn last record keeps the journal from being resumed.

`Retrieval` (`RetrievalIsExact`).  Fusion is monotone, answers hold no near
duplicates of each other and lose nothing else, a vector search that answers with
less than it was asked for has found everything inside the filter, and a context that
is asked for with the project's root and without `allow_stale` is served only from
files that are as indexed.  Staleness is evaluated only with a root
(`context_service.py:182`), and none is the default of `get_context` and of the MCP
tool `codebridge_get_context` (`mcp_server.py:1003`): by default stale chunks are
served although `allow_stale` is False.  The cross-route search ends without an answer
if a lexical hit matches the path filter up to case only
(`experimental_scope_guard.py:19`).  An unpinned search may open the lexical store of one index and the
vectors of the next; a chunk whose metadata differs fails the search.  The path
filter ignores case lexically and not for vectors.

`Chunking` (`ChunksAreExact`).  `TextChunking` and `CodeChunking` are the chunkers as
pure definitions on files of kinds of lines; `Chunking` takes every file of up to
four or five lines through them.  Every meaningful line is in one chunk (the
decorator of a class's first method is in two), ranges are those of the content
except in the two cases in which the code refuses the file (a class head followed by
an empty line, an unclosed fence that ends in empty lines), heading paths name the
enclosing headings, overlap stays in its section, and units are symbols.  Control
statements in a class become symbols of methods; the production index stores no
symbols.

## 9. Runs

| run | instance | question |
|---|---|---|
| `CommandSafety` | 2 commands, cmd and PowerShell, 4 environments | section 2: rows, text, exclusiveness, refinement |
| `CommandLiveness` | 1 command, 1 terminal; snapshot, force stop, stop, shells that die | authority comes back, rows conclude, a cancel ends its command |
| `CommandPaths` | 2 external commands and 1 job, 1 terminal, 7 surroundings, 1 restart | Enter once, withdrawn jobs, conclusion |
| `PathsCross` | 1 external command beside 1 job | *violated*: FINISHED without having run |
| `ShellExecution` | 2 commands, 6 settings | section 3, with liveness |
| `BridgeServices` | five services, see below | section 4, with liveness |
| `ProtocolSafety` | 1 client, 2 handlers, a start and a stop, 2 contents, 2 failures | calls are bounded, blocked means not started, refinement |
| `ProtocolLiveness` | 2 clients, 2 handlers, one start, 2 contents, 2 failures | clients agree and are answered |
| `GenerationSafety` | 2 candidates, one unsound, 2 drivers, 2 requests, 2 failures | section 6, refinement |
| `GenerationLiveness` | 1 driver, 2 requests, 3 failures | reports, one worker, nothing stays pending |
| `Queue` | 1 job, 2 workers, 2 attempts, lease 2, lag 1, 2 failures | section 7, with liveness |
| `IndexServices` | eight services, see below | section 8 |

Why these bounds are enough for what is asked.  *Commands*: the conflicts are
between two commands, for one terminal or two, except that what a stale poll leaves
behind takes a third to show (`PolledRecovery`); the safety properties of this run
are all proved for any number.  The two terminals differ in whether typing clears
the prompt, so both kinds are there.  Liveness asks about one command
against everything that may stand in its way.  *Paths*: each surrounding joins the
commands and events that meet in the code (two prepared commands for the one
remembered id, a job with a prepared command for the lock and the prompt); all
events at once exceed what TLC finishes.  One restart is enough to find a former
runtime's rows.  *Sessions*: two commands are a late one and its successor, two
pieces of output a beginning and a rest.  *Bridge services*: two pieces and a reader
that reads three units at a time cut pieces in the middle; two callers race for one
turn; three bridges are the one a client knew, its successor and one that replaces
the file during the read; three pids and four births use a pid again; a cap of three
is less than the four units that two pieces have; two commands
and one interrupt leave a stale answer to a successor.  *Protocol*: two handlers are
what it takes for posts of one request to overtake each other; a client that gave
up leaves a handler behind and comes back with another.  Two failures allow a
failure in the recovery from the first.  *Index in use*: two drivers, two candidates
(one of which fails its verification after the switch) and two readers, so that a
reader and a worker can hold different locks; a third candidate adds nothing, as a
transition involves one and legacy.  *Queue*: two workers are a late one and its
successor; two attempts are the first and the last; lag 1 under lease 2 lets a lease
end while a transaction waits.  *Index services*: two documents or projects are the
one that is touched and the one that must not be; three generations are the one in
use, its candidate and a restored one; three attempts reach REVIEW_REQUIRED; four
chunks in two documents give each kind of pair that deduplication and filters tell
apart; files of four or five lines hold each construct that is closed by another.
`MaxFaults`, `MaxLag` and their likes are the only bounds that the code does not
have (`MaxLag` stands for the busy timeout of the database).  The proofs need none of
the sizes.

Runs that set `CHECK_DEADLOCK FALSE` do so because the system may come to rest: all
commands concluded, all candidates consumed, a search answered.  Symmetry is used
only where no liveness is checked.  Every property has a mutant, a definition of the
model changed as a plausible bug would change the code, which its run refutes.  A
property of a run that is a conjunction (`TerminalIsExclusive`, `OutputIsTrue`,
`EntersOnceItsText`, ...) joins what one instance answers together; the parts are
named and commented where they are defined.

Configurations that are *expected to fail*, each a disagreement between the code and
what it says of itself:

| configuration | property | what it shows |
|---|---|---|
| `CommandSessionLoss` | `FinishedRan` | a shell that died before Enter is replaced; the empty prompt completes as FINISHED (`terminal_manager.py:231`) |
| `PolledRecovery` | `AuthorityIsExclusive` | a poll frees the authority of a command that runs and two terminals execute (`runtime.py:1014`; `terminal_manager.py:218`: "outro comando ja possui autoridade sobre os terminais"; `EXECUTOR.md:29`: recovery must respect "o proprietário do terminal e o estado observado") |
| `ShellOutputLoss` | `OutputIsComplete` | output taken for the echo is dropped (`windows_terminal_session.py:2378`, comment 2436) |
| `OrphanTunnel` | `OrphanTunnelIsRecycled`; `LiveOwnerIsNeverKilled`, named in a comment | a tunnel started with `run --config` is not recognised (`secure_tunnel_manager.py:165`); the tunnel of a living bridge is stopped when an ancestor cannot be read (line 201) or its pid is used again (line 220) |
| `ProtocolReplay` | `ReplayIsIdempotent` | an operation is done twice after a crash (`adapter_server.py:153`, `PROTOCOL.md:16`) |
| `GenerationOrphanWorker` | `OneVectorWorker` | two vector workers once the server died (`rag_bridge.py:131`, comment 122-125) |
| `QueueStaleClock` | `OnlyUnexpiredOwnerActs` | an expired owner acts (`incremental_job_queue.py:277`, docstring 269) |

With `PathsCross`, which `PROJECT.json` lists as a finding, these are eight.

Hazards listed there that no property of a passing run catches, because the code lets
them happen or the instance is too small: a session that dies before Enter
(`CommandSessionLoss`), a stop between RUNNING and Enter and the stale poll
(`PolledRecovery`), a late Ctrl+C that falls on the next command (excepted as
`disturbed`), a script that waits for an answer of the control channel which another
one took, a vector worker that outlives its server (`GenerationOrphanWorker`), and the
progress of a job behind a batch of others (one job in the run).

## 10. Proofs

All theorems hold for any sets of requests, terminals, clients, handlers, drivers,
candidates, jobs and workers, and any numbers of failures, from the assumptions
named in the modules: distinct names (`None`, `Legacy`, no request called "stop", no
recycle called `None`), `Handlers` finite (a crash
counts the calls in flight), `MaxLag < Lease`, and what the sets of events and
threads are.  Where one module joins several services the assumptions are its own:
`BoundsAssumption` of `ShellSession` says that there is a command and that a setting
has one of two kinds of shell, pieces of output and numbers of cancels and closes;
that of `MCBridgeServices` says that its bounds are numbers, the sizes of pieces,
reads and the cap positive, and that there is a pid (no pid is 0, which the code uses
for "none");
`ServicesAssumption` of `MCIndexServices` that the two names for "nobody" are
nobody's, that some content is not empty, as an index is built from text, that
the contents of a file have lengths of which one is the longest, and, for searches,
that chunks are finitely many and, like documents, ordered as numbers are (the code
breaks ties by their names), that the filters speak of chunks, and that likeness is
symmetric, as equal signatures and the Jaccard index of `dedup.py` are.
`LinesAssumption` there says what a line is to the chunkers: a chunk may have at
least one line, a log marker occurs in logs only (elsewhere nobody looks for one),
indentation is a number, and braces are in lines that are not blank.

`CommandRuntimeProofs`.  `Typed` strengthens `TypeOK` with `Placed`: whoever has
begun has a terminal, and a thread that cancels stands where its target makes
sense.  `RowsHaveThreads`: most steps leave a row alone (`LeavesRowsAlone`: neither
state nor program counter moves; lemmas `CancelLeavesRows`, `SurroundingsLeaveRows`),
and each of the others moves both.  `EnteredAtMostOnce` rests on `TextOnce`, which
says where the text of a request can be: nowhere before its start call has typed it,
and from then on entered or on a prompt but not both and on one prompt only.
`AtMostOnce` alone is not inductive, since a second copy on a prompt would violate it
one step later.  Whose turn it is takes three invariants, each under the surroundings
it needs.  `RunInv`, always: a start call holds `_phase5b_lock`, a stop holds it
between its look and its discard (`Locked`), the thread that holds a session stands
between its Enter and its leaving (`Held`), and unless somebody polls its row is
RUNNING (`RowsRun`); hence no concluded row runs.  `AuthorityInv`, undisputed: one
command at most holds the authority, and what is prepared is its terminal
(`OneHolder`); a text that waits was never entered, and that of a command cancelled
before Enter is gone.  `PromptInv`, in quiet surroundings: a prompt shows the text of
the holder from its typing to its Enter and is empty otherwise.  `OneAtATime`,
`CancelledNeverRuns` and `EntersItsOwnText` follow.  `ConcludedForEver` follows from the table of transitions, which
every writer goes through, or writes only live rows.  `RuntimeImplementsService` maps
each step to one of the service or to a stutter.  What the operations of the
terminal manager do to its types stands first, here and in `CommandPathsProofs`:
the two drive the same manager by different threads.

`ShellSessionsProofs`, on both sessions under one specification.  `Common`: record,
flag and cancel belong to the command that the executing thread is at, and only what
the shell was told to run (`Pressed`) has run, once.  The rest follows a text from
the keys through the line editor to its run, and the marks from the shell back to
the record; neither `VerdictIsTrue` nor `RunsInOwnExecution` says anything of the
keys, where what violates them is prepared steps ahead.  `PowerShellInv`: once
PROMPT_READY tells of the command's own text, nothing of an earlier one is left on
the way (`PromptSound`), so before the key that runs a command no other text comes
and, unless somebody disturbed it, its own is not erased (`RunSound`, `LineSound`);
a BEGIN or END names a command, and the record takes one only for its own
(`EndSound`).  `LinuxInv`: the marks of bash name nobody, so it is the order that
keeps one command's marks out of the next one: a command begins when nothing is told
to run and nothing of what ran is still to be read (`Quiet`); F12 and Enter stand
side by side, of one command only (`EnterSound`); bash is in the state which the
phase of the record says (`PhaseSound`), and after STATUS only prompts come
(`MarksSound`).  `Owned` and `Intact` say what the line will be when the keys before
a place are read: a Ctrl+C may take the text (`Excused`) but never leaves another's.
`SessionsInv` is both; that it is inductive is `StaysSound`, and `SoundIsTrue` and
`RunsOnce` draw the two properties from it.

`ShellOutputProofs` goes on from there: `OutputStaysTrue` says for any commands, any
output, cancels and losses that what is reported is a command's own, in order, and
whole but for what the echo may swallow.  `OutputIsTrue` alone says nothing of text on
its way, so `OutputInv` follows the output from the program to the result.
`Copies(p, c, s, a, b)` says that the tokens `s` carry the pieces of `c` from the
`a + 1`st to the `b`th of the printed `p`: it counts at each token instead of
selecting recursively, so parts are joined, split and cut without induction
(`CopiesJoin`, `CopiesAt`, `CopiesCut`), and `AwaitStart`, `Capture` and `Drain` have a
lemma each on what they leave.  In a PowerShell session the record, what it holds
back, `pty` and `frame` are consecutive parts (`CaptureSound`, `DrainSound`,
`FrameSound`); before its start mark nothing of a command is on its way and behind it
all of it (`WaitSound`), the record follows the dialogue of BEGIN and END
(`FencesSound`), and a command ends once (`EndsOnce`).  In the Linux session the one
stream has BEGIN before the output (`BeginSound`), and status and prompt behind it
(`PassSound`).  A command of which an end was told writes no more (`Silent`), so what
was reported stays whole (`ReportedSound`).  `LinesIs` ties the count to the recursive
`Lines` of the property; its induction is on a number, as the least place where it
fails (`LeastOf`).

`CommandPathsProofs`.  `EntersOnceAndItsText` joins two invariants.  `EnterInv`: an
execution whose row is fresh is untouched and nobody stands past its Enter, so a
repeated call finds a row that is no longer fresh.  `PathInv`, as long as one path is
in use and nobody disturbs it: one thread stands between reservation and conclusion
(`LockHeld`, or the engine), a text stands only on the prompt of the terminal it is
prepared for, and whoever is ready to execute finds its own.  `WithdrawnStaysUnrun`
follows from the first: a job cancelled in the store before it ran is never fresh
again.

`ProtocolExchangeProofs`.  The inductive invariant `IInv` is what each thread may
rely on: a client on what it was told (`ClientKnows`), a handler on holding the
lock of a request without an answer (`HandlerKnows`, `OneServes`, `LockHeld`) and on
where its client stands (`ServesPost`), the runtime on having been asked only for
accepted requests (`EffectsAccepted`).  `CallsCounted` sharpens the bound on
calls: the one call beyond the crashes has been made only if a handler is past it
or the answer is stored.  `CalledOnceUnlessCrashed`, `ClientsAgree` and
`ExchangeImplementsService` follow.  `BlockedIsNotStarted`: blocked is answered from
the control read before the call, under the lock of the request, and while nothing
has crashed `CallsCounted` says that such a handler's request has not been called.

`BridgeServicesProofs`.  A behaviour is about one of five services, and the parts
that rest do not move (`OutputRests`, `TurnRests`, ...), so each has an inductive
invariant of its own.  `OutputInv`: a row concludes only when the thread has nothing
more to write, and holds all that was printed or the last of it (`RowSound`), and what
a follower has is a prefix of the stored text; without failed writes the stored
pieces are what was printed.  `TurnInv`: what a caller has
read of the turn is remembered with what was true since (`Knows`), because the two
reads of the gate are not one: an answer need be true only at some moment of the
call.  `ConnectionInv`: what a thread is about to load or has loaded is bounded by
the file and by the instance that was there (`Loads`), an idle connection has
nothing on it, is nobody's and is idle once (`Waits`), and no two calls are on one.
`ProcessInv`: what was found keeps the identity it was found with or is no longer
there, so what the manager of the stack stops is an orphan even if a pid was used again
between the look and the kill (`FoundSound`); what that of the tunnel has looked at is
no child of its own bridge, and if it is still the same and was read wholly nobody's
that lives (`TunnelSeen`); until the children of this start are recorded its
pids are not among the stack's.  `ChannelInv`: there is at most one message or its
answer in the pipe until a script is interrupted (`PipeSound`), and what is on its
way back answers something taken (`AnswersSound`).

The last part of `BridgeServicesProofs` is about the index that the bridge reads,
`ProductionTransition`.  `TransitionInv` says that the holder of the lock is the driver
between two writes (`HolderStandsInside`), that its step tells what the files say
(`FilesMatchStep`), that readers exclude it, and that with nothing pending the
pointer names what may be served (`ServableUnlessPending`).  A crash drops the lock
in the middle: only what `PendingIsRecoverable` says remains, and this is enough to
begin the recovery.  `VectorWorkersAreSerialized`: unless the server dies under its
worker, whoever's worker is about holds the semantic lock.
`LoneDriverReportsTruth`: a driver that is alone has no verdict before its last
step, and that step reads the files the verdict is about.

`IndexServicesProofs` treats seven of the eight services of `MCIndexServices` in the
same way; chunking has a module of its own.  `TestsInv`:
who is past the switch or removes a generation has the lock, and a reader has locked
its generation before it looks whether it is there, so what is removed is nobody's.
`RecoveryInv`: unless workers overlap, one is at work at a time, and from the final
check on everything is back and nobody stands where it could change it
(`NobodyOverlaps`).  `ModelsInv`: a process that can be ended is remembered by the
lifecycle whose turn it is and by no other (`Remembered`, `LivesSound`); that at most
one model has one follows.  `StagingInv`: "a manifest means a whole index" is not
inductive, as the manifest is placed last and vouches for what was copied before it;
the invariant says of each step of the publication what the stores in place have in
common with the copy (`PublishSound`), and what is set aside and what comes in agree
at each step of the rehearsed one (`InUseSound`).  `FilesInv`: an entry's chunks are
its own, so that writing or retiring those of one file touches no other
(`ChunksAreOwn`), and how far the chunks of the changed file are embedded when its
entry is written (`EmbeddedSoFar`).  `LexicalInv` keeps the projection equal to the
words of the rows through every insertion and deletion (`SharesStay`,
`PurgeLeavesNothing`), and the order of a purge gives the action property.

`RetrievalInv` says how many rankings there are at which step and that nothing is
fused before the last of them (`RankingsMatchStep`), and that of a file which is
late nothing was served (`LateIsStale`); the other conjuncts are proved where the
lists are made.  What `Total`, `Only` and `Deduplicated` compute from left to right is
proved for sequences of any length without the library's induction: if such a
function did not exist, there would be a least length that has none (`LeastOf`,
`StepsExist`), and what holds at the beginning and is kept by each step holds at the
end (`Climb`).  `SortedIs`: in a strict total order the numbers of predecessors are
all different, so that the place chosen for a rank exists.  `DominatesMeansBefore`
gives monotony: a chunk that every ranking prefers has no smaller sum and a smaller
best rank.  `DeduplicatedIs`: whatever is dropped is like something kept before it.

The last part of `IndexServicesProofs` is about the queue, `IncrementalJobQueue`.
`AttemptsMatchState` (a job in RETRY has an attempt left, one never reserved has none
used) makes the bound on attempts inductive; `WorkersMatchStep` ties a worker about
to commit to a good bundle. `ConcludedForGood` and `LiveReservations` are steps taken
under that invariant: only four actions write a row (`WhoWritesRows`), and each looks
at state, token and lease first.

`ChunkingProofs` proves `ChunksStayExact` for files of any lines and length and any
limits.  `ChunksInv` only says that what is cut is what the chunkers make of the text;
the rest is about the definitions, that is, about what loops in the code compute.
Each is brought to one form, sets of parts of the text put in order (`InOrderIs`),
of which the property asks three things: parts are apart, they are exact, and no
line that means something is between them (`Parted`, `Exact`, `Held`).  *Logs*: after
each line, everything before the open section is emitted (`LogScanned`, by `Climb`).
*Braces*: a block's end is the first place where as many were closed as opened
(`Count`, `CloseOf`), so that methods lie inside their class, and what `Accepted`
keeps does not meet (`KeepingExists`).  *Python*: two blocks by indentation are apart
or one in the other, a unit ends before its first method, and a line has two
holders only if it decorates that method (`HoldersIn`, `Twice`).  *Markdown*: a line
has one role (`RolesAre`), headings are outside fences, sections reach from heading
to heading, and the stack of headings holds what `Under` says, heading by heading
(`StackIs`).  That the recursive functions exist at all, for every length, is proved
by the least length without one, as for searches (`StackExists`).

*Proved and in no run*, because the proof covers every instance: type correctness of
the five core modules and `SessionsInv`, `AtMostOnce`, `RowMatchesThread`, `ConcludedRowsAreFinal`,
`ConsumedForGood`, `NoSwitchWithoutEvidence`, `AttemptsAreBounded`, `ConcludedIsFinal`.

*Only model-checked*: all liveness, as temporal reasoning under fairness and `ENABLED`
are beyond the prover.  Every safety invariant and action property of a passing run is
stated by a theorem.  No module with a theorem declares a RECURSIVE operator.

## 11. Not modelled, and what remains

Not modelled: the HTTP server and entry points (transport without state; what a
route does is in the runtime's models), the tools of the MCP server (requests and
answers put into words, and checkpoints appended to a file), the offline supervisor
and its gates (functions of evidence files around a durable fence), inventories of a
working tree (file names and the output of git), configuration, credentials and
migration (single atomic files), window, telemetry and sound, benchmarks and the
launcher.  Within modelled components: what a model computes, tokenization, security
descriptors, the visible screen and its filters, leases and one-shot authorizations
of the test generations, fingerprints of live stores, the updater and the supervised
shutdown.  `PROJECT.json` names these under each component.

In the order of worth:

1. The v2 path beside `CommandPaths` on one manager: the borders of section 2 say
   that one path's stop and discard reach the other's text.
2. `TurnTimer` in place of `RequestWrapUp` in `ProtocolExchange`.
3. The supervisor with its fence and tokens; the updater and its shutdown.
