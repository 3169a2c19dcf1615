# Formal model of adaptive-rag

TLA+ modules, TLC configurations and TLAPS proofs about the Python service in
`src/`. Paths below are relative to `src/src/adaptive_rag/` unless they start
with `src/` or `docs/`.

adaptive-rag is a retrieval-augmented chat service over PostgreSQL. Its
concurrent core is a durable job platform: any number of worker processes claim
jobs from shared tables, execute typed handlers, and finalize them through a
fencing token, while reapers, cron schedulers and operators change the same
rows. Around it stand the knowledge pipeline (sources, versions, chunks, vectors,
graph), the searches over it, the chat, and the accounts, reviews and settings.
All of them are modelled here, each as the transactions that really overlap.

Contents

1. The system: components, state, operations, interactions
2. The modules and how they correspond to the code
3. The runs: what they check, bounds, fairness
4. The proofs
5. Disagreements between code and documents
6. What is only model-checked, and what is not modelled
7. The plan

## 1. The system

### Job platform (`jobs/`, `db/repositories/job_runtime.py`, `db/models/job*.py`)

| Part | State | Operations | What makes it hard | What makes it correct |
|---|---|---|---|---|
| Jobs and attempts | rows of `jobs`: status, `current_attempt_id`, `retry_count`, `cancel_requested_at`, `finished_at`, `version`, `result_json`; rows of `job_attempts`: number, status, lease | enqueue; claim; heartbeat; complete; retryable failure, block, dead letter, confirm cancelled; reap; cancel, retry, unblock | slots that survive the loss of their lease; commits whose acknowledgement is lost; operators acting on what they read before | one live attempt, unique tokens, one result, bounded executions, no lost or rewritten history, no lost job |
| Compatibility routes (`ingestion_ops.py`) | the same rows | requeue without lock, fence or version | runs beside the platform | the same |
| Worker process (`jobs/worker.py`) | event loop, one batch of slots, threads, a semaphore, the row in `job_workers` | poll, reap, run a batch, drain, shut down; heartbeat of the process | threads that cannot be cancelled; cancellation in the middle of a transaction; two writers of the presence row | capacity is never lost or doubled, a drain leaves nothing half done, a shutdown ends |
| Claim admission (`claim_from_queue`, `jobs/dispatcher.py`) | rows of `job_queues` and the dispatch state by scope, advisory locks | lock the queue, walk scopes and candidates, count, lock handler and key, claim | concurrent counts, locks of several queues, payloads refused inside the transaction | limits hold, no double claim, no stuck transaction, no starved scope |
| Cron scheduler (`jobs/scheduler.py`, `jobs/schedule_service.py`) | rows of `job_schedules`: cron, policy, `next_run_at`, `last_scheduled_for`, version | tick of a replica; create, update, pause, resume, archive, run now | clocks read before locks, replicas, backlogs | every occurrence is handled once |
| Retention, metrics | terminal rows | batches of deletes; aggregates | retries of the rows being deleted | open jobs are never deleted |

A client enqueues in its own transaction (a trigger notifies idle workers). A
worker claims in one transaction, executes without one, and finalizes in
another. Nothing but the tables connects the processes, so that every
interaction is a race between transactions. The retention time, the leases and
the schedules are compared with the wall clock of whichever process looks.

### The other components

| Component | State | Operations and interactions | Behaviour to get right |
|---|---|---|---|
| Job requests (`jobs/service.py`, `jobs/retention.py`) | rows of `jobs` with an idempotency key, a partial unique index over the open ones | enqueue, retry of a dead letter, batches of retention; pages of the list | one open job of a key, answers that name it; a listing misses nothing |
| System tasks (`system_scheduler.py`, `db/repositories/system_tasks.py`) | one row per task: holder, lease, last start and success | one transaction per tick: read, lock, decide, run, close | no lease is left behind; the interval is kept |
| Ingestion (`ingestion_ops.py`, `ingestion/pipeline.py`, `knowledge_lifecycle.py`, `authoring.py`) | a source with metadata and soft delete, documents and versions, two kinds of jobs | authoring, resync, ingest and index handlers | no version twice, none forgotten, the last edit arrives |
| Index of a version (`ingestion/indexing.py`, `contextualization.py`, `embeddings/`) | chunks, summaries, dense and sparse vectors | runs that call a provider in batches inside one transaction | vectors belong to their chunks; whole or not at all |
| Chunking (`chunking/semantic_markdown.py`) | none: three loops over a text | parse, split, pack | the text comes back, sizes, overlaps, headings |
| Retrieval (`retrieval/`, `rerank/`) | none of its own | searches, fallbacks, fusion, graph, rerank, a statement each | answers are current, distinct and in order |
| Graph projection (`graph/`) | a projection row, Neo4j | rebuild, query by query; expansion of seeds | "ready" means complete |
| Chat turn (`chat/service.py`, `api/routes/chat.py`, `db/repositories/chat_audit.py`) | session, messages, guards of the process | turns, streamed or plain; archive and delete | what a client saw is stored; no session or guard is left busy |
| Chat run (`chat/qwen.py`, `chat/tools.py`, `chat/audit.py`) | tool rows, drafts, usage rows, the stream | calls with retry, tools, second model, pieces | audit, citations, usage and stream agree with the answer |
| Reviews (`api/routes/knowledge.py`, `user_memory.py`) | proposals and their sources; memories and their reviews | submit, refine, approve, reject, edit; injection | a proposal becomes one source; only approved memories are used |
| Accounts (`api/routes/auth.py`, `db/repositories/users.py`) | users, memberships | setup, roles, suspension, members | one setup, the last administrators stay |
| Sessions (`auth.py`, `security/human_auth.py`) | credentials, sessions, login attempts | login, change, reset, logout | revocation reaches every session; the throttle holds |
| Runtime settings (`db/repositories/runtime_settings.py`, `provider_connections.py`) | connections, catalog, slots, pools | choose, add, rotate, delete, list models | choices exist, a rotation takes effect |
| Migrations (`src/alembic`) | the schema and its rows | upgrades and downgrades | the schema is that of its revision; rows survive as promised |
| Evaluations, acceptance gates, CLI, MCP server, web frontend | files and reports; none on the server | sequential scripts, thin adapters | agreement with the services |

`PROJECT.json` lists each of them with its status, and under `hazards` what in
this code can go wrong and is hard to test, at the line where it would.

## 2. The modules

| Module | Models | Extends or instantiates |
|---|---|---|
| `JobLifecycle` | the promise of the platform: states, tokens, results | |
| `JobPlatform` | rows, slots, reaper, clock, operators, one action per transaction | instantiates `JobLifecycle` |
| `JobPlatform_proofs` | the theorems about `JobPlatform` and `JobPlatformCompat` | extends `JobPlatformCompat` |
| `JobPlatformCompat` | the platform with the compatibility retry beside it | extends `JobPlatform` |
| `WorkerProcess` | one worker process | |
| `ClaimAdmission` | the claim transaction, statement by statement | |
| `JobScheduler` | schedules, replicas, operators | |
| `CronOccurrences` | the expansion of a cron expression in a time zone | |
| `KeyedJobs` | the promise of an idempotency key | |
| `JobRequests` | enqueue, retry, retention | instantiates `KeyedJobs` |
| `JobListing` | a listing, page by page | |
| `SystemTask` | replicas of the in-process scheduler | |
| `Ingestion` | one source from the authoring routes to the index job | |
| `ChunkIndexing` | the index of one version | |
| `Chunking` | the chunker | |
| `Retrieval` | one search | |
| `GraphProjection` | rebuilds of the graph, and searches of it | |
| `ChatTurn` | the turns of one session in several processes | |
| `ChatRun` | the run of the model within a turn | |
| `KnowledgeReviews` | proposals and memories under review | |
| `Accounts` | users, roles, memberships | |
| `HumanSessions` | passwords, sessions, the throttle | |
| `RuntimeSettings` | connections, catalog, slots, pools | |
| `SchemaMigrations` | every revision, up and down | |
| `ClaimAdmission_proofs` | the theorems about `ClaimAdmission` | extends `ClaimAdmission` |
| `Knowledge_proofs` | the theorems about `Ingestion`, `GraphProjection`, `ChunkIndexing`, `Retrieval` and `Chunking`, and about the five together | extends `MCKnowledge` |
| `JobRequests_proofs` | the theorems about `JobRequests` and `KeyedJobs` | extends `JobRequests` |
| `Processes_proofs` | the theorems about `WorkerProcess`, `JobScheduler` and `CronOccurrences`, and about the three together | extends `MCProcesses` |
| `Identity_proofs` | the theorems about `Accounts` and `HumanSessions` | extends both |
| `Chat_proofs` | the theorems about `ChatTurn` and `ChatRun` | extends both |
| `Services_proofs` | the theorems about `SystemTask`, `JobListing`, `KnowledgeReviews`, `RuntimeSettings` and `SchemaMigrations`, and about the ten parts of `MCServices` together | extends `MCServices` and the proofs of the other six parts |
| `MCProcesses`, `MCServices`, `MCKnowledge` | several small instances in one run | the modules of their parts |
| other `MC...` | the small instances that a cfg cannot write, with their symmetry where it is sound | the module of that name |

Definitions whose name ends in `Fault` are no part of any specification: each is
the definition after it with a plausible bug, and shows that some property
would notice that bug.

**JobPlatform.** `job[j]` is the row of a job, `attempts[j]` its attempts by
number. Attempt ids are fresh UUIDs in the code and numbers here; the number of
an attempt is as unique within its job as the id. Times are reduced to what
the code compares: `due` is `run_after <= now`, `lapsed` is `lease_expires_at <=
now`, `finished` is `finished_at IS NOT NULL`. `exec[w]` is the local state of an
execution slot: what it claimed, whether its heartbeat has set the `lost_fence`
event, and what the handler ended with. Every final write (`Complete`,
`FinalizeError`) tests the fence `Holds`, as `_lock_current` does, and changes
nothing if it is lost. `CompleteRaises` is the branch in which the transaction
of `_complete` fails, before or after its commit, and the slot finalizes the
error instead. `Reap` is one attempt of a reaper batch: each is locked with SKIP
LOCKED and rechecked. Operators read (`Look`) and later act (`Cancel`,
`Retry`, `Unblock`) naming the version they read, as the API and the CLI do.
`granted` is a history variable: how many attempts the job had when an operator
last requeued it.

**JobLifecycle** has neither slots nor leases nor time: a job is executed by the
holder of the newest token, moves along the transition tables of
`jobs/transitions.py` and `jobs/service.py`, and gets one result from the
holder of the newest token. `JobPlatform` implements it under the mapping
`state` = status, `token` = number of attempts, `result` = attempt whose result
is stored.

**JobPlatformCompat** adds `CompatRead` and `CompatRequeue`, the two halves of a
request to `POST .../ingestion-jobs/{id}/retry`, whose check and update are
separate statements of one READ COMMITTED transaction without a lock. `CompatInv`
says what the route leaves intact.

**WorkerProcess.** `main` is the place in `run()`, `run[<<b, s>>]` the slot `s` of
batch `b`. A slot has up to three parts that end independently: its coroutine
(`phase`), a database thread it waits for (`io`) and the detached thread of a
sync handler (`thread`). Cancelling a slot ends its coroutine only: the claim or
the final write in flight still commits, the handler still runs. `free` is the
semaphore; a slot's `lease` goes back when `_release_if_done` finds both
coroutine and thread done. The presence row keeps the two marks that the metrics
read. What jobs there are is not part of this module: a claim finds something
or nothing.

**ClaimAdmission.** One transaction per slot: `LockQueue` (row lock, paused,
queue limit), `ReadScope` (workspace limit, candidates), `ReadJob`, `Lock` (one
advisory lock at a time in order of its number), `CheckJob` (handler and key
limits), then `Claim` or `RefusePayload`. Advisory locks are held to the end of
the transaction, over all candidates looked at, and so the order within one
candidate does not exclude deadlocks between two queues; `DeadlockAbort` is
PostgreSQL's answer. The dispatch cursor is the order of the scopes by
`last_claimed_at`; `_next_cursor_time` makes the scope just served the last.

**JobScheduler.** A cron expression is the set of its occurrences in minutes. A
tick reads the clock (`StartTick`), and later locks, expands and commits in one
transaction (`Tick`); SKIP LOCKED makes two ticks equal to one after the other,
so the old clock is what is left of their concurrency. The module takes the
search for occurrences as exact, which it is in zones that repeat no local
minute, among them UTC, the default: `CronOccurrences` checks that.

**CronOccurrences** is the search itself: `ScheduleOccurrences` and
`LatestOccurrence` go through the local minutes an expression matches in the
order of croniter, which is external, and `Resolve` each to the instants it
denotes, none where the clock is put forward and two where it is put back. What a
loop over candidates comes to is said without the loop: the local minute at
which it ends (`LoopEnds`, `BackEnds`) and the instants it has met by then
(`ResultsAt`). One
schedule lives through a change of the clock with ticks at any minute, late ones
included. The meaning of an expression is stated apart from the search: the
instants whose local minute it matches (`Occurs`), and the policies over those
that are due (`Meant`).

**JobRequests** is a caller's transaction in its steps: look for the open job of
the key (`BeginEnqueue`), insert (`InsertJob`, refused by the partial unique
index if another holds the key, waiting if it is not committed), `CommitJob`,
or after the refusal look again (`LookAgain`) or answer the conflict
(`GiveUp`). A job is open or terminal; `EndJob` stands for whatever ends it.
`RetryDeadLetter` and `Retain` are the other two writers of that index.
**KeyedJobs** says what callers may expect; the refinement mapping takes the
holder of a key to be its open job.

**JobListing** has the rows as times of creation, which appear anywhere in the
order under an id that the client has not seen (ids are random), and a client
that follows the cursor (`created_at`, `id`).

**SystemTask.** A tick is one transaction that commits at its end. `tick[r].row`
is the object read by `ensure`, which the later `SELECT ... FOR UPDATE` returns
without refreshing it: the decision after a wait is made on it. SQLAlchemy then
writes only the columns whose value it changed, and so does `Close`.

**Ingestion.** `source` is the row with its metadata, `handler[h]` a handler in
flight with what it read when it began. `Stored` is the write of the whole
metadata column. A handler that lost its lease still commits: the fence is on
the job, not on the handler's session. Documents and versions are created in
`CommitIngest` together with the index job. `promised` is a history variable:
the content that the last enqueue could promise.

**ChunkIndexing.** A run is one transaction over chunks, summaries, dense and
sparse vectors (`run[r].seen` is what it found committed). `BatchAnswered` takes
the answer of one batch in any order, `SortedItems` is what the client makes of
it; `RetryCall`, `CallRefused`, `CallOverBudget` and `WrongCount` are the ways a
call fails. A text is the number of its chunk, a vector is the triple of text,
summary and model it was computed from. The statements from the first sparse
row to the commit, among which no provider is called, are one step; two runs that
overlap even there may leave a chunk with two sparse rows, which `Retrieval`
takes into account (`CommitSecondSparseRow`).

**Chunking** is the chunker as a machine: one action per turn of the loops that
parse lines into blocks, split long blocks and pack them. A text is the sequence
of the token counts of its words and 0 for white space; the properties compare
spans of that sequence with reference definitions.

**Retrieval.** `corpus` is what ingestion commits between the statements of a
search, `search` the search: `first` and `second` are its two rankings, `found`
what it found, `results` the answer. A ranking is any order of the rows that the
statement may return, the sparse rows of a chunk each in a place of its own
(`RankedRows`). `FusedKey` is the sort key of the fusion; its scores are the
quotients of `RrfScale`, which fall with the rank as the floats of the code do
(ties between them are settled by the ranks in both).

**GraphProjection.** The command of an operator in its commits and queries
(`MarkPending`, `MarkIndexing`, `LoadGraph`, `DeleteGraph`, `UpsertRoot`,
`UpsertChunks`, `UpsertLinks`, `MarkReady`); each query of Neo4j, which is
external, runs or fails, and the process may crash anywhere.

**ChatTurn.** `flight[p]` is the set of busy users of a process, for the one user
of the session; `turn[t]` a turn with its phase and what its client has `seen`.
`Leave` is the client going away at an event: the outer generator commits and
frees the guard, the inner one's cancellation is rolled back. **ChatRun** is what
happens between two of these events in the runner's thread: `runner` is the
thread with its model and calls, `answering` the queue, what was sent and the
final answer.

**KnowledgeReviews**, **Accounts** and **RuntimeSettings** share a form: a request
reads (`Ask...`, `Begin...`), and later writes what it decided. `seen` is what it
read. Writes take only changed columns, which is SQLAlchemy's unit of work, and
locks are in the steps that take them; PostgreSQL's deadlock detection is
`BreakDeadlock`.

**HumanSessions.** A secret is the number of a password, and the formerly hashed
ones are marked; `LoginSucceeds` includes the rehash of a hash with former
parameters. The window of the throttle passes at any moment (`WindowPasses`).

**SchemaMigrations.** A revision is two sequences of statements (`Up`, `Down`),
each an operator on a database of tables, columns, keys and the rows that a
revision tells apart. `Performed` runs the statements of one and `Migrated` the
revisions up to a target; a statement that is refused leaves the database not
`sound`, and a command of which that is the outcome changes nothing. Other names
of constraints and indexes, column types and defaults are left out.

**MCProcesses, MCServices, MCKnowledge.** These put small instances of
modules that share no state into one run: the first state chooses a part
(`service`, `stage`, `studied`), and only that part moves. A behaviour of such a
run is a behaviour of the part, and the properties of the others hold in it as
in their first state. No interleaving of two parts is studied by it, and none is
lost, because no action of one part reads a variable of another. Where parts meet
in the code, the module has the other side as actions of its own: `Retrieval`
and `GraphProjection` have what ingestion commits, `Ingestion` the requests of
authoring, `HumanSessions` the suspension, `KnowledgeReviews` the injection.

The property a run names for a module is the conjunction of its named parts, each
stated with a comment in the module: `TurnsAreWhole`, for instance, is
`SeenIsStored`, `RunningHasTurn`, `FollowUpSeesAnswer` and `FlightIsATurn`.

## 3. The runs

| Run | Instance | Shows |
|---|---|---|
| `one_job` | 1 job, 2 slots, 1 operator, 1 automatic retry, 2 operator actions | the safety properties of the rows under every order of stale slots, lost acknowledgements, reaping and controls; `IndInv`, the invariant of the proofs; `AttemptHistory` and `ImplementsLifecycle` |
| `recovery` | 1 job, 2 slots, fair | orphans are recovered and enqueued jobs settle |
| `compat_owner` | 1 job, 2 slots, 2 requests or actions | violation: two attempts running |
| `processes` | a process of 2 slots and 2 batches; 2 schedules, 2 replicas, 2 minutes, 1 operator action, batch of one, every policy; 3 zones, 3 expressions, every policy, 12 minutes around a change of the clock by 3; fair | capacity is exact, a batch that is not timed out leaves nothing half done, a shutdown ends though handlers may not; no occurrence twice or stepped over, cursor and mark advance, every due schedule is dealt with; the expansion is exact where the clock is never put back, losses are repeated minutes, searches end within their bound |
| `worker_presence` | 1 slot, 1 batch | violation: a draining worker looks live |
| `admission` | 4 jobs of one handler, 2 queues, 2 scopes, 2 keys, 2 slots, every limit set, one refused payload; fair | limits hold, claims are distinct, transactions end, deadlocks included |
| `admission_fair` | 4 jobs, 1 queue with room for one, 3 scopes, 2 slots, fair | every scope is served |
| `admission_poison` | same, one refused payload | violation: a scope starves |
| `cron_repeated` | the expansion of `processes` | violation: repeated minutes are stepped over |
| `services` | 2 users in 1 workspace and 2 requests; 1 person, 2 addresses, 2 logins, 2 cookies; 1 key, 2 jobs, 2 callers; 5 listed jobs in pages of 2; 2 replicas and 6 instants; 2 turns in 2 processes; 1 run of the model with 1 tool call per answer and 2 pieces; 1 proposal, 2 memories, 2 requests; 2 administrators, 2 connections, 3 changes; every revision | `AdministratorsKept`, `CredentialsKept`, `KeysHold` (with it that `JobRequests` implements `KeyedJobs`), `ListingComplete`, `TaskKeepsTime`, `TurnsAreWhole`, `RunIsAccounted`, `ReviewsStand`, `ChoicesKept`, `MigrationsAgree` |
| `knowledge` | 2 texts, 2 handlers, 2 versions, 3 attempts; 2 overlapping index runs of 3 chunks in batches of 2, 1 retry, 2 models; texts of up to 4 lines of 11 kinds; searches over 6 chunks of 3 documents; 1 operator, 2 chunks, 2 watermarks | `ContentArrives`, `IndexIsWhole`, `ChunksCover`, `AnswersAgree`, `GraphIsWhole` |
| `settings_default` | 2 administrators, 2 connections, 3 changes | violation: a pool without a default, or with two |

Bounds. Two slots are what a race over one job needs: the current owner and a
stale one; a third adds another stale one, which can do no more than the
second. One automatic retry separates the first failure, the last permitted
one and the one after it; two operator actions allow a requeue followed by an
action on an outdated view. In `admission`, two queues meet two keys in opposite
orders, which is the smallest deadlock. Two batches let a thread of the first
take capacity from the second. Expressions for every and every other minute
give on-time, single missed and several missed occurrences against a catch-up
limit of one. In the expansion three minutes stand for the usual hour, the search
for the next occurrence ends at minute 16 (`Far`), and
`CatchUpLimit` + 3 = `MaxSteps`: `TicksSucceed` fails beyond, which in the code's
numbers (60 minutes, 100 candidates) is a catch-up limit above 40. Two requests about one row are what an unlocked
read and a write in between need; a third repeats the second. Two addresses
tell the ceiling of a pair from that of an address. Five jobs in pages of two
give a page boundary with a row before, on and after it, and room for a job
that appears meanwhile. Two versions and two
handlers are a lapsed handler and its successor; three attempts let the second
be retried. Three chunks in batches of two give a full batch and a short one.
Four lines hold a heading, a fence, a list or a long paragraph with a neighbour on
either side. Two pieces and one retry give a stream that breaks after the first.

The bounds are the constants `MaxControls`, `MaxBatches`, `MaxTime`, `MaxEdits`,
`Far`, `MaxClock`, `MaxSecrets`, `MaxVersions`, `MaxAttempts`, `MaxTools`,
`MaxPieces`, `LastMemory`, `LastChunk`, `LastConnection`, `LastChange`,
`LastStart`, `LastEdit`, `LastTry` and `MaxLines`; `MaxRetries`, `MaxCatchUp`,
`BatchSize`, `MaxSteps`, `Window`, `Interval`, `PageLimit` and the limits are
parameters of the system, small here. Handlers and contents are symmetric in
`knowledge`: no action or property tells one from another, and the properties of
the run are safety properties, for which symmetry is sound. `CHECK_DEADLOCK FALSE`
stands where the system may stop: all jobs done, a worker shut down, every request
answered, an answer given.

Fairness. `JobPlatform`: time passes, some worker polls and reaps, a slot that is
not killed takes its next step, and handlers end. The last is a property of the
handlers: the worker has no timeout for them, and `Settles` is about those that
end. `OrphansRecovered` does not need it. Crashes are never fair and never
forbidden. `WorkerProcess`: the event loop runs what is ready and transactions
end; nothing is assumed of sync handlers or of heartbeats. `ClaimAdmission`:
slots poll, jobs end, paused queues are resumed; PostgreSQL grants row and
advisory locks in the order in which they are waited for, which is the strong
fairness of `LockQueue` and `Lock`. `JobScheduler`: one replica keeps ticking
(the command catches errors and goes on), and of its ticks some commit. The
parts of `services` and `knowledge` assume no fairness and have safety
properties only: a client may always leave, a provider may never answer and an
operator may never repeat a command, and nothing in the code waits for them.

## 4. The proofs

Each theorem holds for every value of the constants that satisfies the
assumptions of its module; the runs of section 3 check the same formulas on small
instances. Twenty-one modules have theorems, in eight modules of proofs. All
theorems of safety have one form: an inductive invariant `I`, with
`Init => I`, `I /\ [Next]_vars => I'` (a lemma for each action) and `I => P`. The
action properties are proved from `I` by the same split into actions. Every `I`
was model-checked before it was proved.

A recursive function is a CHOOSE, of which nothing is known until there is one;
and the library's induction theorems cannot be instantiated. Where a proof needs
what such a function computes (`Counted` of a text, `Performed` of a script,
`Migrated`), it first shows that a function with these equations exists and then
its values, both by `UpTo`: a set that has 0 and with each number below a bound
also the next has them all, which is the well-foundedness of the numbers. So
induction over data is done here on sets of numbers.

| Module | Theorems | Property of a run |
|---|---|---|
| `JobPlatform` | `Invariance`, `TypeCorrect`, `SingleOwner`, `FencingTokens`, `OneResult`, `RetryBound`, `CancelledOnlyOnRequest`, `VersionGuards`, `FinishedTerminal`, `HistoryIsKept`, `Refinement` | those of `one_job` |
| `JobPlatformCompat` | `SurvivesCompatRetry`, `TokensSurviveCompatRetry`, `HistorySurvivesCompatRetry` | `TokensUnique`, `AttemptHistory` (there without the route) |
| `JobRequests` | `RequestsTypeCorrect`, `KeysAreHeld` | `KeysHold` |
| `ClaimAdmission` | `AdmissionTypeCorrect`, `ClaimsAlwaysHold` (from `AdmissionInvariant`) | `AdmissionTypeOK`, `ClaimsHold` |
| `WorkerProcess` | `WorkerTypeCorrect`, `CapacityIsExact`, `DrainsAreClean` | `CapacityExact`, `CleanDrain` |
| `JobScheduler` | `SchedulerTypeCorrect`, `CursorIsExact`, `TicksNeverRefused`, `TicksAreTimely` | `CursorExact`, `TicksKeepTime` |
| `CronOccurrences` | `CronTypeCorrect`, `CronOccurrencesExact` | `ExactWithoutRepeats` and `OnlyRepeatsLost`, of `OccurrencesKept` |
| `SystemTask` | `TaskTypeCorrect`, `TimeIsKept` | `TaskKeepsTime` |
| `Ingestion` | `IngestionTypeCorrect`, `ContentAlwaysArrives` | `ContentArrives` |
| `ChunkIndexing` | `IndexingTypeCorrect`, `IndexIsAlwaysWhole` | `IndexIsWhole` |
| `Chunking` | `ChunkingTypeCorrect`, `ChunksAlwaysCover` | `ChunksCover` |
| `Retrieval` | `RetrievalTypeCorrect`, `AnswersAlwaysAgree` | `AnswersAgree` |
| `GraphProjection` | `GraphTypeCorrect`, `SearchesKeepSeeds`, `GraphIsAlwaysWhole` (one operator) | `GraphIsWhole` |
| `Accounts` | `AccountsTypeCorrect`, `AdministratorsAreKept` | `AdministratorsKept` |
| `HumanSessions` | `SessionsTypeCorrect`, `CredentialsAreKept` | `CredentialsKept` |
| `ChatTurn` | `TurnsTypeCorrect`, `TurnsAreAlwaysWhole` | `TurnsAreWhole` |
| `ChatRun` | `RunTypeCorrect`, `RunsAreAccounted` | `RunIsAccounted` |
| `JobListing` | `ListingsAreComplete` | `ListingComplete` |
| `KnowledgeReviews` | `ReviewsTypeCorrect`, `ReviewsAlwaysStand` | `ReviewsStand` |
| `RuntimeSettings` | `SettingsTypeCorrect`, `ChoicesAreKept` | `ChoicesKept` |
| `SchemaMigrations` | `MigrationsTypeCorrect`, `JobsGoOnAfterMigration` | `NextNumberIsFree` and `BudgetSurvives`, of `MigrationsAgree` |
| `MCProcesses`, `MCKnowledge`, `MCServices` | `ProcessesTypeCorrect`, `KnowledgeTypeCorrect`, `ServicesTypeCorrect` | `ProcessesTypeOK`, `KnowledgeTypeOK`, `ServicesTypeOK` |

The three theorems of the last row are about the compositions that the runs check:
each step is one of some part and leaves the others alone, so that the inductive
invariants of the parts hold together.

**JobPlatform**, for any sets of jobs, slots and operators and any
`MaxRetries` and `MaxControls`: every safety property the runs check holds
and the platform implements `JobLifecycle`. Assumptions: `NoJob` is no job
and the two bounds are natural numbers. The properties are not inductive alone.
`IndInv` adds

- `SlotsHoldJobs`: a slot names a job exactly when it is busy, without which a
  heartbeat may be one of no job;
- `Budgeted`: the accounting that bounds executions. Retries are charged when an
  attempt fails and executions counted when one is claimed, and an operator may
  keep the retry count of a job whose budget is spent, which grants exactly one
  more execution: so a queued job either has at most as many executions behind
  it as retries charged, or none since the requeue;
- `SeenBounded`: no operator knows a version that the row has not reached, which
  makes a bumped version different from everything read before.

Every step of the platform is of one of few kinds (`NextKinds`): it
leaves the rows alone (`KeepsRowsInv`), closes the running attempt together with
its row (`GivesUpInv`: final writes by `FinalWrites`, reaping by `ReapCloses`),
writes a row that no execution holds (`RowWriteInv`: enqueue, due times, cancel,
requeue), or appends an attempt (`ClaimInv`). Each kind keeps every conjunct of
`IndInv` (`NextInv`); `TypeOK` and `FinishedIffTerminal` are conjuncts of it.
`HistoryIsKept` and `Refinement` are action properties
proved from the same invariant, the latter by `OneJobMoves`: a step changes the
abstract state of at most one job, and along one lifecycle action.

**JobPlatformCompat**, for the same constants. Beside the compatibility retry
`IndInv` is lost: an attempt that the route leaves behind stays recorded as
running, a job that succeeded may succeed again, and no budget counts the
requeues. `CompatInv` is what holds: the fence of a running job is its newest
attempt (`FenceIsNewest`), which is enough for unique tokens; the stored result is
that of the newest attempt that succeeded; a cancelled job was asked to be; and no
closed attempt is rewritten.

**JobRequests**, for any callers, keys and parameters. Assumptions: job ids are
positive numbers and 0, which stands for an absent value, is no key and no
parameter. `RequestsInv` adds `CallsMade` (what a call in progress has read; a
pending insert is of a row that nobody else sees) and `IndexHolds`: open jobs
and pending inserts of one key are one, the partial unique index as PostgreSQL
keeps it, of which the property counts only the committed half. With it the
holder of a key is determined (`HolderFacts`), and every step is a step of
`KeyedJobs` or a stutter (`StepRefines`): a commit makes a holder of a free key, a
reuse answers with the holder, the ends and retries of jobs release and take keys.

**ClaimAdmission**, for any queues, scopes, handlers, keys, slots and limits.
Assumptions: finitely many jobs and scopes, at least one queue, columns of the
right types, a dispatch order that is total (the id of a job ends every tie) and
advisory locks that differ where their arguments do. `AdmissionInv` says of each
open transaction what it found and still relies on (`Sound`): room in its queue and
scope, candidates still queued, and, once it is about to claim, room for handler
and key under locks it holds; and that queue rows and advisory locks have one
holder (`LocksHeldOnce`). A claim of another transaction can fill room of this one
only if both hold the lock of that count, which `LocksHeldOnce` excludes
(`ClaimInv`); ends of jobs only make room (`LeaveInv`). The type invariant is a
theorem of its own because it holds the dispatch cursor to be an order of all
scopes, each in one place: a move to the end keeps it so (`ServedFacts`).

**WorkerProcess**, for any finite set of slots, not empty, and any number of
batches. `WorkerInv`: the free permits and the slots that hold a lease
(`Held`, by cardinality) add up to the capacity (`LeasesCounted`); a slot holds
a lease exactly while its coroutine or its detached thread is at work; only the
last batch has slots that go on, and unless a batch was timed out each of its
slots is `Whole`: the database thread is that of its phase. A step replaces the
rows of one slot, or, where a drain times out or a batch is started, of many;
`UpdatedFacts` counts what any such replacement gives back.

**JobScheduler**, for any schedules, replicas and expressions. Assumptions: an
expression is a set of minutes that never ends, and the catch-up limit and the
batch are positive. `SchedulerInv`: a cursor stands at an occurrence and never
beyond one that is still to come; behind it are the last occurrence and every
job, all in the past. That is what makes the clock of a tick, however old,
harmless: what it finds due starts with the cursor (`DueFacts`), so the unique
index on occurrences never refuses (`TicksNeverRefused`), and a late replica
takes nothing back (`TicksAreTimely`).

**CronOccurrences**, for any change of the clock in either direction, any
expression and policy and any bounds of the searches. The expression is a set of
local minutes, so that the proof is about sets of instants: what a loop has met when it ends is due
(`SearchSound`), and it is every due instant, or the first of them up to the
limit, unless a minute repeats (`SearchExact`, `LatestFacts`). `CronInv`: the cursor is
an occurrence and everything created lies before it. `CronOccurrencesExact` needs
of a clock put back only that what is passed over repeats a minute; of one never
put back, over minutes left out as well, it proves the policies to the letter.

**SystemTask**, for any replicas and a positive interval. `TaskInv` adds
`DueWhenRunning` (a success read is an interval behind the instant read,
unless the run was forced) and `ReadUnleased` (the object of a session is a row that
nobody had leased), the facts on which a tick decides after its wait for the
lock.

**Ingestion**, for any contents, names and handlers and any bounds. Assumptions:
the absent content is no content and there is a name. `IngestionInv` adds what a
handler knows: `HandlerFits` (the versions it listed last have another content
than it read, or it reuses their last) and `CurrentReads` (the handler of the
running attempt has read what was promised, and what it reuses or committed is
the latest version); `PromiseIsSource` and `SourcesFit`. A handler that lapsed
commits as well: its attempt is below that of the job, so that `CurrentReads`
does not speak of it, and `WritesBackFacts` shows that where it overwrites an edit
the promise is void. The number of a version is taken by one of two handlers
only, because `CommitIngest` adds one only to the versions it listed.

**ChunkIndexing**, for any runs, models and numbers of chunks and retries and any
size of a batch. Assumption: NULL is neither a model nor a vector. `IndexInv`:
of the runs that found no chunks at most one is inserting them (`OneCreator`, the
unique constraint of the ordinals), so that every other run has the summaries of
the committed rows (`KnowsChunks`); the vectors of a run are those of the chunks
asked so far, in their order, or fewer (`HasVectors`), which is why the count at
the end is a sufficient check of answers that came short (`AnswerFacts`: a whole
answer, read in order, is the batch); and what is not pending is current
(`Covers`). `InOrder` is shown to list a finite set of numbers, each in the place
of its rank (`OrderFacts`). The proof corrected the property: `CompletedIsCurrent`
was about a run that ends with the rows it began with, which three runs can
restore in between: one makes the sparse vectors of a model, a second finds them
and a third replaces them before the second ends. It is now about rows that are
those the run read, the sparse ones after its dense ones.

**Chunking**, for any lines, texts of any length and any configuration.
Assumptions: a line has a place in the text (at least the white space it ends
with, which counts 0), headings are the lines with a level, and the
sizes are as the code's own check has them.
`ChunkingInv`: in each loop the spans follow one another from the beginning of the
text to where the loop is (`LoopsTile`); a part being cut and a chunk being filled
are within their limits or are one word (`LoopsFit`); and there is one set of
headings (those outside of fences) which path, blocks and chunks are all filed
under (`SectionsKept`, an existential over the headings read so far). That chunks
give the text back is a telescope of spans (`TextComesBack`); the counts are
differences of `Counted`, which never falls, and of which the overlap is the
greatest start that reaches its size.

**Retrieval**, for any finite set of chunks, any versions and limits.
Assumptions: versions are numbers, and the largest limit is below the rank that
stands for "not in this ranking". `RetrievalInv`: no version was newer when the
search began than it is now, so that what any later statement returns is as new
(`CitesCurrent`, `EligibleIsCurrent`); every list is within the limit of the
candidates (`Accepts`); the dense ranking has no repetition, the candidates only
one of two sparse rows; and the candidates of a fused search are the fusion of
the two rankings that are still there. `SortedFacts` is about sorting by a strict
total order: each member of a finite set once, and the one before in front. That
the sort key is such an order (`KeysOrder`) makes the fusion free of repetitions
even of a sparse ranking that has one (`FusedFacts`); that a chunk ahead in every
ranking that has the other has the lower key (`AheadIsBefore`) needs no more of
the scores than that they do not rise with the rank (`ScoresFall`), so that
neither rounding nor a tie can turn the order round.

**GraphProjection**, for any chunks and watermarks and any limit of a search.
`GraphInv`: an operator at work knows the row as it is, and what the graph has is
what the rebuild has come to (`CommandFits`); a row that says "ready" is that of a
whole snapshot (`ProjectionFits`). It holds of one operator who rebuilds over and
over, which is the hypothesis of `GraphIsAlwaysWhole`: with two, one deletes what
the other has just declared ready, a hazard that the code leaves open.
`SearchesKeepSeeds` and the types need no such hypothesis: seeds come first and are
at most as many as the limit, so that none of them is cut off (`SeedsAreNearest`).

**Accounts**, for any workspaces, roles and clients and any finite set of users.
`AccountsInv`: locks are exclusive; whoever is active exists; a setup
left a user; and a request that has its locks has with them those of another
administrator (`SuspendFits`, `MemberFits`), which is why two requests that
remove the last two administrators exclude each other. `AnotherOne` is the
counting: more than one of a finite set is one besides any other.

**HumanSessions**, for any people, addresses, cookies and logins and any
ceilings. `SessionsInv`: logins in progress share neither person nor address
(`BucketsApart`, the advisory locks of the throttle), so that the room a
login found is still there when its failure is counted (`LoginFits`); a change of
a password came with a session of its person (`ChangeFits`). Failures of an
address are the cardinality of its attempts, and `OneMoreAttempt` counts one
more. `RevocationReachesAll` is inductive with these.

**ChatTurn**, for any processes and any finite set of turns. `TurnInv`: the session
is created by one turn, which still has its row uncommitted (`OneCreates`);
what was sent was recorded before (`SeenIsSaid`); phase, events and status
agree (`PhaseFits`); a turn that is over has what it sent in the tables
(`SeenIsKept`); what a stream comes after is over and in its history
(`AfterFits`); guards are those of turns in flight but for a client that left
before the first event (`GuardsFit`). Deletion of the session, crashes and
clients that leave are steps like the others.

**ChatRun**, for any evidence, texts and bounds (`MaxTools`, `MaxPieces`). `RunInv`:
a tool at work has the last audit row, and no other row is running (`ToolsFit`);
chunks without an audit row are those of a thread that failed of them
(`ThreadFits`); and the pieces that were ever queued, sent or not, end with those
of the present attempt, in order, after pieces of earlier attempts and calls only
(`PiecesFit`: `AllBefore`, `Streaming`, `Answers`). Each call that ends is counted,
so that no later call can have its number: the second model never continues the
stream of the first. When the queue is empty the client therefore has either the
beginning of the answer, which `SentIsBeginning` completes, or a piece of another
attempt, of which the property does not speak.

**JobListing**, for any finite set of ids and any positive size of a page.
`ListingInv`: of the jobs still there, what the client got stands before its
cursor, and what it has not got of those it should get stands behind it. The
order of a listing is total (`OrderFacts`), so that a page, which takes the jobs
with fewer than `PageLimit` before them (`Place`), has a last job, and everything
left out is behind that one (`PageFacts`, `EndsFacts`).

**KnowledgeReviews**, for any proposals, memories and requests and a positive
limit of injected memories. `ReviewsInv`: at most one transaction holds the name
of a source uncommitted, and it found none (`NamesApart`, `ReviewFits`); a
proposal has a source exactly when it names one, and an answered approval is its
only one (`SourceFits`); a reviewed memory says what was answered last
(`MemoryFits`). That the injected memories are within the limit is a counting:
`InjectedFacts` numbers them by how many approved ones are newer.

**RuntimeSettings**, for any workspaces, administrators, connections and changes,
at least one connection. `SettingsInv`: what a transaction is about to write is
what the operation makes of what it read, only a deletion empties a connection,
and a listing fills in only what it read as not chosen (`Justified`). What a
commit leaves is row by row either what others committed or what was written
(`MergedFacts`), and what was written fits the rows as they are now (`FitsFacts`:
foreign keys, unique keys, rows updated). From these: a row that names a
connection finds it there, and a deletion takes the rows that name it. The proof
corrected the property: `RotationTakesEffect` used to promise that the slot names
the new default whenever the pool was left alone, which is false when a third
request drops the slot's choice meanwhile and the rotation, finding the choice
unchanged, does not write it. That takes more transactions than the run has; the
chat reads the pool first, so that it still uses the model that was chosen.

**SchemaMigrations**, for any cap of the retries and any number of attempts, for
commands over any number of revisions and rows of any kind. `MigrationsInv`: the
database is sound and its rows such as their tables hold; keys refer from tables
to tables; below the platform no job has attempts, and on it their numbers are
taken up to the count of the job (`RevisionInv`). Each kind of statement keeps
this (`ExecutedFacts`), and so does every script, by induction over its length
(`PerformedInv`). Of all statements only the backfill and the recovery add to the
jobs (`Revisions` goes through the scripts of the 26 revisions); `PlatformUp`
follows the jobs through the ten parts of that revision, and `PlatformDown` shows
that the way back forgets the attempts. `UpgradeFacts` and `DowngradeFacts` take
this over any number of revisions in one transaction.

## 5. Disagreements between code and documents

1. **Two running attempts of a job** (`compat_owner`). The compatibility retry
   of an ingestion job requeues by id whatever the job has become since it was
   read. The design document promises one running attempt per job.
2. **A draining worker that looks live** (`worker_presence`). The heartbeat of the
   process is the registration itself and clears both marks, during a drain and,
   by a thread that outlives its task, even after the shutdown.
3. **A refused payload starves its queue** (`admission_poison`). It is validated
   before the commit of the claim; the rollback undoes the cursor as well.
4. **Repeated minutes do not run** (`cron_repeated`). The design document promises
   an occurrence for each instant of a repeated local time. The search goes
   forward in local time, so that during the first pass of the repeated hour it
   steps over the rest of that pass and, from the minute it starts at, jumps to
   the same minute of the second.
5. **A pool without a default** (`settings_default`). The specification of the
   runtime promises exactly one default of a pool of chat models. Deleting the
   connection of the default takes its row with it and leaves none; two requests
   that make a default, or add the first model of a pool, each clear what they
   have read and leave two.

Seen while modelling, without a run of their own:

- the last administrator (`src/openspec/changes/add-multi-workspace-user-management/specs/project-rbac/spec.md:96`
  has every such mutation rejected) is lost to a request whose target was
  promoted or reactivated after it was read, or to an addition that overwrites a
  role given in between; `SuperadminKept` and `WorkspaceAdminKept` name these
  ways and show that there are no others;
- an edit of a source is lost where a running job answers the enqueue or an older
  read of the metadata is written back; `PromiseKept` names both;
- the cancellation of a stream whose client leaves is rolled back, and its session
  stays "running"; `RunningHasTurn` and `FlightIsATurn` name what is left;
- a workspace that drops its chat override keeps its pool, whose default goes on
  being used;
- `provider_max_cost_usd` is compared with the cost of one call, not of a run;
- nothing marks a graph projection stale, and two rebuilds may run at once:
  `ReadyIsComplete` does not hold of two;
- a text whose headings leave out a level nests sections that a reader would call
  siblings; `SectionsEnclose` is about the others;
- a downgrade from the job platform refuses cancelled and system jobs, as the
  docstring of the revision says; `RefusalsAreKnown` lists the refusals upward.

## 6. Only model-checked, and not modelled

Liveness (`OrphansRecovered`, `Settles`, `ShutdownEnds`, `TransactionsEnd`,
`ScopesServed`, `DueIsHandled`) is out of the proof system's reach, as is
ENABLED, and stays with TLC. So do

- `TicksSucceed`, of `OccurrencesKept`: that the searches end within their bound
  holds of the small numbers of the run (section 3) and of the code's, but not of
  all, so that there is no theorem for every value of the constants;
- `SchemaIsOfRevision`, `RenameIsWhole` and `RefusalsAreKnown`, of
  `MigrationsAgree`: they are about one fixed list of statements and the schema
  it builds, table by table and key by key. There is nothing to generalise over,
  and evaluating the 26 revisions, which TLC does in a second, is the proof;
- the violations of section 5, which are counterexamples.

Left out of the modelled parts: job events, progress, results beyond whose they
are, names and wording, metrics, the identity of actors, access checks;
`LISTEN/NOTIFY` but for waking a worker; clock differences
between processes, except that a clock may have been read long ago. SQLite,
which the unit tests use and which has no row locks, is not the database
modelled. Of the chat: titles, the contents of attachments, the condenser's
rewriting of a question. Of the index: the arithmetic of costs and of vectors.
Of chunking: the tokenizer, whose counts are taken as additive. Of retrieval:
distances and scores. Of migrations: types, defaults and the names of indexes
and checks. Of the accounts: access tokens, cookies' attributes, preferences.

Not modelled: job metrics, chat attachments and observability (one insert or
read-only aggregates per request); parsers and the URL policy, query routing,
secrets and content safety (functions of one input without state); construction
of clients from settings; the MCP server (a read-only adapter); evaluations and
acceptance gates (offline scripts); the web frontend, whose state is kept on the
server.

## 7. The plan

Modelled, checked and proved: all modules of section 2. A model that follows the
code further would take up, in this order:

1. the hazards of `PROJECT.json` that have no property: a schedule that cannot be
   enqueued takes its whole batch with it (`jobs/scheduler.py`), a source deleted
   under a handler (`authoring.py`), two rebuilds of one graph
   (`graph/operations.py`), and the database session of an abandoned runner
   (`chat/service.py`);
2. the job events and their order beside the rows of `JobPlatform`;
3. metrics as aggregates over rows that change while they are read.
