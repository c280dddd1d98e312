# Verification of Data Engineering Agent in TLA+

The repository is an NL2SQL service: a FastAPI application (`src/app`, about
46 000 lines of Python on asyncio) that turns questions into SQL, runs it, and
keeps conversation sessions, schema indexes, query history and audit records. It
runs as one process with its state in memory, or as several worker processes that
share a MySQL server for coordination and sessions.

This directory holds TLA+ models of the parts whose correctness depends on
interleaving, failure and ordering, TLC configurations that check them, and TLAPS
proofs. `PROJECT.json` maps each definition to the source lines it stands for.

## Inventory

| Component | State | Operations | What is hard |
|---|---|---|---|
| Query leases, `harness/mysql_coordination.py` | MySQL named locks per connection; per query: connection, slot, watchdog, deadline | `query` (admission loop, session lock, body, watchdog, joined release), `initialize` | answers lost in both directions, cancellation at each await, connections killed under a running body, re-entrant locks |
| Shared sessions, `storage/shared_sessions.py` | table `worker_sessions` (revision, payload, expiry), configuration row | `get`, `put` (prune, compare-and-swap, capacity, commit), `initialize` | unconfirmed commits, expiry of a session in use, count-then-insert |
| Shared query runtime, `harness/shared_query_runtime.py`, `workflow/query_service.py`, `api/query.py` | one lease and one snapshot per request | `run_query` (load, pipeline, commit), rollback and branch | stale snapshots after a lost lease |
| Process-local sessions and versions, `api/query.py`, `db/runtime.py` | `_SESSION_STORE`, gates | query, prune, evict, rollback, branch, diff, list versions | a dictionary held across awaits while others evict; two histories (turns, versions) |
| Workflow runner, `harness/runner.py` | position, attempts, iterations, reflection index, trace | `run` over a YAML plan | retry and iteration bounds, jumps to and from `revise` |
| Worker start, `harness/worker_bootstrap.py`, `worker_release.py` | fingerprint row, startup lock, settings snapshot | lifespan, `verify` | drift between read and publication, busy startup slot |
| Provider rate limit, `harness/mysql_rate_limit.py` | attempts of the last minute per provider | `reserve` | unconfirmed commits, sliding window |
| Model leases and streams, `harness/shared_model_stream.py`, `llm/streaming.py` | producer task, queue of one chunk | open, next, close | cancellation on both sides |
| LLM router and budget, `llm/router.py`, `llm/budget.py` | provider status and cool-down, rate windows, permits, budgets | `complete`, streams | retries and fallbacks of concurrent requests, waits for slots, permits and pauses |
| Connections, `db/connections.py`, `db/runtime.py` | registry, gates per handle | create, replace, close, native calls | replacement while in use, cancelled native calls |
| Schema refresh and index, `db/schema_refresh.py`, `knowledge/retrieval/schema_rag.py`, `rag/` | two backends, crash markers, unavailable set | extract, replace, restore, clear | partial failure over two backends, stale sources, crash in the middle |
| Query request and its stream, `api/query.py`, `workflow/query_service.py` | admission and session gates, queue of 64 events | `submit_query`, `submit_query_stream` | client, deadline and workflow ending in any order |
| Usage audit, `audit/store.py`, `workflow/query_audit.py` | one SQLite table of bounded length | `finish_audit`, `write`, `audit_io` | a thread that cannot be interrupted, retried writes, retention |
| Domain knowledge, `api/domains.py`, `knowledge/glossary.py`, `rule_engine.py`, `storage/mysql_store.py`, `retrieval/metric_rag.py` | terms and rules in memory, in a YAML file, in MySQL rows, in LanceDB and in BM25 | add, change, remove a term or rule; create, update, delete a domain; index; list | five copies changed one after the other without a lock, four of them on a best-effort basis, one by a task that outlives the request |
| Query cache, history, action history, agent bus | as named | | not on the path of a request; sequential |
| Backup and recovery, `recovery.py` | manifest, copies | backup, verify, restore, prune | partial restore |
| Text processing, nodes, knowledge, learning, MCP, authentication, settings APIs, evaluation, frontend | | | sequential or pure, see *Not modelled* |

How they interact. A request enters `run_query`. With a shared runtime it takes a
query lease (a slot and the session's lock), reads the session's snapshot, lets the
workflow runner execute the plan's nodes, which call the LLM router (model lease,
rate limit, budget) and the database (connection lease), then commits the snapshot
and gives the lease back. Without one it enters two in-process gates instead and
works on the dictionary in `_SESSION_STORE`. A worker publishes a shared runtime
only after its start has verified release, settings and fingerprint.

## Modules

| Module | Models | Correspondence |
|---|---|---|
| `QueryLease` | the promise of `MySQLCoordinator.query`: what a caller may rely on | abstract; `phase` of a task is none, held, lost or returned |
| `Coordination` | `MySQLCoordinator` against a MySQL server | `pc` is the await a task stands at; `owner`, `srv`, `late` are the server's side, `up` the client's; `mon` is the watchdog task |
| `CoordinationProofs` | theorems about `Coordination` | |
| `SharedQuery` with `SharedQueryProofs` | the request path on top of `QueryLease`: `shared_query_scope`, `MySQLSessionStore.get/put`, load and commit | `rows` is the committed table, `txn` the open transaction, `copy` and `base` the request's snapshot and revision |
| `LocalSessions` with `LocalProcessProofs` | `_SESSION_STORE` of one process, gates, version endpoints | `stored`, `older` and `data` are the dictionary, its keys, their order and their values; `detached` marks a task whose dictionary has left the store |
| `WorkflowRunner` with `RequestProofs` | the loop of `WorkflowRunner._run` | `index`, `attempt`, `iterations`, `back` are the loop's variables, `trace` its node traces |
| `ConnectionRegistry` with `ConnectionRegistryProofs` | `ConnectionFactory`, the gates, leases and native calls of `db/runtime.py`, and the requests that use a handle | `registry` is `_connections`, `gateQ` and `leaseQ` are the semaphores' queues, `req` the locals of each request |
| `SchemaIndex` with `KnowledgeProofs` | `schema_refresh.py`, `SchemaMetadataRAG` over its two backends, disconnect, search, crash and start-up | `dense`, `sparse` and `marker` are on disk, `required` and `unavailable` in memory, `job` the locals of each request |
| `LeasedStream` with `LeasedStreamProofs` | `leased_stream` around the permit and the deadline of the router: the producer that owns the model lease, and its reader | `producer` and `consumer` are the awaits the two tasks stand at, `exc` the exception that travels through `produce()`, `ready` and `queue` the two ways out of it |
| `RateWindow` | the promise of a rate limit: no rolling minute holds more admissions than the limit everybody came with | abstract; `counted` is every admission there has been |
| `ProviderRateLimit` (proofs in `WorkerFleetProofs`) | `MySQLProviderRateLimit.reserve`, statement by statement | `config`, `attempts` are the committed rows, `staged` the open transaction, `client` whether its connection is still there |
| `WorkerFleet` with `WorkerFleetProofs` | `immutable_worker_lifespan` of several workers, the queries they serve and their model calls; extends `ProviderRateLimit` | `stage` is where a process stands, `mem` what it keeps of its start, `settings` and `print` the shared rows |
| `ModelRouter` (proofs in `LocalProcessProofs`) | `_route_with_fallback`, `_wait_rate`, `_locally_limited_call` and the budgets, in one process | `await` is where a call stands, `slots` is every slot ever taken of `_rate_windows`, `status` and `cooling` are the provider status, `spent` the budgets |
| `QueryRequest` with `RequestProofs` | a JSON or streamed request from its handler to its audit record | `run` is where `run_query` and its caller stand, `stop` a cancellation on its way, `queue` the events, `client` the response's side, `thread` the audit's worker thread |
| `Catalogue` (proofs in `KnowledgeProofs`) | the knowledge of one domain: the handlers of `api/domains.py` over its five copies | `file`, `memory`, `row` with `rows`, `lance` and `bm25` are the copies, `req` the await of a request or of its indexing task; `badRows`, `badDocs` are history: what was last changed with a disturbance |
| `MC*` | instances for TLC (`ConnectionRegistry` and `LeasedStream` need none) | |

`SharedQuery` extends `QueryLease`, and `Coordination` implements `QueryLease`
(property and theorem `ImplementsLease`): the query path is checked against the
promise, and the protocol is shown to keep it. `WorkerFleet` extends
`ProviderRateLimit`, which implements `RateWindow` (`ImplementsWindow`): its workers
are the tasks that reserve slots, each with the limit it started with. `LeasedStream`
and `ModelRouter` are the two sides of a model call: with a shared runtime a call goes
through a lease, without one through the local window; both use the local permit.

**Coordination.** A statement between two awaits is one step, because asyncio runs a
task alone in between. A call to MySQL is one step in which the server executes it
and the answer arrives; `AdmissionUnconfirmed`, `MonitorFails` and
`ReleaseUnconfirmed` are the calls without an answer. After them the client closes
the connection, but the server frees its locks only when it notices (`ServerDrops`),
and may execute the abandoned `GET_LOCK` first (`LateGetLock`). `ServerEnds` kills
any set of connections at once: a `KILL`, or a failover. Pooled connections are
reused with whatever the server still holds for them.

**SharedQuery.** A `put` is a transaction that begins by locking the namespace's
configuration row, so at most one is open (`txn`); its decisions are those of the
statements (`Stage`), its effect appears at `Committed`; a client that gives up
leaves the server to commit or to roll back (`ServerFinishes`). A pruning writer
calls `IS_FREE_LOCK`, which still sees locks whose owner the server has not dropped
yet, so it may skip any expired row (`lingering`). Revisions are UUIDs in the code
and fresh numbers here. A turn or a version is named by the revision that wrote it.

**LocalSessions.** `asyncio.Semaphore(1)` is fair, so a gate is the queue of its
tasks. The version endpoints run without an await and without a gate in this mode,
one step each. SQL texts are numbers. The store keeps the order of its keys, and the
order decides what a pruning evicts: `Pruned` is the set of the possible outcomes, and
has one member.

**WorkflowRunner.** The plans are those of `src/app/workflow/plans`, of `SPEC.md` and
of the runner's tests, with four the runner must refuse. What a node computes is
abstracted to the verdict of its evaluation; a run may be cut off in each attempt.
`PlanAssumption` says what the plans keep to and the runner does not check
(`KeepsReflection`); it asks nothing of a plan without an evaluated reflection.

**ConnectionRegistry.** A request is at the await its `pc` names. `create` holds the
gate of its database while it connects and while it retires the old handle (`Connected`,
`Retire`, `Disposed`); a failing or cancelled retirement closes the candidate instead
(`CloseRaises`, `Discarded`). The lease of a handle is a gate named by `id(handle)`,
so a handle that nobody refers to gives its identity to the next one opened
(`Unreferenced`). A native driver runs in a worker thread: a cancelled request keeps
the lease until the thread is done (`drain`); other drivers stop at once. A network
connection may be closed by a call on it (`CallEnds`: a timeout, a cancellation or a
failed clean-up in `execute_sql.py`, or the driver itself). It is then `broken` and
stays registered, its statements fail, and a replacement or a disconnect closes it like
any other; so `RunsOnRegistered` says what the factory does to handles, and that
native ones are open.
`is_current` is asked when a statement begins (`Execute`), and the properties say what
this single question is worth.

**SchemaIndex.** The documents of a database are named by the connection and the
version of the schema they were read from. A refresh waits for its gate, extracts,
writes the marker, embeds, extracts again (`verify_source`) and publishes; there is an
await before each of these steps and other requests run there. `_replace_database` has
no await, so it is one step of its caller, with three outcomes besides success: both
backends restored, a restoration that failed (`NotRestored`), and a crash in the middle
(`Interrupted`, taken by `Crash`). `Crash` loses the memory and keeps the files;
`StartUp` reads them. A marker is written in place: the write may fail (`BeginFails`),
a crash may interrupt it or come before the marker is removed (`FilesAtCrash`), and the
removal may fail. `marker` holds the databases whose file can be read, because
`pending_replacements` skips the others; what an unfinished rewrite destroys is noted in
`effaced`. `verified`, `torn` and `effaced` are history variables of the properties.

**LeasedStream.** A cancellation is delivered at the next step of the producer,
before anything else it waits for (`Resumes`, `Cancelled`). The deadline of a stream is
an `asyncio.timeout` inside a generator: it becomes an error when the generator itself
is waiting (`StreamEnds`), and a bare cancellation when the producer waits in `put()`
(`DeadlineInPut`). `Release` is the join of `Coordination` in one step, with what it
does to a cancellation that arrives meanwhile. `struck` records the two accidents that
`WaitsEnd` excludes.

**ProviderRateLimit, WorkerFleet.** The first statement takes the lock of the provider's
row, so one transaction is open at a time and the others wait in it. A call that fails
closes its connection and the server rolls back later, or has the `COMMIT` already
(`ServerFinishes`). Ids are numbers in the order of insertion. In the fleet each worker
runs one query at a time and is its own task. Settings are the limit of one provider and
whether the default sections are there; a fingerprint is the build and the settings read
first. An administrator writes the settings at any time, although
`docs/optimization/immutable-workers.md` asks for all workers to be stopped before:
`LimitsAgree` says how far the code alone protects them. Settings that are written and
written back during a start pass the second reading (`fooled`), and the limit that was
loaded in between is then refused by the slot transaction.

**ModelRouter.** Clock readings are kept as ages and remaining waits, so the state space
is finite without a bound on time. A call takes a slot of its provider's minute, then
waits for the permit, is charged to its budgets, and only then goes out. Providers
answer, fail or refuse at will; a stream keeps its permit until any of its ends. What is
charged is an attempt: `_call_provider` may still raise before it sends anything
(no key, no URL), which is one of the failures here.

**QueryRequest.** `wait_for` delivers one cancellation and waits for `run_query`
(`Deadline`, `Arrives`); a client that leaves cancels the producer and joins it
(`Leave`, `Close`). While the audit's thread writes a cancellation is kept (`Audited`).
The workflow is what it puts into the queue and how it ends; its failure is an event of
its own before the result, which the query contract allows
(`docs/optimization/query-contract.md:11`). The admission has one or two permits,
chosen at the start.

**Catalogue.** A handler is its synchronous part, which checks and changes memory and
file at once, then one step per MySQL statement, one for the index, and the step of the
indexing task. Terms and rules have handlers of the same shape; a behaviour looks at one
of the two. `file` is also what `DomainManager` knows, because every handler that writes
it reloads. Two requests that touch one name, or the domain and one of its names, are
marked as disturbed. What a failed statement, a failed write to an index or a swallowed
`OSError` may leave behind is left behind; `MaxMishaps` counts these and the restarts.
`index_metrics` replaces a batch of documents in three steps, each of which may be the
last (`IndexMetrics`): one document for the task of a request (`IndexMetric`), all terms
of the domain at start-up (`Restart`). A start-up that stops after it deleted or inserted
something disturbs every term of its batch; one whose embedding fails leaves the
documents as they were. Writing the YAML file is all or nothing, and lists read in one
step.

## Runs

| Run | Instance | Question |
|---|---|---|
| `coordination` | 2 tasks, 2 sessions, 3 connections, 2 slots | do locks leak, do pooled connections stay clean, is a clean exit exclusive, does the protocol implement the lease |
| `coord_live` | 2 tasks, 1 session, 2 connections, 1 slot, `FairSpec` | does the watchdog end a body whose locks are gone; does every query end and every lock get freed once the body has ended |
| `shared_query` | 2 requests, 2 sessions, 2 slots, room for 1 session, 1 turn, 2 versions, 4 writes | are updates lost, is the bound kept, are conflicts and answers honest |
| `local_sessions` | 2 requests, 3 sessions, room for 1, 2 turns, 3 versions, 3 SQL texts | does eviction spare sessions in use, are versions a timeline |
| `workflow` | six plans, four refused ones | what a finished run implies |
| `registry` | 3 requests, one database and the connection test, one native and one async handle, `FairSpec` | do statements begin on the registered connection, does the factory ever close one in use, is a handle forgotten, does every request end |
| `index_published` | 3 tasks, 1 database, 2 connections, 2 versions of the schema | is what is published current, is every answer made from whole contents, how far can the files alone be trusted after any crash or failed write |
| `leased_stream` | 2 streams, 2 leases, 1 permit, 2 chunks, `FairSpec` | is the provider called under a lease only, is nothing left behind, is a complete stream whole, does every wait end |
| `fleet` | 2 workers, 2 builds, limits 1 and 2, window of 2 ticks, 2 ticks, 2 rows | does one configuration serve at a time, do limits agree, does the slot transaction implement the window |
| `model_router` | 3 calls (one a stream), 2 providers (one limited to 1), 1 permit, 1 retry, 2 nested budgets, `RouterFairSpec` | are budgets exact, is the minute kept, does every call end |
| `query_request` | a stream and a JSON request of one session, 1 or 2 admissions, queue of 2, 2 events, 2 attempts, 1 record, `FairSpec` | is there one verdict, is the audit honest, does every request let go |
| `catalogue` | 2 requests with their tasks, 2 names, one with 2 texts, one with a third, terms and rules, 1 mishap | do lists and searches show what the process works with after a change nothing disturbed, whatever happened before and beside it |

Why the bounds are enough to be interesting. Two tasks suffice for each pairwise
conflict (slot, session, revision, gate); a third connection lets one task leave a
dying connection behind, take another and meet its own late `GET_LOCK`; two slots
with two sessions separate admission from mutual exclusion. Room for a single session
makes every second session hit capacity, pruning or eviction. Four writes allow create, turn,
a conflicting writer and one more. Two handles are enough for a replacement, for a
disconnect behind it and for an identity used again; three requests let a third one
extract or execute meanwhile. Two connections and two versions of a schema give a
refresh both kinds of stale source. Two chunks over a queue of one block a producer and
let a reader fall behind; one permit under two leases makes a stream wait for another;
a window of two ticks lets an attempt age, leave it and be deleted while another is
taken. Two names let a term be renamed to and fro, also over another one; one
mishap leaves copies apart, and the changes after it must bring them together (a second
one, such as a failed start-up after a failed change, is left to the proofs).
A record table of one row makes every second record push out the first.
`MaxRevision`, `MaxMade`, `MaxHandle`, `MaxVersion`,
`MaxChunks`, `MaxNow`, `MaxRows`, `MaxEvents` and `MaxMishaps` are the only artificial bounds; the
actions that consume them stop there, everything else goes on. `CHECK_DEADLOCK FALSE`
is used where the system really stops: a workflow run and a query request end, a reader
that is told nothing waits for ever (`leased_stream`), and the fleet's clock ends.

Where an invariant begins with `TypeOK` or a name that ends with it, the type invariant of the module is checked
with it.

### Disagreements met

No run checks these; the models have the steps that lead to them.

* "Per-request timeout" (`src/app/llm/router.py:76`). When the deadline of a stream
  expires while the producer waits in `queue.put`, the cancellation is raised outside
  the generator the deadline is in. Nothing turns it into a `TimeoutError`, `produce()`
  takes it for its own cancellation and announces nothing, and the reader's next
  `__anext__` waits until something else cancels it. It is the first accident that
  `LeasedStream!WaitsEnd` excludes: without that disjunct TLC shows the behaviour.
* `save_glossary_term`, "Save or update a glossary term"
  (`src/app/storage/mysql_store.py:590`): its `ON DUPLICATE KEY UPDATE` never updates,
  because `glossary_terms` has a plain index only (`:122`). Each change of a term adds a
  row, and the list shows them all; `ListsAreCurrent` therefore asks of terms only that
  the present text is among them.
* `_remove_metric_from_rag`, "Remove a metric document from both LanceDB and BM25"
  (`src/app/api/domains.py:987`), removes nothing from BM25: `delete_by_field` compares
  metadata, and a metric's metadata has no `doc_id`. Removed terms stay searchable there
  until their domain is deleted; `MetricsAreCurrent` asks of BM25 only what is present.
* "List all glossary terms for a domain" (`src/app/api/domains.py:396`): as soon as there
  is one row, terms that came from YAML and never got one are not listed.
* A cancellation that arrives while the release of a lease fails is swallowed
  (`src/app/harness/mysql_coordination.py:163`): when a stream's reader closes it with
  the queue full, `produce()` goes on to `await queue.put((False, exc))`
  (`src/app/harness/shared_model_stream.py:31`) and `close()` joins it for ever. This is
  the second accident `WaitsEnd` excludes.
* "Maximum requests per minute" (`src/app/llm/router.py:56`): the slot is taken before
  the permit is waited for (`:503`, `:658`), so slots of several minutes can leave in
  one. `SlotsPerMinute` is about the slots. A saved LLM setting publishes a new router
  whose windows are empty.
* `get_session_versions` (`src/app/api/query.py:691`) promises all SQL of the session.
  After a diff, rollback or branch has seeded the explicit versions, later queries add
  turns only and are not listed.
* The reflection plan (`src/app/workflow/plans/reflection.yml:11`) announces analysis and
  retry on failure; its failing `execute_sql` ends the run before the reflection is
  reached.
* `aclose` waits for users of a connection (`src/app/db/connections.py:280`), but the
  connection test and the catalog list (`src/app/api/schema.py:75`, `:426`) use one
  without its lease and may have it closed under them.
* A timeout, a cancellation or a failed clean-up closes a MySQL connection
  (`src/app/nodes/execute_sql.py:281`, `:438`, `:444`: "Never reuse a session whose
  settings were not restored"), but the factory goes on handing it out as an "active
  connection" (`src/app/db/connections.py:205`): every later statement on the database
  fails until it is connected again (`CallEnds`, `Execute`).
* "A marker survives a crash because it is only removed after both backends returned
  successfully" (`src/app/knowledge/retrieval/schema_rag.py:317`). The next refresh
  truncates and rewrites it in place (`:339`), and a marker that cannot be read is skipped
  (`:327`). So a replacement whose restoration failed, followed by a rewrite that is
  interrupted by a crash, or that fails before one, leaves half-written contents that look
  servable at the next start. `ServableIsWhole` excludes this case (`effaced`); without the exclusion
  TLC shows it. `AnswersAreWhole` does not need it: a process that starts requires a
  refresh of every database it finds.
* "Duplicate `doc_id` values overwrite the previous entry"
  (`src/app/knowledge/retrieval/metric_rag.py:235`): the documents of the batch are deleted
  before the new ones are inserted (`:259`, `:265`). When the insertion fails at start-up
  the error is swallowed (`src/app/rag/engine.py:349`) and no term of the domain has a
  document in LanceDB until it is changed or a start-up succeeds. `MetricsAreCurrent`
  is about the names whose last indexing came to its end.
* A disconnect marks its database before it closes the connection, so that
  "Cancellation/failure after closing must not leave stale contents trusted"
  (`src/app/api/schema.py:374`). A refresh that was about to publish takes the mark back
  while the disconnect waits for the lease; when the clearing then fails or is
  cancelled, the contents of the closed connection stay searchable.
* `on_exhausted: force_output` (`src/app/models/workflow.py:77`) is read by nobody: at
  its iteration limit every plan is aborted (`Exhausted`).
* The admission loop asks for the slots one by one (`GetSlot`, `SlotsBusy`), so that
  `CoordinationBusyError` can be raised although at no moment every slot was taken,
  which its docstring does not say.
* `clear_database` leaves the marker of an earlier failed refresh (`Clear`), which blocks
  the removed database again at the next start (`StartUp`) until it is connected and
  refreshed.
* `docs/optimization/usage-audit.md` bounds the wait for a locked audit database by 0.2 s;
  `_write_once` waits 5 s (`src/app/audit/store.py:254`), up to four times.

## Fairness

`FairSpec`: each call has a timeout (`MySQLCoordinator.timeout`) and each failure a
handler, so a task inside `query` takes its next step or fails (`StepOut`); the
watchdog is a task the event loop keeps running; a closed socket reaches the server
(`ServerDrops`). Nothing is assumed about the duration of the body, except that an
expired deadline cancels it; `EveryQueryEnds` and `EveryLockIsFreed` have the premise
that bodies end (`BodiesEnd`), which `query_timeout_seconds` sees to. All are weak
fairness of one task's own steps; no fairness between tasks is assumed, and none is
claimed for admission, which refuses rather than waits.

`ConnectionRegistry!FairSpec` lets a request that has begun take its next step
(`Continue`): driver calls and worker threads return or raise, and the event loop runs
every task that is ready. That the gates are fair is not assumed; they are queues.

`LeasedStream!Fairness` runs both tasks of a stream and lets the provider answer or its
deadline expire. A permit is given by strong fairness, because `asyncio.Semaphore` serves
its waiters in order. Nothing makes a reader ask for the next chunk.

`ModelRouter!RouterFairSpec` lets time pass, runs every call that is ready, and ends each
request and stream at a provider, if only by its deadline.

`QueryRequest!FairSpec` runs every task that is ready, ends the audit's thread (SQLite's
own timeout) and lets the deadline expire. Workflows need not end by themselves, and
clients need neither read nor leave; `RequestsLetGo` assumes reading clients only for
its last part.

## Proofs

For `Coordination`, for every number of tasks, sessions and connections and every
capacity, from `CapacityAssumption` (at least one slot), `ConnAssumption` and `LockAssumption` (the
special values are special, lock names do not clash):

| Theorem | Module | States |
|---|---|---|
| `TypeCorrect` | `CoordinationProofs` | `TypeOK` |
| `SlotsDoNotLeak` | `CoordinationProofs` | `NoOrphanLock` |
| `RecycledConnectionsAreClean` | `CoordinationProofs` | `PooledConnectionsAreClean` |
| `CleanExitsWereExclusive` | `CoordinationProofs` | `CleanExitWasExclusive` |
| `LeasesAreExclusive` | `CoordinationProofs` | `Exclusive` |
| `CoordinatorImplementsLease` | `CoordinationProofs` | `ImplementsLease` |
| `TransactionIsSound` | `WorkerFleetProofs` | `RateInv`, the inductive invariant of the slot transaction |
| `ReserveImplementsWindow` | `WorkerFleetProofs` | `ImplementsWindow` |
| `NoMinuteHoldsMore` | `WorkerFleetProofs` | `NeverMoreThanTheLimit` of `RateWindow` |
| `ServingWorkersAgree` | `WorkerFleetProofs` | `OneConfiguration` |
| `CallsAgreeOnTheLimit` | `WorkerFleetProofs` | `LimitsAgree` |
| `FleetImplementsWindow` | `WorkerFleetProofs` | `ImplementsWindow`, of the whole fleet |
| `TimelineIsKept` | `LocalProcessProofs` | `VersionsAreATimeline` |
| `NothingIsRewritten` | `LocalProcessProofs` | `VersionsOnlyGrow` |
| `StatementsRunOnRegistered` | `ConnectionRegistryProofs` | `RunsOnRegistered` |
| `HandlesAreKept` | `ConnectionRegistryProofs` | `NoHandleIsForgotten` |
| `SharedInvariant` | `SharedQueryProofs` | `SharedInv`, the inductive invariant of the session store |
| `ConflictsAreEarned` | `SharedQueryProofs` | `ConflictMeansDisturbance` |
| `DoneIsStored` | `SharedQueryProofs` | `DoneMeansStored` |
| `RetentionHolds` | `SharedQueryProofs` | `RetentionBound` |
| `NothingIsLost` | `SharedQueryProofs` | `NoLostUpdate` |
| `ActiveSessionsAreKept` | `SharedQueryProofs` | `ActiveSessionIsKept` |
| `QueryPathKeepsTheLease` | `SharedQueryProofs` | the specification of `QueryLease`, of the query path |
| `QueriesAreExclusive` | `SharedQueryProofs` | `Exclusive`, of the query path |
| `NoTurnIsDetached` | `LocalProcessProofs` | `TurnsReachTheStore` |
| `StoreHasItsBound` | `LocalProcessProofs` | `StoreIsBounded` |
| `IndexInvariant` | `KnowledgeProofs` | `IndexInv`, the inductive invariant of the index |
| `FilesTellTheTruth` | `KnowledgeProofs` | `ServableIsWhole` |
| `SearchesAreWhole` | `KnowledgeProofs` | `AnswersAreWhole` |
| `PublicationIsCurrent` | `KnowledgeProofs` | `PublishedIsCurrent` |
| `StreamInvariant` | `LeasedStreamProofs` | `StreamInv`, the inductive invariant of a streamed call |
| `PermitsLieWithinLeases` | `LeasedStreamProofs` | `CallsAreLeased` |
| `EveryCallGivesBack` | `LeasedStreamProofs` | `NothingIsLeft` |
| `CompleteStreamsAreWhole` | `LeasedStreamProofs` | `CompleteIsWhole` |
| `RunInvariant` | `RequestProofs` | `RunInv`, the inductive invariant of a run |
| `VerdictsAreEarned` | `RequestProofs` | `VerdictIsEarned` |
| `DependenciesComeFirst` | `RequestProofs` | `DependenciesRanBefore` |
| `RequestInvariant` | `RequestProofs` | `RequestInv`, the inductive invariant of a request |
| `VerdictsAreSingle` | `RequestProofs` | `OneVerdict` |
| `AuditsAreHonest` | `RequestProofs` | `AuditIsHonest` |
| `RouterInvariant` | `LocalProcessProofs` | `RouterInv`, the inductive invariant of the local model calls |
| `BudgetsHold` | `LocalProcessProofs` | `BudgetsAreExact` |
| `MinutesHold` | `LocalProcessProofs` | `SlotsPerMinute` |
| `CatalogueInvariant` | `KnowledgeProofs` | `CatalogueInv`, the inductive invariant of the copies |
| `ListsHold` | `KnowledgeProofs` | `ListsAreCurrent` |
| `MetricsHold` | `KnowledgeProofs` | `MetricsAreCurrent` |

The inductive invariant `IInv` joins `TypeOK` and `NoOrphanLock` with: connections
are used by one task each (`ConnUse`), which turns re-entrant locks into exclusive
ones; locks and late calls belong to server ends that exist, and late calls to
connections the client closed (`ServerSide`); while the server end of a task's
connection lives the task has every lock it believes in (`KeepsLocks`); a task whose
slot or session somebody else entered has lost its server end for good
(`CrossedIsLost`), so that its `RELEASE_LOCK` cannot be confirmed; reports and
watchdogs belong to a query (`InsideQuery`). None of the safety properties is
inductive alone: that a clean exit was exclusive rests on the fact that a connection
never regains a server end while a task holds it. There is one lemma per action. For
the refinement each action is matched with the action of `QueryLease` it implements,
or with a stutter.

For `ProviderRateLimit`, for any tasks, limits and window, from `RateAssumption`: the
count is taken before the insertion, over rows some of which are being deleted, so the
invariant `RateInv` has to say that nobody else can commit in between (`Locked`), that
deleted rows no longer matter (`Ages`), that the count still holds when the row is
inserted (`Room`), and that a row which the server may commit after its client has gone
is admissible still (`Fresh`). A commit is then the window's `Admit`, or its `Agree` when
there is no limit; every other step is a stutter or the clock. `NoMinuteHoldsMore` adds
what the promise is worth: `WindowInv` is inductive over `RateWindow`, because a window
that ends later holds at most one admission more.

For `WorkerFleet`, for any workers, builds and limits, from `FleetAssumption` (no build,
setting or fingerprint is the value that stands for a missing one) besides
`RateAssumption`: every step of the fleet is one of `ProviderRateLimit` or leaves its
variables alone (`StepIsReserve`), so `RateInv` and the refinement carry over. `FleetInv`
adds what a process knows at each stage (`Knows`), that one fingerprint stands once
somebody registered (`Fingerprinted`), that a worker's limit is the one of its baseline
unless the settings were written between its two readings (`Loaded`), that a call asks
for the limit of its worker (`Callers`), and that the limit in the table or in the open
transaction is the one of the fingerprint (`OneLimit`). `LimitsAgree` needs all of them:
the transaction may outlive the worker that began it, and what it stores binds workers
that start later. TLC checked `FleetInv` before it was proved.

For `LocalSessions`, for any requests, sessions and limits, from `LimitAssumption`:
every operation extends the version list of one dictionary (`SeededExtends`,
`AddedExtends`) or puts a new dictionary in the place of another, so `VersionInv` (the
type of the dictionaries and a timeline in each) is inductive and the first two theorems
follow. For the other two the invariant `SessionInv` adds that a gate is a queue without
repetitions, that a working task is the first of its gate and finds its key in the
store, and that no dictionary in hand has left it (`GateInv`); and that the gates taken
are no more than the admission, the keys no more than it or the limit (`StoreInv`). A
pruning evicts idle keys only, and all of them before it exceeds the limit. That a
pruning has an outcome at all, and one only, is what TLC shows; the proofs hold of every
outcome.

For `ConnectionRegistry`, for any requests, databases and handles, from
`RegistryAssumption`: that a statement runs on the registered handle is not inductive.
`RegistryInv` adds that who works on a handle is first of its lease and who replaces one
first of its gate (`Holders`), that no two places name one handle and that a candidate is
known to its replacement only (`Names`), that a database whose handle is being replaced
has that handle or none (`Current`), and that handles which the factory has not begun to
close, broken ones included, have somebody who knows them (`Known`). That calls never
break a native handle is `NativeIntact`, an invariant of its own. The actions are of three kinds, each with a lemma: they use a
handle (`UsesInv`), register one (`RegistersInv`) or drop one (`DropsInv`); `Connected`,
`Retire` and `CancelDispose` have their own. Nobody but a request itself takes it from
the head of a queue (`StillQueues`). `RegistryInv` was checked by TLC before it was proved;
`EveryRequestEnds` stays with TLC.

For `SharedQuery`, for any requests, sessions and limits, from `SharedAssumption`, none of
the properties is inductive. `SharedInv` joins the exclusiveness of the lease with what a
request's frame holds (`Frame`, `Knows`), how it stands to the open transaction
(`Meets`), what it may rely on as long as its session was not disturbed (`Undisturbed`),
and why it is told of a conflict (`Told`); the open transaction has the newest revision,
prunes expired rows only, keeps to the bound and extends what it replaces
(`Transaction`). The last is where `NoLostUpdate` comes from: the decision is made when
the statement runs, the row changes when the server commits, and between the two the
transaction's lock keeps every other writer out. `QueryPathKeepsTheLease` says that every
step is one of `QueryLease` or leaves its variables alone, so what `Coordination`
implements is what the query path relies on.

For `SchemaIndex`, for any requests, databases and versions, from `IndexAssumption`:
`IndexInv` says that a request that refreshes is first of its gate and has its marker on
disk while it embeds and verifies (`Jobs`), that a running process serves only what it
replaced itself or found empty (`Trusted`), and that a database in both backends without a
readable marker has the same documents in both, but for those whose marker an unfinished
rewrite destroyed (`Servable`). A crash may happen in every state, so
`Servable` must be inductive without anything the memory knows; it is, because a marker
is removed only by the request that holds the gate, and destroyed only by one that is
noted in `effaced` (`MarkersInv`). The proof that holders of a gate keep
it while others leave the queue is `OthersStayFirst`.

For `LeasedStream`, for any streams, capacities and numbers of chunks, from
`StreamAssumption`: `StreamInv` reads the lease and the permit off the await the producer
stands at (`Owned`), and follows each chunk from the provider to the reader (`Flows`):
until something has gone wrong, what was sent was taken, waits in the queue or is in the
producer's hands, and the end is announced by a producer that ended well. `Counted` keeps
the capacities.

For `WorkflowRunner`, for any registry and limits and for any plans that keep to
`PlanAssumption`: when a run completes, every node that was tried must have been accepted,
so while it runs `Settled` allows two exceptions only, the node being retried and the
reflection that asked. `DependenciesRanBefore` needs `Reached`: the nodes before the present
one were tried, or a revision jumped over them, and over these no later node depends
(`KeepsReflection`). The attempts that failed are the last entries of the trace
(`Repeated`). Every plan of the repository meets the assumption. Outside of it the runner
promises less: a plan that may skip its last node can complete after a revision without
asking the reflection again, and so can one in which another node than the reflection has
`on_pass: output`.

For `QueryRequest`, for any requests, sessions, admissions and limits, from
`RequestAssumption` (limits are positive): `OneVerdict` speaks of the queue and of the
last event the client got, and follows from what a request may have told at the place
where it stands (`Told`): events only while it works, the workflow's failure before the
audit, a verdict with `reply`, the end when it is over. `Verdicts` says that nothing in
the queue outranks this and that what follows in the queue rises (`InOrder`); the reader
takes from the front and the producer adds behind, so neither needs to know of the other.
For `AuditIsHonest`, `Records` says that each row written belongs to a request that is
through with its workflow and whose audit thread is gone, so that its outcome no longer
changes; `Statuses` says that a status to be told is already the outcome. What was
admitted must be exactly the requests inside (`GatesTyped`), or a permit given back twice
would pass. Retention prunes after every record, the property speaks of all that was ever
written: the lemma `NewestOfNewest` shows the two to be the same.

For `ModelRouter`, for any calls, chains, limits and budgets, from `RouterAssumption`:
`Windows` says that a window is the end of the sequence of all slots ever taken, and that
what went out of it is older than a minute (`EndOf`); `_wait_rate` removes a beginning of
it, all of it old (`LiveIs`), and appends one slot while it is shorter than the limit, so
the slots of a minute are in the window. `Charged` keeps every budget equal to the calls
that went out for it, because a reservation is all or nothing; `Permitted` bounds the
calls that hold a permit.

For `Catalogue`, for any requests, names, texts and any number of failures and restarts,
from `CatalogueAssumption` (None is no name, text or file): `CatalogueInv` says what a
request that nobody disturbed has made of its names so far (`RowsSoFar`, `DocsSoFar`):
memory still has what it wrote there, the old name's row is gone when the new one is to be
saved, the rows are right when the statements are done. Two requests that hold something
in common are both marked, and a name that nobody holds is right unless its last change
went wrong (`RowsInv`, `DocsInv`). Rows and documents need different notions of holding:
an indexing task that still waits for its embedding no longer touches rows (`Holds`). All
handlers are instances of one shape (`Handles`), a batch of documents that comes to its
end is right whoever asked for it (`AllIndexed`), and a step of a request changes what it
holds only (`RowsStep`, `DocsStep`). TLC checked `RowsInv` and `DocsInv` before they were
proved.

Several attempts to prove failed for a reason in the model. The arms of a `CASE`
overlapped in `SharedQuery!NewValue` and in `WorkflowRunner!Successor`, where the code has
an order; both are `IF`s now. Where a model used a filter or a fold, about which nothing
can be proved without induction, it says the same without: the store of `LocalSessions` is
a set with the relation `older`; `ModelRouter` keeps the sequence of the slots taken
(`slots`) and counts positions, removes a beginning of the window instead of filtering it
(as the `popleft` loop does), and finds the next able provider with quantifiers (`Able`).
TLC finds the same behaviour.

Only model-checked: the liveness properties, `LossEndsTheBody`, `EveryQueryEnds`,
`EveryLockIsFreed`, `EveryRequestEnds`, `WaitsEnd`, `CallsEnd` and `RequestsLetGo`, which
need fairness and `ENABLED`. Every invariant, action property and refinement that a run
checks is proved.

## Plan

Done so far: the modules above. Next, in this order:

1. Settings of a mutable process (`api/settings.py`): a write that is persisted, then
   published, and the router that is replaced under running calls.
2. Backup and restore (`recovery.py`), the history store.

Abstract specifications worth stating besides `QueryLease` and `RateWindow`: a pipe for
the two streams, an atomic index replacement.

## Not modelled

Around the connections, the drivers themselves, `aclose_all` and the synchronous
`close` of the evaluation tools; around the index, ranking, the partial upsert of
`index_schema` and the timing of the index refresher. `initialize` of coordinator and session store (one idempotent registration before
the first query); key hashing and payload size; wording of errors. Text processing
(`core/`, SQL generation and validation, prompts) is pure and outside the reach of a
state machine. Node implementations are open choices of the runner. Retrieval
backends are libraries behind calls. Learning, the evolvable context, domain detection, subagents, MCP
adapters, authentication and CRUD endpoints keep no state that concurrent steps
contend for beyond single table rows. Evaluation scripts, the frontend and the
operator scripts are not part of the service. Liveness under fairness, induction over
data and recursive operators are out of the prover's reach and stay with TLC.
