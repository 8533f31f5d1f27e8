# Verification of reinhardt

reinhardt is a web framework in the manner of Django, a workspace of some forty
crates under `src/crates`. Most of them turn one request, one query or one
macro into one answer and keep no state between calls. This directory is about the
few that do keep state, share it between tasks or machines, and have to be right
when things happen in an order nobody chose: the two-phase commit, the migrations and
the nested transactions of `reinhardt-db`, the background workers of
`reinhardt-tasks`, the reactive runtime of `reinhardt-core`, the plugin registry of
`reinhardt-dentdelion`, the replicated sessions of `reinhardt-auth` and the
dependency injection of `reinhardt-di`.

Contents: [inventory](#inventory), [plan](#plan), [the modules](#the-modules),
[the runs](#the-runs), [what the runs found](#what-the-runs-found),
[the proofs](#the-proofs), [what is not covered](#what-is-not-covered),
[running it](#running-it).

## Inventory

`PROJECT.json` lists every component with its source files; this is what they do,
the state they keep and what has to hold. "Modelled" names the modules here.

### Components with a protocol of their own

| Component (crate) | State | Operations and who calls them | What is hard | What makes it correct |
|---|---|---|---|---|
| Two-phase commit coordinator and drivers (`reinhardt-db`) — **modelled**, `TwoPhaseCoordinator`, `TwoPhaseRecovery` | the transaction's state, the participants in order with their statuses, one session per adapter, prepared branches in each database, a JSON file per transaction | `add_participant`, `begin`, `prepare`, `commit`, `rollback` by the application; `find_by_state`, `commit_by_xid`, `rollback_by_xid` by whoever recovers | calls to databases that fail before or after they take effect, futures dropped at an await, a crash between two commits, a log that lags behind | no database committed while another is rolled back; final states say what the databases did; a branch in doubt can be found again |
| Task workers, queues, locks (`reinhardt-tasks`) — **modelled**, `TaskWorkers` | the queue (rows or a Redis list), a status per task, a lock with a time to live per task, a position per worker | `enqueue`; the worker loop: `dequeue`, `acquire`, `get_task_data`, the task, `store_result`, `release`, `update_status` | SELECT then UPDATE by several workers, locks that lapse, errors half-way, worker crashes | one execution at a time, successes that were earned, outcomes that stay, every task ends |
| Reactive runtime (`reinhardt-core`) — **modelled**, `ReactiveRuntime` | the dependency graph, pending updates, the flag of a scheduled flush, the effects' functions and cleanups in slots, dirty flags of memos | `Signal::set`, `get`, `Memo::get`, `Effect::new`, `dispose`, `batch`, `flush_updates` by a scheduler | every write may call back into user code that writes, reads, creates and disposes again; layout effects run at once, others later | no update lost, no function entered twice, no stale computation, nothing runs after disposal |
| Plugin registry (`reinhardt-dentdelion`) — **modelled**, `PluginRegistry` | plugins with a state, a dependency graph in two directions, a capability map, each behind a lock of its own | `register`, `load_all`, `enable_all`, `disable`, `unregister`, with asynchronous hooks between the locks | check, await, then set; requirements erased by `unregister`; two lock orders | a plugin is enabled only while its dependencies are |
| Session replication (`reinhardt-auth`) — **modelled**, `SessionReplication` | a primary and a secondary store, an unbounded queue | `save`, `delete`, `load`, `exists` by requests; a worker that applies the queue with retries | two orders of the same writes, events dropped after retries, reads that fall back | the secondary converges; what is deleted stays deleted |
| Dependency injection (`reinhardt-di`) — **modelled**, `DependencyInjection` | singleton and request caches, a task-local resolution stack | `resolve` from concurrent requests; `validate` by check-di | construction across awaits after a miss; errors taken for an absence, dropped futures; scopes checked one edge at a time | one singleton; no request's instance in what all share; cycles reported, and only real ones |
| Hybrid and layered caches (`reinhardt-utils`) | two stores; a store and a TTL index | `get` with promotion, `set`, `delete`, clean-up | reads that write, indexes that lag | no deleted or expired value comes back; no live one vanishes |
| WebSocket rooms, connections, reconnection (`reinhardt-websockets`) | membership maps under async locks, connection states, back-off | `join`, `leave`, `broadcast`, `cleanup_empty_rooms`, heartbeats | locks given up between collecting and removing | whoever joined and has not left receives broadcasts |
| Circuit breaker (`reinhardt-middleware`), throttling (`reinhardt-throttling`) | state and counters under one lock; bounded maps of buckets | one call per request, concurrent | transitions on what was read before the lock was given up; eviction | the breaker's cycle; rates over any window |
| HTTP server and shutdown (`reinhardt-server`) | a broadcast channel, one task per connection | accept loop, shutdown, grace period | who waits for whom | requests in progress are finished within the grace |
| ORM transactions (`reinhardt-db`) — **modelled**, `NestedTransaction` | state, depth, a list of savepoints; in the database a stack of its own | `begin`, `commit`, `rollback`, `savepoint`, `release_savepoint`, `rollback_to_savepoint` | nesting mixed with explicit savepoints; names used again; the object changes before the statement is executed, and the database may refuse it | the end of a scope keeps or undoes what was written in it, no more and no less |
| ORM session, pools (`reinhardt-db`) | identity map; sqlx pools | `flush` | a connection per statement | what is flushed is what changed |
| Migrations (`reinhardt-db`, `reinhardt-commands`) — **modelled**, `MigrationExecutor` | the graph, the recorder's table and its time stamps, the schema, the migration lock | the migrate command: plan, lock, apply, record, roll back, by every instance of a deployment | a crash between apply and record; several processes at once; rollbacks planned before the lock, in an order of time stamps; a lock taken and given back through a pool | what is recorded is in the schema and the other way round; dependencies first; commands return |
| Task graph, chains, priority queue, scheduler (`reinhardt-tasks`) | a graph; a step counter; queues and weights; schedules | `add_dependency` with undo; `execute`; `dequeue`; the scheduler's loop | undo of what was there before; weight zero; clocks | the graph stays acyclic; due tasks run |
| Signals (`reinhardt-core`), applications (`reinhardt-apps`) | receivers by priority; configurations and a ready flag | `connect`, `send`, `disconnect`; `populate` | receivers that connect in a dispatch; two populates | each receiver once, in order |

### How they interact

A request comes in through `reinhardt-server`, passes the middleware
(breaker, cache, session, throttling) and the router to a view, which resolves its
arguments through the DI context, uses the ORM (and, for several databases,
the coordinator), may enqueue a task in a backend that the workers of other
processes poll, and may broadcast into rooms. The modelled parts meet only through the
outside world: the coordinator calls the drivers and writes the log; the workers meet
in the backend and the lock and never message each other; processes that migrate meet in
the database; the replication worker and the requests meet in a queue and two stores; the
managers of plugins in one registry under four locks; requests that resolve
dependencies in the cache of singletons; the reactive runtime is
single-threaded, runs in the browser or a test, and is called by the pages front end.
That is why the models are not composed with each other: none of these parts calls
another. The composition that does exist in the code, coordinator with adapters,
databases, log and the operator who recovers, is `TwoPhaseRecovery` over
`TwoPhaseCoordinator`; the others have their surroundings (database, stores, user code,
factories) in the same module, because those are read and written by every action.

### Everything else

Query builder, forms, REST, GraphQL, gRPC, views, mail, i18n, storages, the macros, the
grammars, the management commands, the administration pages, the test kits: text in
and text out, or a thin layer over a library. Each is a component in
`PROJECT.json` with its reason for being left out.

The hazards in `PROJECT.json` are the lines where this state can go wrong in a way a
test would hardly reach; those of the modelled parts name the properties that
catch them, the others the component they belong to in the plan. The list there holds
the sharpest; also real, and known, are: `prepare()` without participants rests in
Preparing (core.rs:731); MySQL branches are named by the participant's id and collide
between transactions (core.rs:1110); the default `extend` of a lock is not atomic
(locking.rs:93, overridden by both locks); `Worker::stop` before `run` is lost
(worker.rs:607) and the concurrency setting has no effect (worker.rs:315); a
priority class of weight zero is never served (priority_queue.rs:244);
`remove_node` leaves an id in others' lists (runtime.rs:351); an effect that disposes
itself and goes on reading subscribes again (effect.rs:402); `begin_db` and `commit_db`
take their own connections (transaction.rs:466); `create_room` replaces a room
(room.rs:655); shutdown drops the requests being served (http.rs:258) and reports itself
complete before they are (http.rs:273); a full bucket
map forgets debts (token_bucket.rs:403); `load_all` is not idempotent after a
failure (dentdelion registry.rs:424), and takes two locks in the order opposite to
`enable_plugin`'s (:326); an answer of an earlier state moves the circuit breaker
(circuit_breaker.rs:336); a promotion in the hybrid cache undoes a delete
(hybrid.rs:162), and the layered cache's clean-up removes a value set again
(layered.rs:389); the registry of dependencies holds a guard of its map across a factory
(di registry.rs:241); a rollback is planned before the migration lock is taken
(builtin.rs:211).

## Plan

Done, in this order:

1. `AtomicCommit`, `TwoPhaseCoordinator`, `TwoPhaseRecovery`, `TwoPhaseCoordinatorProofs`.
   The abstract specification is an atomic transaction over branches; the coordinator
   refines it.
2. `TaskWorkers`, `TaskWorkersProofs`.
3. `ReactiveRuntime`, `ReactiveRuntimeProofs`.
4. `PluginRegistry`, `PluginRegistryProofs`.
5. `VersionedCopies` and `SessionReplication`, which refines it.
6. `DependencyHistory` and `MigrationExecutor`, which refines it.
7. `NestedScopes` and `NestedTransaction`, which refines it.
8. `DependencyInjection`.
9. `SessionReplicationProofs`, `DependencyInjectionProofs`, `NestedTransactionProofs`,
   `MigrationExecutorProofs`, and the rest of the invariants of 1 to 4.

Every safety property of the runs is stated by a theorem.

To model after that, should the project grow: the hybrid cache's promotion against its
deletes and the layered cache's TTL index; rooms, circuit breaker and token bucket (small
interleaving models); task graph, chain, scheduler and priority queue; the synchronous
TwoPhaseCommit as a second implementation of `AtomicCommit`.

## The modules

Each name in a model that has a counterpart is that of the code where TLA+ allows;
`map` in `PROJECT.json` gives the lines. Definitions named `Mut...` are plausible bugs, used only to
show that a property notices them.

### AtomicCommit

What any atomic commitment protocol promises: branches start, vote and abort only before
the first commit, and one commits only when all started ones are prepared.

### TwoPhaseCoordinator — `orm/two_phase_commit/core.rs`, `transaction_log.rs`, `backends/drivers/*/two_phase.rs`

One coordinator, one transaction. Operations take `&mut self`, so they exclude each
other: `op` is the one in progress (`idle` when none) and `next` the position of
its loop over `parts`.

| TLA+ | code |
|---|---|
| `state`, `status`, `parts`, `failures` | `TransactionState`, `ParticipantStatus`, `participants`, `failed_participants` |
| `session` | `Option<XaSessionState>` of the MySQL adapter, the session map of the PostgreSQL driver |
| `misfiled` | sessions the PostgreSQL adapter stored under its own id, where `prepare` will not look |
| `branch` | the database's side: none, active, prepared, committed, rolledback |
| `log` | the transaction's file; `TornEntry` a file cut short |
| `Begin`, `Prepare`, `Commit`, `Rollback` | the test and change of state that open an operation |
| `BeginOne` ... `RollbackOne` | one round of the loop: one awaited call to one participant |
| `BeginDone` ... `RollbackDone` | the end: the new state, the log write and delete |
| `Cancel`, `DbAborts` | the caller drops the future at an await; a database ends an open branch |

A call can succeed, fail before it took effect, or fail after (`...Ok`, `...Err`). `op =
"undo"` is the rollback inside a failed prepare, the same loop with another return.
`Faults` chooses among: failing calls, dropped futures, database aborts, log writes that
fail, and log writes that are torn. The log write and the delete that follow the final state are one
step here: without a crash nothing reads the file between them, and
`EntriesAtCrash` puts the moments between back for the crash. A call that was dropped takes
its effect at once or never, not later.

### TwoPhaseRecovery — a crash and an operator

Extends the coordinator by `Crash` (memory gone, open branches rolled back by the
databases, prepared ones stay, the log as it was at any point inside the last step) and by
`RollbackByXid`, `CommitByXid`. The repository has these calls and no driver that
uses them, so what an operator does with an entry is a constant: Active entries are rolled
back, Prepared ones are treated according to `Policy`. `CallerAbandons` says whether the
application may call `rollback()` after `prepare()` succeeded.

### TaskWorkers — `worker.rs`, `backends/sqlite.rs`, `backends/redis.rs`, `locking.rs`

`pc[w]` is the await at which worker `w` stands in `try_process_task` and `execute_task`,
`job[w]` the task in its hands, `verdict[w]` what `execute_task` will return. With
`Backend = "sqlite"` a dequeue is two steps (`Select`, `MarkRunning`); with `"redis"` one
(`Pop`). The lock holds a token; here, its owner's name, which is as unique.
`Expire` is the 300 seconds passing: always for a worker that has stopped, for
one that still works only with the fault `slow`. Other faults: `data` (get_task_data),
`store`, `status`, `lock` (the lock service errs), `crash`. `succeeded` is history:
tasks some execution of which returned Ok.

### ReactiveRuntime — `core/src/reactive/{runtime,effect,memo,signal}.rs`

One thread, but user code is called back from within the runtime: the calls in
progress are `stack`, a sequence of frames (a run of an observer, a notification with
the rest of its copied list and who was layout when it began, a batch, a flush), and each action
works on the top frame. What has been disposed of has no timing any more
(`get_effect_timing`) and so counts as passive in both loops (`LayoutIds`).
When user code has control (`InCode`) it may set, get, create, dispose and open
batches in any order that `Reads` and `Writes` allow, so an effect's body is every
body.

| TLA+ | code |
|---|---|
| `subs` | `dependency_graph`: the subscribers of a node, in order |
| `pending`, `scheduled` | `pending_updates`, `update_scheduled` |
| `callbacks` | flushes given to the installed scheduler (spawn_local in pages/src/app/launcher.rs:570) |
| `registered`, `slot`, `owed` | `EFFECT_TIMING`, `EFFECT_FUNCTIONS`, the cleanup slots |
| `dirty` | the memos' dirty flags |
| `Listed` | observers made by `new_with_deps`; a listed memo has a hidden layout effect, its notifier |
| `Execute`, `Reinsert`, `Schedule` | `execute_effect`, `EffectFnGuard::drop`, `schedule_update` |
| `NotifyLayout`, `NotifyLater`, `NotifyEnd` | the two loops of `notify_signal_change`: who is executed at once, who is scheduled |

Signals carry no values: the history variables `seen` (what a run read) and `outdated`
(whose last result rests on something that has changed) say all the properties need.
`missed` marks a change that reached an observer in the middle of its own run, which the
code has no means to catch; `cut` an effect disposed of in its own run.

### PluginRegistry — `dentdelion/src/registry.rs`

Four maps behind a lock each: `state`, `providers` (the capability map), `deps` and
`dependents` (how often one plugin lists the other; a second registration adds to the
lists). An action is one lock section, or the return of an awaited hook with the section after
it; `at[c]` is the point between two of them at which caller `c` stands. `KahnStart` and `KahnPops` are the
sort of `get_enable_order`, with its counters computed along one graph (from the
`Entries` of a list) and decremented along the other; `frames` are the recursive calls of `disable_inner`. Hooks fail or
are dropped in `Abandon`.

The code never reads a plugin's metadata again after `register`: what it goes by is the graph (`Requires`), and
`unregister` takes the plugin out of every list in it (registry.rs:627-632). Beside the graph the model
keeps what the metadata of each entry says (`needs`) and, as history, what was unregistered while a plugin listed
it (`forgotten`); `Remembered` is the one without the other, and it is what the properties about dependencies are
stated with.

### VersionedCopies, SessionReplication — `auth/src/sessions/replication.rs`

The writes of a key are numbered, and an entry is the number of the write that left it and
whether it was a save. A write is a call per store (`Written`, `NotWritten`: an error may
come after the effect), one after the other, in parallel or primary only with an event
for the worker, by `strategy`. A load is two steps, primary and secondary.
A call that was dropped takes its effect at once or never, not after a later
write. `Restart` loses the queue. `lost` is history: the writes that were given up, which is what the
properties must except. VersionedCopies says that a copy only moves forward.

### DependencyHistory, MigrationExecutor — `commands/src/builtin.rs`, `db/src/migrations/{executor,graph,recorder,schema_editor}.rs`

Processes run the migrate command in any of its forms (everything, an app, to a target, to
zero). `TopologicalSort` is the queue of graph.rs with the order of keys among what
an output frees. `plan`, `done` and `tx` are what is left to do, the position in the operations, and
the uncommitted objects; `schema` and `records` the committed ones. An operation creates an
object and its reverse takes it out: what an object is does not matter, only that a second
CREATE fails and that a table is asked for first (`CheckTable`). MySQL has no transactional
DDL. `Abort` is an error or the death of
a process in the middle: the open transaction is gone, what was committed stays.
`Undisturbed` are the databases on which no one else migrates during a rollback.

A rollback goes by the rows ORDER BY `applied`, which is the client's time to the second (recorder.rs:734)
and has no tie-breaker (:811). `older` says which rows have an earlier second than which; a new row may
fall into any second (`Cuts`, `Insert`: migrations of one command tie, clocks of two hosts differ), and
`Listings` are all orders in which the rows of an app may then come. On the databases in `Steady`
each new row has a later second than all others.

`lock` is the migration lock, by whose sessions have it. `ensure_schema_table` makes the recorder's table under
it, called by a command with a target before it reads the records (`probe` to `decide`) and by the executor
(`lock` to `next`). PostgreSQL's `pg_advisory_lock` waits without a time-out and is taken and given
back through a pool, perhaps on two sessions (recorder.rs:186-192, :474-482, :524-532): `GivesBack` then leaves it with an idle one, and a
second call of the same process either meets that session again (`Reenter`) or waits for it. What ends
this wait is the pool, which closes a session that has been idle for ten seconds (`Reap`,
backends/connection.rs:217). MySQL's GET_LOCK gives up after ten seconds (`TimeOut`) and its release may fail with a
warning (`Unreleased`); CockroachDB's sentinel row stays locked until the executor is done.

### NestedScopes, NestedTransaction — `db/src/orm/transaction.rs`

`state`, `depth` and `savepoints` are the object's, `open`, `stack`, `data` and `committed` the
connection's. The object and the database disagree by design: a rollback of a nested
transaction pops the object's savepoint, while ROLLBACK TO keeps the database's, so a name is set
again above one that is still there. Each call's statement is executed at once; `Lose` ends the connection. `Disciplined`
callers release their own savepoints before the scope around them ends.

The database may refuse COMMIT, when the object is Committed already and its `rollback()` is an error
(transaction.rs:378-383, :423). PostgreSQL then undoes the transaction; SQLite, busy or with a deferred
constraint violated, may keep it open with no call of the object left to end it. The next object's BEGIN on
the connection is refused in turn, yet that object becomes Active, inside the old transaction: its commit
publishes what the first one wrote, its rollback undoes it. NestedScopes knows only brackets, what was there when each
opened, and whether the outermost is `stranded` (`Strand`, `Rejoin`).

### DependencyInjection — `di/src/{context,cycle_detection,registry,scope,validation,graph,injectable}.rs`

A request is a task; `frames` are the factories it is in, `resolving` and `scopes` the
task-local `resolution_path` and `scope_stack`. A step goes from one await to the next:
`Resolve` refuses for the scope, hits the cache, reports a cycle, or enters the
factory, in that order; `Finish` stores without looking again, as `resolve_internal` does. `Fail`,
`Swallow` (`Option<T>`) and `Cancel` are the ways out in which the guards have to clean up.
An instance is its number and the set of requests whose instances it holds through any others.
`Reached` and `Descendants` say what the two searches of the validator find: the
least set closed under the step. What a factory resolves is taken to be what is declared of it.

## The runs

Each passing run has a mutant for each of its properties in `PROJECT.json`. All cfgs
but those of `migrations` and `transactions` switch the deadlock check off: a transaction
that has ended, a queue that is empty and an application that does nothing more have no
next step.

| Run | Instance | Properties | Shows |
|---|---|---|---|
| `commit_faults` | three databases (PostgreSQL under the transaction's id, two MySQL), all faults, with log | IInv, AccountsAreTrue, EndedHoldsNoSession, CommittedIsWhole, AbortedIsWhole, ImplementsAtomicCommit, OperationsReturn | whatever fails, and whatever is called next, the coordinator alone splits no transaction |
| `recovery` | three MySQL databases, a crash anywhere, network faults, commit policy, no abandoning | AllOrNothing, EntriesAreTrue, InDoubtResolved | a recovery that commits Prepared entries is right under these two conditions |
| `tasks_lock` | three workers, two tasks, sqlite, crashes and failing stores | LockInv, NoSimultaneousExecution, LockReleased | the lock repairs the race of the dequeue |
| `tasks_redis` | three workers, two tasks, redis, all faults but slow tasks | DeliveredOnce, OutcomeIsFinal | with single delivery the records are true and final |
| `tasks_complete` | two workers, two tasks, sqlite, living workers, slow tasks | TasksComplete, ReleaseIsOwn | every task ends, and a late release frees no other worker's lock |
| `reactive` | two signals, a listed memo, a tracking passive effect, a listed layout effect, both writing everything | NoReentry, GraphInv, ChangesReachReaders, NoLostWakeup, MemosAreCurrent, DisposedNeverRuns, FlushIsGlitchFree | see the comment at each |
| `plugins` | three plugins, two versions of one, a registrar and a manager | GraphsMirror, LifecycleInv, DependentsGoFirst, ServedOnce | while a registrar and a manager interleave, an enabled plugin keeps what its metadata requires but for what was unregistered meanwhile, and nothing is disabled under dependents the registry still lists |
| `sessions` | two clients, one key, three writes, each strategy, one restart | AckedIsKept, Converges, CopiesAdvance | what each strategy promises, with stores that fail after the fact |
| `migrations` | two processes, three migrations of two apps, each database, one fault, leaked locks | RecordsMatchSchema, WholeOrNothing, ImplementsHistory, CommandsReturn | records and schema agree up to the migration in progress, on each database for what it has; no migration is recorded before its dependencies, none is taken back before its dependents where `applied` tells the order; commands return |
| `transactions` | two names, two values, four savepoints, PostgreSQL and SQLite, commits refused | ConnectionInv, ImplementsScopes | nested transactions are nested scopes; a refused commit undoes the outermost one or strands it whole |
| `injection` | two requests, three types in every scope, four graphs, registries checked or not | NoStaleCapture, RefusalsAreReal, OncePerRequest | what check-di guarantees, and what is left without it |
| `find_two_singletons` | the same | OneSingleton | refuted, see below |

Facts that belong together are one property, a conjunction of named parts, each stated in
its module: AccountsAreTrue is StatusIsTruthful and InDoubtIsLogged; EntriesAreTrue is
PresumedAbort and PreparedEntryHasVotes; DeliveredOnce has HeldOnce and SuccessWasEarned in it;
GraphInv is TypeOK, StaysSubscribed and DisposedIsForgotten; LifecycleInv is TypeOK,
OrderHolds, OnEnableSeesDependencies and DependenciesStayUp; AckedIsKept is TypeOK, AckedInStores,
NoStaleLoads and NothingForgotten; RecordsMatchSchema is TypeOK, RecordedIsInSchema and
SchemaIsAccounted; ConnectionInv is TypeOK, SavepointsStand and NothingLeftOpen;
RefusalsAreReal has TypeOK of the injection in it. IInv and LockInv have the TypeOK of their
modules, and IInv implies AllOrNothing (`Atomicity`).

The bounds, and why they are enough.

- Databases: two make a split; a third gives a loop a first, a middle and a last
  element, a participant that joins late, and both adapters in one transaction. The coordinator's
  proofs hold for any number.
- Workers and tasks: two workers race, a third takes the lock that lapsed between them; two
  tasks let a worker go on to another while its lock of the first is still there.
  `tasks_complete` has two workers, because liveness costs.
- Reactive: a cycle needs two writers, an ordering question a layout and a passive
  effect, staleness a memo with a reader. `MaxCallbacks` bounds the flushes queued with the
  scheduler: user code sets no signal while that many wait. Two are reachable in
  the code (a flush of an outermost batch clears `update_scheduled` while a callback is
  still queued) and the third would be like the second. Nested batches are one level: the code only compares the
  depth with zero. The depth of the stack needs no bound: a function out of its slot is
  not entered again, which is NoReentry.
- Plugins: three make a chain and a diamond's half, and a version of one that closes a
  cycle. One manager: with two, a dependency is disabled between check and hook (below).
- Sessions: the events of one key do not depend on another's, so one key; a second write
  overtakes a first one that is retried, a third the second; RetryAttempts 2 is one retry.
  One writer: with two the stores diverge (below).
- Migrations: x2 depends on x1 but is named before it, and on a migration of another
  app in between; a table and a column in one migration. One fault leaves one migration
  half way, which the other process then meets. `Undisturbed` and `Steady` are PostgreSQL and MySQL, so that
  the order of rollbacks is checked there; CockroachDB has the ties, the clocks and the disturbed rollbacks, and what
  holds in spite of them is checked with them.
- Transactions: four savepoints are three levels with one of the caller's between any two;
  six in the database leave room for the ones rollbacks leave behind. A refused COMMIT needs no bound.
- Injection: a capture needs three types, singleton, transient, request; a false cycle needs
  a type reached twice. Four graphs instead of all 512, for TLC's time: a chain, one type reached
  on two paths, a cycle that its root does not belong to, a type that depends on itself. MaxDepth
  is 3 instead of 100, so nothing but cycles reaches it.
- Counters of time are absent: TTLs lapse, timers fire, at any moment.

Fairness. `FairSpec` of the coordinator has WF of `Continue`: tokio polls a future that can
go on; nothing is assumed of the caller. `FairRSpec` has WF of `Recover`: the operator goes
on while an entry lists an undecided branch; not of the process, which may
crash or idle. `FairSpec` of the workers has WF of each worker's `Poll` and `Proceed`: the
interval ticks and tasks terminate, so it is used only without crashes (and without the fault
`status`: an outcome whose recording fails is not recorded). `SessionReplication` has WF of `Worker`
and of each client's `Proceed`: stores answer, in success or error. `MigrationExecutor` has WF of
each `Proceed` and SF of `Acquire`: the database answers and serves those who wait for the lock
in turn, each of which is enabled again and again while others hold it; WF of `TimeOut`, which MySQL's server does; and WF of `Reap` while
the process waits in `lock`, that is, for a session of its own that is idle: the pool's
`idle_timeout` is set to ten seconds (backends/connection.rs:217). Without this last one CommandsReturn fails. `ReactiveRuntime`,
`PluginRegistry`, `NestedTransaction` and `DependencyInjection` have none, and only safety is checked there.

What a pass does not say: `InDoubtIsLogged` excepts torn files, and `recovery` has a log
that does not fail and a caller that does not abandon. Outside those conditions the
code breaks, and this is known rather than run: after a failed write of Prepared
(core.rs:759) a caller can commit one database and crash, and recovery presumes abort; a
torn file hides prepared branches from `find_by_state`; a rollback of a prepared
transaction interrupted by a crash leaves an entry Prepared that the commit policy completes
the wrong way. Likewise `SuccessWasEarned` and `OutcomeIsFinal` fail on sqlite,
`LockReleased` fails when get_task_data errs (worker.rs:422), and a task slower than its
lock is executed twice (worker.rs:408), which a lock with a time to live cannot prevent.

Several hazards of `PROJECT.json` are for that reason listed with no property: the coordinator that stays in
Aborting (EndedHoldsNoSession is about transactions that have ended, and this one never does), the torn
log entry, the success recorded by a worker that was refused the lock (on redis, where
OutcomeIsFinal is checked, none is ever refused), the lock that is left when get_task_data errs, `Memo::new`, a change
in the middle of a listed effect's run, two writers of a session, two managers of plugins. Of a failed write of the log
AccountsAreTrue sees what the entry then says of the databases, and not the crash after it; DeliveredOnce allows that a crashed
worker loses its task; GraphInv excepts the layout effect without a list that sets what it reads. Of an interrupted
migration RecordsMatchSchema says that it can be recognised, not that the command can go on from there.

## What the runs found

`find_two_singletons` must end in a violation: two requests that miss the same singleton
both await its factory, and each gets its own; the second store wins (context.rs:709,
:896). registry.rs:18 says "Single instance shared across the entire application".

The other disagreements were met in the same way, with the constants named here or with
a property weakened to what the code does, and have no run of their own:

- Recovery by rollback: tests.rs:88-93 of the two-phase commit shows recovery as
  rolling back what is Prepared; `Policy = "rollback"` violates AllOrNothing after a crash
  inside `commit()`.
- A failed prepare: the automatic rollback fails on the participant that failed, whose
  session is gone, and the coordinator stays in Aborting; tests.rs:129 expects Aborted, with
  a mock that has no session.
- With the ids of the module's own example no PostgreSQL participant can prepare
  (core.rs:964): `XidIsId` empty for it.
- `commit()` after a failed commit cannot succeed, although core.rs:798 returns to Prepared
  "for recovery" (the sessions are gone; only recovery by XID helps); PostgreSQL's adapter
  cannot roll back a transaction that was begun and not prepared, since it always sends
  ROLLBACK PREPARED; the module's example (core.rs:36-38) commits without preparing,
  which returns InvalidState.
- A worker refused the lock records success for a task that is still being executed
  (worker.rs:416): SuccessWasEarned on sqlite.
- A memo of `Memo::new` is never marked dirty, against the module's example (memo.rs:29),
  and a layout effect that sets a signal it has read loses its subscription (effect.rs:342,
  against :74): MemosAreCurrent and StaysSubscribed are stated for listed ones.
- Two managers of plugins: `on_enable` is called with a dependency that another call has
  disabled after the check, against plugin.rs:131, and the plugin stays enabled.
- One manager is enough to remove a plugin under an enabled dependent: `unregister` refuses only what is
  Enabled (registry.rs:595) and takes the removed plugin out of its dependents' requirements (:627-632).
  With a, b, c enabled and c requiring a: a second `load_all` puts a and b back to Loaded, the `on_load` of c
  fails, so that c stays Enabled; `unregister(a)` is then allowed, and `validate_dependencies` finds nothing
  amiss. In the same way a plugin can be loaded and enabled later without one that was removed, where plugin.rs:131 says of
  `on_enable` that "all dependencies are already enabled". Hence `forgotten` in DependenciesStayUp and
  OnEnableSeesDependencies; OrderHolds and DependentsGoFirst are relative to the registry's graph as it is.
- Two writers of a session under AsyncReplication: the primary sees their writes in one order
  and the queue in the other, and the stores differ for good, against replication.rs:66.
- Migrations on PostgreSQL or MySQL with a rollback beside an apply (`Undisturbed` empty):
  a late record or a late statement leaves records and schema apart; on the checked instance
  WholeOrNothing still holds, its theorem assumes `Undisturbed`.
  A rollback planned before the lock was taken may take a migration back before one that
  depends on it, on CockroachDB too, where the lock does not help.
- A rollback is not "newest first" (executor.rs:398), and what it takes back not what was "applied AFTER" the target
  (builtin.rs:202), where two records share a second or were stamped by clocks that differ: `applied` is the
  client's time to the second with no tie-breaker (recorder.rs:734, :811-816), and the migrations of one command
  usually tie. With a database outside `Steady` in `ordered`, ImplementsHistory is violated; the cfg has
  the two undisturbed ones in it, and the order of rollbacks is claimed only there.
- The migration lock of PostgreSQL can stay with an idle session of the pool, the leak that recorder.rs:171-180 describes
  for MySQL, where it was repaired. A second `ensure_schema_table`, of the same command or of
  another process, then waits until the pool closes that session. CommandsReturn says that this is all: with `Reap`'s fairness left out
  it is violated.
- Transactions on SQLite: a COMMIT refused for a busy database or a deferred constraint leaves the transaction open,
  the object Committed, and `rollback()` an error (transaction.rs:378-383, :423). NothingLeftOpen
  excepts exactly this state, and ImplementsScopes says what becomes of the writes.
- Transactions with `Disciplined = FALSE`: `commit()` at depth 2 releases a savepoint of the
  caller's and leaves its own (transaction.rs:372). A caller's savepoint named `sp_2` meets
  the object's of that name.
- Injection without check-di: a singleton that resolves a transient that resolves a
  request-scoped type keeps that request's instance for the life of the process; `outlives`
  (registry.rs:35) sees one edge. NoStaleCapture says that this is the only way, and that a checked registry has none.

## The proofs

Checked by TLAPS for every value of the constants that satisfies the named assumptions, which TLC
evaluates in every run: `CoordinatorAssumption`, `RecoveryAssumption`, `WorkersAssumption`,
`ConstantsAssumption` (finitely many memos, an id names one thing), `RegistryAssumption`
(finitely many plugins), `ReplicationAssumption` (there is a key), `MigrationsAssumption`
(finitely many migrations with distinct keys; no two operations touch the same object),
`TransactionAssumption` (a caller's name is no `sp_k`), `InjectionAssumption` (finitely many types).
Where a theorem needs more, the condition is named and stands in its hypotheses: it is a
condition under which the code is right and without which it is not. TLC checked each invariant before it
was proved.

**TwoPhaseCoordinatorProofs.** `TypeCorrect`; `Invariance` (IInv); `Atomicity`
(AllOrNothing); `CommitIsWhole`, `AbortIsWhole`; `Refinement` (ImplementsAtomicCommit).
AllOrNothing alone is not inductive: nothing in it keeps a rollback from
reaching a database after the first commit. `IInv` adds why it cannot: `Control` (each operation
runs in its state, ids are unique), `Attached` (a session in a slot stands for a branch the
database still has), `Progress` (in Preparing nothing is committed, in Committing nothing is open,
and what the loop has passed is done), `PointOfNoReturn` (after the first commit
only a commit in progress, or one that was dropped, still has sessions, and then `rollback()` is
refused in Committing). Every step of `Next` preserves the four; the refinement then takes one
case per action, by `BranchStep`: a step changes at most one branch and in a way
AtomicCommit allows.

`TrueAccounts` (AccountsAreTrue) and `EndedIsFree` (EndedHoldsNoSession) rest on `AccountInv` beside
it: `LogInv` (begin logs whom it is about to begin, and whoever is begun and undecided is in the
entry unless a write cut it short) and `HeldInv` (a session filed under another key stops both
ways to end). The recovery is proved over `RSpec`, crashes and operator included:
`RecoveryAtomicity` (AllOrNothing) and `TrueEntries` (EntriesAreTrue), under `Agreed`: the log is
used and does not fail, Prepared entries are committed, and nobody rolls back what was prepared.
`RInv` says that the entry is Prepared exactly while the coordinator goes for commit, and that
the first commit comes after that entry; `EntriesAtCrash`, the log at any point inside the last
step, needs the same of the states between.

**TaskWorkersProofs.** `TypeCorrect`; `LockInvariance` (LockInv: a worker inside
`execute_task` holds the lock of its task, unless tasks outlive locks), from which
`MutualExclusion` for any workers and tasks with a lock and without `slow`; and, on
redis, `Delivery` (TypeOK and DeliveredOnce: a task is in the list or in one worker's hands
or has its outcome) from which `OnceDelivered`, `OneHolder`, `EarnedSuccess`, `FinalOutcome`, with or without a
lock. `NoLockLeft` (LockReleased) needs that get_task_data and the lock's release do not err
(worker.rs:422 returns with the lock taken); `OwnRelease` (ReleaseIsOwn) needs nothing.

**ReactiveRuntimeProofs.** For any sources, observers, timings and lists of dependencies, whatever
the functions read, write, create and dispose. `SlotInvariance`: the invariant `Slots` says that the stack is a
sequence in which no observer runs twice, that a slot and the stack share no function, and that a
slot belongs to a registered observer. From it `NonReentrant` (NoReentry) and
`DisposedStaysStopped` (DisposedNeverRuns): a run starts only from a slot, and disposal
empties it for good because the guard that puts a function back asks first.

`Invariance` (`RInv`) adds the parts for the graph and the queue. `Subscribed`: whoever is at rest
and missed nothing is in the lists of what it has seen; `Forgotten`: whoever is disposed of is in no
list, but for those cut in their own run. `Woken`: a flush that is scheduled is queued with the scheduler or in progress, and with work pending
one is scheduled or a batch or flush is open. `Marked`: a memo with a notifier whose input changed is
dirty, was missed in the notifier's own run, or its notifier is due. To keep the proofs of five properties from taking twenty actions each,
`Steps` classifies every step once, by what it does to those who are due: a change, a read, a run that
begins, a run that is missed because the observer is running, or a step that leaves
them alone (`Calm`); the properties then take one case per class. From it `GraphStaysRight`
(GraphInv), `WakeupsAreKept` (NoLostWakeup), `FlushesAreGlitchFree` (FlushIsGlitchFree).
`MemosStayCurrent` (MemosAreCurrent) and `NoUpdateIsLost` (ChangesReachReaders, with the invariant
`Told`) assume `EveryMemoNotifies`: each memo was made by `new_with_deps`. One
made by `Memo::new` has no notifier, and the properties are false of it (below, what the runs found).

**PluginRegistryProofs.** `MirrorInvariance` (GraphsMirror, for any callers: only two
lock sections write the graphs, and both write both); `ServiceInvariance` (ServedOnce, for at most one
registrar and one manager, which is `Alone`): `Books` adds to it what a registration or a
removal in progress has already done to the capability map, so that the count is known
whenever a plugin can become enabled. `TypeCorrect` is for any callers.

`LifecycleHolds` (LifecycleInv) and `DependentsDownFirst` (DependentsGoFirst) are under `Alone` too,
for any plugins and requirements, cycles included. They are about what the metadata requires: `Memory`
says that the graph has every requirement of every entry but what was unregistered since, and that a registration in progress is in it as far as it has come; so
what is shown of the graph is true of `Remembered`. `OrderProperties` is what `get_enable_order`
promises, by induction over the pops: a counter is the number of `Entries` that are left when those
of sorted plugins are taken out, so whoever is queued requires nothing unsorted; a plugin
may occur many times in a list. The order then holds while it is used because what is in it
is not removed, and what is registered meanwhile is not in it. For the way down the
invariant needs to know that enabled plugins do not require each other in a circle, although
the graph may have one: `Foundation` says that there are ranks for the plugins that were enabled at one
time, each requiring only lower ones; a second `load_all` puts plugins back to Loaded under their
dependents, so being enabled is not enough. `Nested` describes the calls of `disable_inner`: each was made
for an enabled dependent of its caller, so ranks climb along them (`Climbing`) and no call meets a
plugin further down (`NoWayBack`); a dependent passed over because it was seen is therefore
disabled already, and when none is left none is enabled.

**DependencyInjectionProofs.** `Invariance`, `TypeCorrect`, `NoCapture` (NoStaleCapture), `RealRefusals`
(RefusalsAreReal), `OneInstance` (OncePerRequest), for any finite types, any graphs
and any number of requests. `IInv` says of the factories a request is in that each depends on the one above it
and that the task-local stacks are those of the frames, whatever was refused, failed or dropped;
and that a type that holds an instance of a request reaches one of that scope, and, if it is a
singleton, through a transient (`Capturing`). That the two searches of the validator find exactly the descendants is proved
of their definition as least sets.

**SessionReplicationProofs.** `AckedKept` (AckedIsKept) and `CopiesRefinement` (CopiesAdvance, the
implementation of VersionedCopies), where each key has one writer at a time (`OneWriterEach`; with two
the stores diverge). The invariant orders, for each key, the secondary's number, those
of the queue's events in their order, and the primary's (`QueueInv`); a retried event whose
effect was done is then no step back.

**NestedTransactionProofs.** `ObjectAndConnection` (ConnectionInv) and `ScopesRefinement`
(ImplementsScopes) for `Disciplined` callers, any names, values and bounds, on PostgreSQL and SQLite, whatever COMMIT
does; a stranded transaction has no scope of the object's on its stack, which is what lets the next object begin in it.
ConnectionInv alone does not say that a name about to be used is new to the object;
`Numbered` adds that its savepoints have distinct names and that those of nested transactions are
numbered up to the depth. The central lemma is that the newest savepoint of a name in the
connection is the object's, with what was there when it was set, whatever rollbacks left above it.

**MigrationExecutorProofs.** `Invariance` (BaseInv: types, the lock, who works beside whom);
`HistoryRefinement` (ImplementsHistory) from `HistoryInv`: a plan
to apply needs only what is recorded or earlier in it; and, on Undisturbed and Steady databases, a record has those
of its dependencies with earlier seconds, so that every listing has them first and a plan to roll back takes the dependents first.
From the same invariant `RecordsClosed`: there, what is recorded has its dependencies within the app recorded.
That rests on Kahn's algorithm, proved as a loop over its state: what is sorted is in order, and a
sort as long as the set has all of it. `SchemaAndRecords` (RecordsMatchSchema) and
`AtomicMigrations` (WholeOrNothing) from `DataInv`, which adds how far the current migration of each
process is in its view of the schema. All four are under `Guarded`: PostgreSQL and MySQL are in `Undisturbed`, since
they give the lock back before the first statement and only CockroachDB keeps it.

Only model-checked: liveness (OperationsReturn, InDoubtResolved, TasksComplete,
Converges, CommandsReturn), which TLAPS cannot do under fairness. OneSingleton is
refuted. No recursive operator is declared anywhere.

## What is not covered

- Coordinator: several transactions at once over the same servers, effects of a dropped call
  that arrive later, MySQL's refusal of XA ROLLBACK before XA END (rollback_started sends no XA END,
  mysql/two_phase.rs:433; where calls may fail the refusal is one of the failures, elsewhere the
  call succeeds, as the driver's comment has it),
  `cleanup_stale_transactions`, the direct session calls, and the synchronous `TwoPhaseCommit`.
- Workers: webhooks, the content of results, metrics, `stop()`, the RabbitMQ and SQS backends.
- Runtime: memos over memos, a panic in user code (it would leave an observer on the
  stack, effect.rs:389), cleanups that call back, `context.rs`, a scheduler that flushes
  synchronously, and liveness of pending updates: with functions that may never
  return, nothing follows without a fairness the code does not have.
- Plugins: the WASM host, and the locks as such: a section is atomic, so an order of locks that
  deadlocks is not seen.
- Sessions: `exists`, which reads as `load` does; the expiry of entries; the retry delay; two writers of a key
  (above); a dropped call whose effect arrives after a later write.
- Migrations: `--fake`, `--plan`, operations without reverse SQL, the recreation of tables on SQLite,
  `apply` of a bare plan, SQLite (no lock, one file), a pool whose idle sessions are never closed.
- Transactions: `Atomic`, `begin_db` and its kin, TransactionScope; MySQL, whose syntax BEGIN TRANSACTION is
  not; statements sent after a lost connection, which a new one would execute on its own.
- Injection: `resolve_with_cache(false)`, `__resolve_from_registry`, overrides, forked contexts,
  values seeded into a scope, two resolutions awaited at once within one
  request, by a factory or beside one another: the check, the await and the store of context.rs:713 and :899 are those of the
  singleton, so OncePerRequest rests on a request being one task that resolves one thing after the other.
- The components of the table above without a module, and all of "everything else".

## Running it

`tlc -config X.cfg M` for a run of `PROJECT.json`; the largest, `reactive`, has 1.7 million
states; it takes about a minute, `migrations` about three, the others less. `tlapm M.tla` for the eight
proof modules.
