# A TLA+ model of quantum-entanglement

quantum-entanglement is an event-sourced orchestrator for agent workflows. Its
durable state is one SQLite file with the event log, the invocation attempts, the
transactional outbox and their receipts. This project models the parts that decide
whether work is done once, whether a restart finds a state it can explain, and
whether what a caller was told stays true.

Source paths below are relative to `src/src/quantum_entanglement/`.

## The system

| Component | State | Operations | Hard behaviour | What makes it correct |
|---|---|---|---|---|
| Durable invocation attempts (`attempts.py`) | `invocation_jobs`, `invocation_attempts`, a poisoned/closed flag for each store object | enqueue, claim, heartbeat, complete, fail, expiry sweep, recovery snapshot | several processes on one file, clocks that are set back, lost COMMIT acknowledgements, worker death, expiry racing completion | one owner for each invocation, one start, promised leases kept, reports durable, every snapshot accepted |
| Transactional outbox (`store.py`, `delivery.py`) | `outbox`, `outbox_ambiguities` | append, claim, acknowledge, reject, mark ambiguous, resolve | lease expiry, acknowledgements that land and raise | exclusive live leases, quarantine left only by an operator, terminal rows final |
| Outbox publisher (`publisher.py`) | callback slots, attempts in flight, life-cycle flags, counters | `start`, `run`, `run_once`, `request_stop`, `stop` | hard deadline against late answer, hung connectors, cancellation, concurrent stops | bounded callbacks, every attempt and cycle ends, closing drains, truthful statistics |
| Orchestrator kernel (`runtime.py`, `scheduler.py`, `policy.py`, `agent_runtime.py`) | task graph, approvals, artifacts index, session lock, `closing` / `closed` | `run`, `decide`, `close`, recovery of a session | appends that land and raise, restart at any append, cancellation between awaits, approvals across restarts | agents called at most once and only when allowed, memory not ahead of the log, every written history recoverable |
| Event store (`store.py`, `events.py`) | `events`, `snapshots`, `inbox`, admission receipts | `append`, `append_many`, `append_with_outbox`, inbox processing, reads by page | concurrent appenders, idempotency keys, poisoned connections | gapless versions, one event for a key, exact readback |
| Invocation admission, start, results (`store.py`, `invocation_execution.py`, `invocation_results.py`, `invocation_worker.py`) | receipts binding events to jobs, starts and results | admission, scoped start, result acceptance | one transaction over two tables and its readback | a receipt names exactly the rows that were written |
| Invocation recovery (`invocation_recovery.py`) | none | decision over attempt snapshot and receipts | stale snapshots | never re-dispatches work whose effect is unknown |
| Projections (`projections.py`) | upcaster registry, offset with its lease, receipts, read model | claim, renew, apply, advance, release, `run_once` | takeover of a lease between read and write | each event applied once and in order, a fenced owner stays fenced |
| Artifacts (`artifacts.py`, `artifact_store.py`) | versions as events and in each ledger's memory; versions and blobs in tables | record, restore, write, replay | two writers of one name, appends that land and raise | contiguous versions, replay always possible, idempotent writes |
| Tenancy and protected operations (`tenancy.py`, `request_context.py`, `operation_authorization.py`) | key ring, revocation mark, issued contexts and operation handles | rotate, evaluate, issue, authorize, consume, retire, close | check-to-use races, replicas that disagree, clocks that go back | judged by current revocations, never amplified, one use of a handle |
| Backup (`backup.py`, `backup_manifest_v2.py`, `backup_topology.py`) | copies and manifests on disk | create, verify, restore | interruption between copy, manifest and publication; a failing call cleans up names that another call may have taken | a published backup verifies and stays |
| Migrations (`migrations/`, `domain_migrations.py`) | migration ledger, schema objects, two sidecar tables | apply, validate, install, bootstrap, plan, apply a plan | concurrent initializers, plans that grow stale, death between two migrations | ledger, objects and sidecar agree; a plan does what it said or nothing |

Interactions: the kernel appends to the event store and calls agents through the
registry; admission writes an event batch and an invocation job in one transaction;
workers own jobs through the attempt store; `append_with_outbox` writes outbox rows
with their events; publishers read only the outbox tables and call connectors;
projectors read the log by global position; recovery coordination reads attempt
snapshots and receipts. All of them share the SQLite file, whose write transactions
are serial, so that one transaction is one step of a model.

`PROJECT.json` lists every component with its status and the hazards of the code at
their lines.

## Modules

| Module | Models | State |
|---|---|---|
| `InvocationAttempts` | `attempts.py` | `job`, `attempts`: the two tables; `clock`, `tokens`: the system clock and the tokens drawn; `store`, `call`, `held`: what each process has in memory; `told`: what callers were told |
| `InvocationContract` | the promise of that store for one invocation | `life` |
| `OutboxPublisher` | the outbox transactions of `store.py` and a publisher's attempts in `publisher.py` | `row`, `ambiguity`: the two tables; `task`: each claimed attempt with its connector thread; `clock` |
| `DeliveryContract` | the promise of the outbox for each message | `life`, `holder`: the token a message is held under, `rulings`: what operators ruled |
| `PublisherLifecycle` | the publisher's life cycle on one event loop | flags, the run task, each `run_once` call, each `stop` call, abandoned callbacks, counters |
| `EventStore` | the log and the tables written with it (`store.py`) | `log`, `outbox`, `inbox`, `snapshot`; history: `told`, `admitted` |
| `InvocationAdmission` | admission and start (`store.py`, `invocation_execution.py`), the worker gate, recovery decisions; over `EventStore` | `jobs`, `receipts`; the store objects; history of leases, answers and decisions |
| `Projections` | `projections.py`, over `EventStore` | the registry, `offset`, `receipts`, `readModel`, each worker's batch |
| `ArtifactLedger` | `artifacts.py`, over `EventStore` | each ledger's memory and the call it is in |
| `ArtifactStore`, `Backup` | `artifact_store.py`; `backup.py` over it | `versions`, `blobs`; the directory entries and the calls |
| `Migrations` | `migrations/__init__.py`, `domain_migrations.py` | `ledger`, `objects`, `tables`, `metadata`, `edges`, the call of each process |
| `Capabilities` | `tenancy.py` | the key ring, the revocation mark |
| `ProtectedOperations` | `request_context.py`, `operation_authorization.py`, over `Capabilities` | contexts, operations, their clocks' high-water marks, the call of each thread |
| `Orchestrator` | one session of the kernel: `run`, `_run_task`, `_recover_session`, `decide`, `close`, the task graph and the policy | `log`: the stream; `mem`: the projection; `run`, `pc`: where the coroutines are; `life` |

| Proofs | About |
|---|---|
| `InvocationAttemptsProofs` | `InvocationAttempts`, and that it implements `InvocationContract` |
| `OutboxPublisherProofs` | `OutboxPublisher`, and that it implements `DeliveryContract` |
| `PublisherLifecycleProofs` | `PublisherLifecycle` |
| `EventLogProofs` | `EventStore`, with `Projections` and `ArtifactLedger` over it |
| `StorageProofs` | `Migrations`; `ArtifactStore` with `Backup` |
| `ProtectedOperationsProofs` | `ProtectedOperations` with `Capabilities` |
| `InvocationAdmissionProofs` | `InvocationAdmission` with the log it writes |
| `OrchestratorProofs` | `Orchestrator` |

The `MC...` modules hold the instances for TLC. Definitions whose comment begins
with "Mutant" are plausible bugs; `PROJECT.json` pairs one with every property, and
the property fails when the mutant takes the place of the definition it varies.

### InvocationAttempts

One step is one SQLite write transaction, or the readback after an uncertain COMMIT.
`Commit` ends a transaction in one of three ways: acknowledged; lost, with the
transaction landed or rolled back, after which the call reads its rows back
(`ReconcileMatch`, `ReconcileAmbiguous`) while other processes go on writing; or
poisoned, after which only `Reopen` or `Crash` make the process usable again. A call
reads the clock inside its transaction; readings may lag by up to `Skew`. `claim`
and `claim_next` first fence every expired owner and then select a job that was
never started, as the SQL does. The job columns are those of the table but for the
identity columns (one job id stands for the tuple that is unique) and texts (an
error is `"failure"` or `"expiry"`). `JobRowValid`, `AttemptRowValid`,
`HistoryValid` and `SnapshotValid` are the checks that startup recovery runs.

Left out: paging, process binding after `fork`, the wording and sanitising of
exceptions.

### OutboxPublisher

One step is one transaction, or the code of a publisher between two awaits. An
attempt goes from `claimed` through `calling` to `acking`, `rejecting` or
`quarantining`. The connector runs in a thread of its own (`TakeEffect`, `Return`) and may
hang; the hard deadline abandons it. `Endings` says how a transaction may end for its
caller. A claim may commit and raise, which leaves leased rows that nobody works on.

`DeliveryContract` is about the messages, the token each one is held under and the
rulings of operators. A row in flight with an open ambiguity is quarantined there. The
contract has one step for a quarantined message: an operator rules on the very attempt
whose token it is held under, once. A claim gives every message it takes a token that
nobody holds and nobody ruled on, and takes only waiting and leased messages;
acknowledgement and rejection settle leased messages only. So a takeover, a retry or an
acknowledgement of a quarantined message is no step of the contract, not even a stutter,
since it moves the token or the row. Time is not part of the contract.

Left out: backoff arithmetic (`RetryDelays` is a set of delays), counters (they are
in `PublisherLifecycle`), message contents.

### PublisherLifecycle

One event loop; one step is the code between two awaits. `hit` holds the cycles with a
cancellation that has not been delivered: a SQLite call is awaited to its end before
it is. `lost` is a history variable: some attempt ended with an unknown outcome. The
counter of an attempt that is cancelled in its call is raised when the call is
abandoned and not after the quarantine; nothing reads it in between that could tell.

### Orchestrator

One step is the code between two awaits. Every change appends a batch and then
applies it to memory; an append may be reported as failed, or land and be reported
as failed because the readback could not prove it (`"unseen"`). A readback that
proves the batch is the same as a plain success. `Replay` folds the log as
`_recover_session` does and refuses what that refuses; it is a recursive function of
the log's prefixes, one event (`Stepped`) at a time. `RefreshEvents` goes through
the tasks in the order of the plan, as `preview_refresh` does. `EVENT_APPENDED` hooks are
swallowed by the code and left out; the others may raise (`HookRaises`,
`InvokeRefused` for `BEFORE_AGENT`, the `hooks` parameter for `AFTER_DISPATCH`).

Abstractions: one process, as `docs/production/SESSION_RECOVERY.md` requires; one
session with one plan, and always the same one (a different plan is refused before
anything changes); one artifact for each task; event envelopes, payload codecs and
texts are left out, and with the envelopes their causation ids. A status reason longer than the recovery limit (65,536
characters) cannot enter the log, because the store refuses a longer string: that
append fails and the task stays RUNNING, which the failing append covers. The
cumulative replay limits are far from any bounded model and are left out.

An observation that contradicts no document: `preview_refresh` makes one pass. In a
chain A, B, C in which A fails, `run` returns with B blocked and C still pending; the
next `run` blocks C.

### EventStore

One step is one write transaction: `append`, `append_with_outbox`, `append_inbox`,
`append_many` and `save_snapshot`, each with the lookup of its keys, the expected
versions and positions and the unique constraints of the tables. The COMMIT may land
and raise; the caller is then told nothing and retries. `told` and `admitted` keep the
first answer a caller got. The outbox that publishers work on is in
`OutboxPublisher`; here a message only knows the event that caused it.

Left out: page sizes, the decoding and refusal of rows that the code cannot have
written, process binding.

### InvocationAdmission

The admission appends a task's events, enqueues its job and writes its receipt in
one transaction; a start mints the only lease and appends the event that proves it.
A transaction that lands and raises poisons its store object (`Abandon`), and the
truth is read back after `Reopen`. `EnqueueAlone`, `ClaimAlone` and `EndAttempt` are the
transactions of the attempt store that the admission does not see, `AppendOther` is
any other appender. `Assess` is the recovery coordinator: the decision matrix of
`assess_invocation_recovery` over one snapshot of one task of a session, which looks
at every invocation admitted for that task. A digest is what it digests, so a job
and a receipt carry the request itself.

`Claimable` does not compare the job's counters with its history, as `claim` does for a row
that nobody could have written: the model allows a claim there, so it only allows more.

Left out: expiry of the first lease (it is in `InvocationAttempts`; an expired attempt
is one that `EndAttempt` has ended), and result values: `invocation_results.py` is a
codec that the worker gate does not dispatch to yet.

### Projections

A worker claims, reads a batch, upcasts, renews and applies event by event, each
apply in one transaction with receipt and offset; `advance` and direct applies are
calls of their own. The code compares clocks with the deadline only to ask whether
the lease still runs, so time is the flag `offset.live`; `Expire` may clear it before
any step. Registration and sealing of upcasters come before the first batch.

### ArtifactLedger, ArtifactStore and Backup

A ledger appends behind the last event it has replayed. Its lookup and its append
are two transactions, between which other ledgers and other callers append; an
append may succeed, land unseen and be reconciled, race or be refused, and is tried
at most `RecordAttempts` times. Byte and count limits are one condition.

A write of the artifact store is one transaction. `Backup` copies that store while
writers go on: a directory entry is the call that made its inode and what the inode
holds, which is how the code recognises its own files. Temporary names are unique and
not shared. Each link and each unlink of a shared name is a step, and a call may raise
or die before and after every one. Checks that only read are part of the step they
precede, but for one: a call that cleans up reads the identity of an entry
(`UnlinkOwned`) and unlinks the name in a later step (`Unlink`), whatever file the name
has by then.

That last window is real. `docs/production/SQLITE_BACKUP_RESTORE.md:160-162` says that an
unlink happens "only if it still has the device/inode created by this attempt. A
replacement entry is left untouched". If an operator removes the file between the check and
the unlink, and another call links its own under the free name, the unlink takes the
other call's file, which may have been reported by then. The same document makes
exclusive permissions on the directories a prerequisite (164-170), and no call of the module
removes a file it does not own by its check. `BackupsHold` states the exception: a
file that was linked while another call was about to unlink its name (`exposed`) may
go; every other reported file stays, and without an operator's removal nobody is exposed.

### Migrations

A migration stands for its row of the ledger and the objects it owns. The runner
validates rows and objects without a transaction (`ReadRows`, `ValidateSchema`),
applies one migration per transaction and validates again. The bridge reads in one
snapshot; `PlanBridge` and `ApplyPlan` are separated by any steps of others.
`Adopted` are the migrations whose tables an older release made by itself.

`SchemaExplained` admits two schemas that the bridge refuses to read, and both are
what the code does: one with adopted tables that no migration has taken over yet,
and one described at a shorter prefix that an initializer has extended since (`attempts.py`
and `artifact_store.py` open the file at a prefix, `store.py` at the whole registry).
The second contradicts `docs/architecture/DOMAIN_SCOPED_MIGRATIONS.md:325`, which says that
every packaged ledger row has a metadata row after a bootstrap. That claim is
`LedgerDescribed`, and finding 3 shows how it fails.
`docs/architecture/DOMAIN_SCOPED_MIGRATIONS.md` says of an empty database that the
bridge creates the legacy ledger too; the code creates the sidecar tables only, and
the model follows the code.

Left out: checksums and DDL texts beyond equality, down scripts and native domain
migrations, which no code applies.

### Capabilities and ProtectedOperations

A chain of claims carries the key ids that signed it; patterns of actions and
resources are the sets they denote. `Decide` is `evaluate` up to the mark it leaves,
`Outcomes` what it may answer. The mark is shared by processes and moved by others in
`DecideElsewhere`; the ring is the process's own.

A call of `authorize` or `consume` is a sequence of steps, one for each lock it takes or
boundary it calls: prepare, check, observe, evaluate, allow, then register, or
refresh and consume. Readings of the clock are arbitrary; one that went back within
`Skew` reads as the high-water mark, further back the call fails. A step that reads
the clock and then refuses keeps the reading. `Fail` is every other exception.
Object identity (`id` and weak reference of a handle) is the handle itself, and handles
that a caller has altered are not modelled.

`evaluate` takes the lock of the ring again for each proof after the guard's COMMIT
(`tenancy.py:2458`, then 2514 and 2664). `Evaluate` merges these checks with the COMMIT,
so what a decision says is said of that instant: a mark that moves or a key that is
removed between the COMMIT and the answer is not modelled. One `Skew` stands for the
skews that the evaluator, the contexts and the operations are configured with.

Left out: several tenants (the tenant check is equality of scopes), the
context-manager leases of the composer (`__enter__` and `__exit__`), wiping of secrets.

## Runs

| Run | Question | Instance |
|---|---|---|
| `attempts_one_job` | Do skewed clocks, lost acknowledgements, poisoned stores and crashes ever give an invocation two owners or two starts, break a promised lease, falsify a report, or write rows that recovery refuses? Does the store implement `InvocationContract`? | one job with two permitted attempts, two processes, leases of 1 or 2, skew 1, clock to 4, two tokens |
| `attempts_two_jobs` | When two jobs compete for claims and for a sweep of one lease at a time, is every running job released in the end? | two jobs with different priorities and budgets, two processes, clock to 2 |
| `outbox_takeover` | Do takeovers, hung and late connectors, failing acknowledgements, cancellation, process death and an operator ever break the exclusivity of live leases or the bound on callbacks, end a message in a state it did not earn, or leave an ambiguity nobody can resolve? Does the outbox implement `DeliveryContract`? | one message, two publishers, lease 2, deadline 1, two attempts, clock to 4, two tokens |
| `outbox_batch` | Does every attempt of a batch end although connectors hang? | two messages, one publisher, batches of two |
| `outbox_uncertain` | Is the connector never called again for a message whose call timed out after it had taken effect, before an operator ruled on it? Violated, see below. | one message, two publishers, the clock and tokens of `outbox_takeover` |
| `publisher_lifecycle` | Does closing drain what was accepted and nothing else, is a clean shutdown reported truthfully, does every cycle end, does `stop` close? | one direct caller beside the run task, two stops, two cancellations of each kind, two callback slots |
| `publisher_cancelled` | Does `stop` always close? Violated, see below. | one caller, one stop, one cancellation of the run task |
| `orchestrator` | Are agents called at most once, only when allowed and only after their dependencies, can every history be recovered, and does `run` return? | two tasks under three plans: side by side, approval before a dependent, denial before a dependent |
| `stores` | Is every answer of the log true, and for good? Can ledgers always replay it? Do artifact versions survive retries and races? Does a backup that was reported stay, and what a dead call left never verify? Is the read model the log, applied once and in order, across takeovers, and does a fenced epoch stay fenced? Is every schema that initializers and bridges make together explained? | three events with one key in two streams, two ledgers, three outputs and an event of another caller under the key of one of them; two workers with one or two owner ids, events of two schema versions, two epochs; five writes of two scopes, two creates and a restore under the same names; two processes and three migrations |
| `migrations_described` | Does the sidecar describe every row of the ledger after a bootstrap? Violated, see below. | two processes, three migrations |
| `admission` | Can every committed admission be proved, is the authority to start handed out once, and is every recovery decision one that no lease contradicts? | two invocations of one task in three requests (plain, scoped, not canonical), two store objects, two workers, five events |
| `protected_ops` | Is a handle used once and as authorized, do all decisions agree on each revision, is each use judged by current revocations, and does a capability allow only what each of its claims covers? | two threads, one context, one handle, two actions, a sound chain and one that amplifies, three snapshots of two revisions, a key that may be removed |

`stores` explores its five parts beside each other: a behaviour goes on with the part
its first step is of. Ledgers and projections read rows of the log and nothing else of
it, and the other parts share no state, so their interleavings add nothing. `Backup` and
`ArtifactStore` do interact, and so do the log with its ledgers and the log with its
projections; they interleave freely. Three cuts keep the run small: beside backups
there are two writes without retries, since a backup only tells states of the file apart;
projections read one event type of one stream; the constant sets are shared.

Why the bounds are enough: a second token lets a stale owner meet its successor;
clock 4 leaves room for a lease, its renewal, its expiry and a lagging reading; two
jobs make priorities and the sweep limit matter; two tasks give every dependency and
every interleaving of two dispatches, and the log of a task is bounded by the
protocol itself, since no task runs twice. Three events hold a first append, its retry under the same key and a
stranger between them; two epochs hold an owner and the one that fenced it; five
events hold an admission's two, a start, and two of other writers around them; in
`protected_ops` times 0 and 1 with skew 1 make every deadline pass and every clock go
back between any two steps, and one handle and one context fill the registries. The
third migration lets a plan be made at two prefixes. The clocks stop at `MaxTime`, and tokens
at `MaxTokens`, cancellations at `MaxCancels` and `MaxRunCancels`, the log at `MaxEvents`,
epochs at `MaxEpoch`, table rows at `MaxVersions`; no other bound cuts behaviours off. Deadlock is checked in every run.

Symmetry of processes is used in the runs without liveness properties, where
processes are interchangeable.

### Fairness

- `attempts_two_jobs`: the clock goes on; one process sweeps periodically, ends its
  calls and reopens a poisoned store, which `docs/production/DURABLE_INVOCATION_ATTEMPTS.md`
  asks of an operator. Its sweep is strongly fair because other processes' calls
  may take turns with it. Nothing is assumed of workers.
- `outbox_batch`: the clock goes on, and the event loop runs every ready step of an
  attempt, as asyncio does; SQLite calls return. Nothing is assumed of connectors.
- `publisher_lifecycle`: the event loop runs what is ready. The lock is strongly
  fair, since `asyncio.Lock` serves its waiters in order. Abandoned callbacks may
  never end.
- `orchestrator`: the event loop runs what is ready and agents return or raise. The
  kernel has no deadline for an agent, so that `RunReturns` rests on that assumption.

### Findings

1. `outbox_uncertain`. `docs/production/OUTBOX_PUBLISHER.md:21-23` says that timeouts,
   cancellations, uncertain ACKs and late acceptances "are never automatically retried
   until an operator records evidence-backed resolution". The quarantine is a
   transaction of its own after the timeout. In the trace a publisher calls the connector,
   the effect takes place downstream and the call times out; the lease expires before the
   ambiguity is recorded; another publisher claims the message, finding no ambiguity, and
   its connector is called. The late `mark_outbox_ambiguous` finds another token and
   records nothing (`store.py:4513`), so that no operator is ever asked.
2. `publisher_cancelled`. The docstring of `stop` says that it closes after all
   accepted cycles have ended. When the run task is cancelled before its first step, or
   while its `finally` block waits for the cycles, `_mark_closed` is never reached and
   `_run_task` keeps the cancelled task; every later `stop` awaits it, gets
   `CancelledError`, and the publisher stays in `closing` for ever.
   `StopClosesUncancelled` shows that this is the only way.
3. `migrations_described`. `docs/architecture/DOMAIN_SCOPED_MIGRATIONS.md:325` says "Every
   packaged ledger row has exactly one metadata row after bootstrap."
   `apply_sqlite_migrations` inserts its rows one transaction at a time and never looks at
   the sidecar. In the trace a runner commits migration 1, another process plans the
   bridge and applies the plan, and the runner goes on with migration 2, which the sidecar
   does not describe. A store of a longer prefix that is opened after the bridge does the
   same. From then on `_validate_metadata_congruence` refuses the file
   (`domain_migrations.py:1505`), and bootstrap does not repair it. The document asks
   operators to stop automatic schema changes first (753); no code enforces it.

## Proofs

Every safety invariant, action property and refinement that a passing run checks is
also a theorem, for every value of the constants that the modules' assumptions
allow: any number of processes, messages, tasks, events, handles or calls, and
any bound on clocks and tables. `PROJECT.json` lists the theorems with the property
each one states.

Where a module has a specification `Spec`, its theorems are about that one. `stores`
composes five parts that share at most the log; its theorems are about those parts, each
with the initial predicate and the next-state relation that `MCStores` composes:
`LogSpec` (the event store), `LedgersSpec` (the log with its ledgers), `ProjectionSpec` (the
log with its projections), `MigrationSpec` and `StorageSpec` (the artifact store with its
backups).

### Assumptions

All of them are the named `ASSUME`s of the modules, which TLC evaluates in the runs.
Besides types and positive limits they say:

- `None` and `Null` are no rows, no numbers and no statuses, as NULL and `None` are not;
- an event id names one event; a batch belongs to its session's stream and repeats no
  id and no key; a canonical request allows one attempt, as `store.py` demands;
- a lease is longer than the publish deadline, as the publisher's constructor demands;
- a plan's order names each task once; nothing is assumed of its dependencies, which
  need not even be acyclic;
- a registry of migrations depends backwards only (`RegistrySound`); a copy is either
  a create or a restore, since they are different functions;
- the events a ledger may append are among the log's events, and the events of other
  callers are no versions. They may have the key of a version.

### The inductive invariants

The properties are not inductive as they stand. What each proof adds, and why:

`InvocationAttempts` (`IInv`). `RecoveryAccepts` does not say that a job was started at
most once, that its epoch equals its starts, or that an absent job has no history;
`ReportedOutcomeDurable` and `PromisedLeaseRespected` need to know that the rows a pending
call will look for are rows its operation writes. `IInv` adds `RowOK` for each job's
rows, `ReportOK` for each report against those rows, `CallOK` for each call under
reconciliation. A transaction may touch several jobs (a claim sweeps first), so the
proof separates the jobs: each job's rows change along one of six edges (`JobStep`),
`NextSteps` shows that every action moves every job along one of them, and lemmas about
single edges never mention an action. `NextNews` shows that every new report is borne
out by the rows after the step. The action properties and the refinement follow from
the edges.

`OutboxPublisher` (`OutboxInv`). A row in flight carries the deadline and the count of
the attempt whose token it has (`RowOK`); an attempt that is still inside its lease
holds its message (`Holding`), from which exclusivity follows; an attempt is acknowledged
only after its connector accepted (`TaskOK`); a token in `outbox_ambiguities` is of an
attempt that is over (`MarkedIsOver`), so that no second record can follow; the callbacks
that run or may still be started are within the bound. A claim draws one token for
each message of a batch; `RankNumbers` shows that they are numbered without a gap. A
message that is not in flight has no token (`Unheld`), and an open ambiguity is of the
attempt its message is held under. The refinement maps each action to one step of
`DeliveryContract`: the tokens of a claim are fresh because they are drawn in order, and
a quarantined message keeps its token in every action but the operator's ruling.

`PublisherLifecycle` (`LifeInv`). The run task holds `running` for as long as it can act
(`ActingIsRunning`), its own cycle is counted exactly while it waits for it
(`LoopCycleCounted`), its `finally` block closes (`FinallyCloses`), and a `stop` that no
longer waits for the run task has closed the door behind it (`StopClosesDoor`).

`EventStore` (`LogInv`). Ids are unique in the log and keys in a stream, a row's sequence
counts the rows of its stream up to it (`Sequenced`), and the last row has their number
(`Headed`): that makes `MAX(sequence)`, which an append reads, the number of rows, and
an `EXISTS` on a key the row that was answered. `SideInv` keeps receipts and messages
within the log.

`Projections` (`ProjectionInv`). A worker's batch lies in the log (`BatchOK`); an epoch is
held by at most one worker and is at most the offset's (`EpochsOK`), so that whoever passes the
check of a lease is the newest owner; what was skipped is below the offset (`ModelOK`).

`ArtifactLedger` (`LedgersInv`). The memory of a ledger is the replay of a prefix of the log;
an event that is about to be appended has the next version of what that memory shows.
An append compares the position with the whole log, so that the version is next in
the log too. The limit on versions needs that the versions in memory are as many as
the rows that hold one (`RowsCounted`).

`Migrations` (`MigrationInv`). Validation takes no lock and is sound because rows only
grow, and always as a prefix: what a call has read is a prefix of the ledger for good, and
every migration before the one it applies next is there (`CallInv`). The sidecar
describes a prefix of the ledger with its edges, and both tables or none exist
(`SidecarInv`).

`ArtifactStore` and `Backup` (`VersionsInv`, `BackupInv`). Versions of a name are contiguous
and the highest is the number of rows (`HeadInv`); a key or an id names one row of its scope
(`KeysInv`). Every copy holds a prefix of the versions (`HoldsInv`). A link takes a free name
only. A name is freed by the operator, by its owner before the owner returns, or by a
call that had found its own file there: the file it takes is its own, or of a call in
`exposed`, and nobody is exposed while no file was removed (`UnlinkInv`). A manifest is
linked after its copy and unlinked before it, so that, unless the operator removed
files, a manifest stands beside the copy of the same call (`PairInv`).

`ProtectedOperations` with `Capabilities` (`OperationsInv`). A key that died is revoked or
barred from the ring (`RingInv`); the mark is one of the snapshots that judged
(`MarkInv`); a call that is not judged yet began under a mark that still bounds the
next judgement from below, and one that is judged was judged by no less (`CallsInv`);
a used operation is not live (`UsesInv`), and the contexts that are issued and those
being issued are together within the limit (`LimitsInv`). For chains of any length the
fold over the claims is undone by a least counterexample: a chain that was allowed
has no first claim that does not cover the request.

`InvocationAdmission` (`AdmissionInv`). Jobs of the store never compete (`JobsInv`); a lease
is of an attempt that exists, one lease at most of each (`LeasesInv`); a start in the
log is of an admitted request, behind its events, with the one attempt it minted, and
the only start of that key (`StartsInv`); what was observed or prepared is in the log
and among the leases. A row's sequence is at most the length of the log, so that the
version of a stream is a maximum of a finite set.

`Orchestrator` (`KernelInv`). The durable graph is `Replay(log)`: after every batch the
log is empty or replays to a state in which nothing is half done (`ReplayInv`), and each
task's request, decision and publications agree with its status (`TaskSound`). Memory
follows the durable graph (`Follows`). Every revision is in the log under its key
(`RevisionsLogged`), so that an append from memory that is behind fails, whatever it
says. A coroutine at work finds its task RUNNING at the same revision in memory and log,
and has what its step needs in the log (`CoroutineSound`); the announcement of a call has
a key of its own, which is why the agent is called once. `Replay` and `RefreshEvents` are
recursive functions; what they preserve is shown by a least counterexample over the
naturals, which needs no induction theorem with an operator for a parameter.

### Model-checked only

- the liveness properties `RunningReleased`, `AttemptEnds`, `AcceptedCycleEnds`,
  `StopClosesUncancelled` and `RunReturns`: fairness and ENABLED are beyond the prover;
- the three violations, `UncertainNotRetried`, `StopCloses` and `LedgerDescribed`: counterexamples
  of an instance;
- that the bounds of the runs are large enough for every action to fire.

## Plan

The components that keep state are modelled, and what the runs check of their safety is
proved. What may follow, in this order:

1. The artifact store and the event store as implementations of contracts of their own
   (a versioned register for each name, an append-only log for each stream), so that
   `Backup`, `Projections` and `ArtifactLedger` rest on the contract alone.
2. The recovery of a session against a kernel contract for one task: announced, called at
   most once, published or failed; `Orchestrator` as its refinement.
3. The context-manager leases of the operation composer, when a caller shares one `with`
   block between threads.
4. Result values, when the worker gate dispatches to `invocation_results.py`.

Liveness stays with TLC.

Not modelled, and why:

- agent adapters, chat ingress, bridges, service configuration, logging and redaction,
  release scripts: network I/O or stateless text processing;
- `invocation_results.py`: canonical values and their codec; nothing writes them yet;
- the manifest v2 codec, its snapshots and topology: inactive, no operation uses them;
- process binding: a guard without state changes;
- the composer's context-manager leases: they guard `close` against misuse of one
  `with` block by several threads; `close` itself is modelled;
- native domain migrations and down scripts: described, not applied by any code.
