# Verification of fastapi-effects

TLA+ models of the delivery runtime of `fastapi-effects`: the durable delivery
ledger in PostgreSQL, the deadline arithmetic, the relay processes that work on
it, the hand-over of attempts to a Taskiq broker, the transactions that publish
events and execute idempotent commands, webhooks from subscription to request,
the authority that code runs with, the schema with its migrations and row security,
and the routes of rolling releases. TLC checks the models on small instances; TLAPS proves the central
invariants and the refinements for every instance. Source paths are relative to
`src/fastapi_effects/` in the repository; docs paths to its root.

## The system

An application emits an event inside its own database transaction. The unit of
work matches routes and inserts one *delivery* per route. Relay processes poll the
ledger, lease due deliveries, run them through a sink (a local handler, a webhook,
or a hand-over to a Taskiq broker) and record the outcome of each *attempt*. A
lease has a token and an expiry; whoever finalizes must still hold it. A crashed
worker's delivery comes back through lease expiry. Around this core the package
keeps idempotent inbound commands, webhook subscriptions with signing secrets and
retention, and signed delegation to other services.

| component | state it keeps | operations | talks to | what is hard | what makes it correct |
|---|---|---|---|---|---|
| retry policy (`core/retry.py`) | none (immutable snapshot) | validate, jitter, permit a retry, three deadlines | ledger, relay | boundaries (`<`, `<=`) that must agree | no work at or after a deadline |
| ledger (`postgres/leasing.py`) | `deliveries`, `attempts` | publish, claim, succeed, fail, reconcile, replay | all sessions, through row locks at READ COMMITTED | stale snapshots, lock waits, late holders, two clocks | one open attempt, fenced finalization, append-only history, terminal is final, every delivery ends |
| relay (`postgres/relay.py`) | cycle, stop event, one task per claim | run, run_once, execute_claim, drain | ledger, sink | crashes, lost answers, cancellation, skew, timers | success only with an effect, execution inside the lease, stop returns |
| publication (`sqlalchemy/uow.py`, `repository.py`) | `events`, dedupe identities | emit, match routes, publish | application's transaction | two producers with one identity | one event per identity, fan-out atomic with the event |
| Taskiq executor (`executors/taskiq/`) | `handoffs` | prepare, enqueue, claim execution, finalize, recover | broker, ledger | duplicated messages, ambiguous enqueue, two expiries | one execution per handoff, handoff and delivery agree |
| commands (`idempotency/`) | `commands` | acquire, complete, supersede, prune | application's transaction | concurrent duplicates, expiry while waiting | one committed execution per key and generation |
| routing (`core/routing.py`, `api.py`) | registry of a process, frozen at startup | declare, validate, freeze, match, resolve | unit of work, executor | processes of several releases over one ledger | what is published can be executed |
| webhook control (`webhooks/subscriptions.py`, `operations.py`, `api.py`) | heads, versions, audit | create, update, pause, reactivate, disable, health, retain | ledger, publication | relays and managers on one row | a revision names one row; one pause per activation; snapshots keep their meaning |
| signing secrets (`webhooks/secrets.py`) | secret sets and versions | create, rotate, revoke, select for signing | webhook sink | overlap windows against rotation and retention | the newest key signs; a rotated key until its overlap ends; nothing revoked |
| webhook sink (`webhooks/sink.py`, `transport.py`, `http11.py`) | the request of an attempt | look up keys, resolve, connect, read, redirect, classify | receiver, health | several addresses and redirects under one deadline | success only on a 2xx; one that was read is lost only to the deadline |
| delegation (`delegation/`) | key ring | issue, verify, rotate, revoke | other services | clocks, rounding, chains | authority and lifetime only shrink; revoked stays revoked |
| handler executor (`handlers/`) | request context | resolve authority, run, clean up | relay, ledger | snapshots used late | snapshotted authority ends |
| schema and row security (`postgres/rls.py`, `roles.py`, `*schema.py`) | tables, policies, grants, tenant setting | install, drop, read, write, prune | every session | pooled connections, forced policies | tenants stay apart; a revision tells what is granted |
| migrations (`postgres/migrations/`) | Alembic version | upgrade, downgrade | every session | guards beside writers, refusal half way | version tells the schema; a downgrade drops nothing it found |
| doctor (`postgres/diagnostics.py`) | its own probe row | inspect, probe, reuse | pool | runs on live connections | leaves nothing behind |
| the rest | none | telemetry, conformance kit, command line, readiness record, release scripts | | | |

`PROJECT.json` lists every component with its status, and the hazards at the line
where each bites.

## Modules

| module | models | depends on |
|---|---|---|
| `RetryPolicy` | `core/retry.py`: `ValidPolicy` is `__post_init__`, the deadline functions keep their names, `retry_delay` is the set of delays full jitter may return | |
| `LeaseRepository` | `postgres/leasing.py` and the fan-out insert of `sqlalchemy/repository.py`; rows are records of the columns that decide something | `RetryPolicy` |
| `PollingRelay` | `postgres/relay.py`; relays are composed with the ledger: every ledger effect of a relay is an action of `LeaseRepository` conjoined with the relay's own step | `LeaseRepository` |
| `TaskiqHandoff` | `executors/taskiq/`: handoff rows, sink, worker and recovery, composed with the ledger the same way; the broker is the environment | `LeaseRepository` |
| `EventPublication` | `sqlalchemy/uow.py`, `repository.py` and the retention of events: units of work, route matching, dedupe | |
| `CommandLedger` | `idempotency/store.py`, `command.py` and `prune_commands`; commands emit through `EventPublication` in their own transaction | `EventPublication` |
| `IdempotentCommands` | what command idempotency promises, without rows, locks or pruning; `CommandLedger` is shown to implement it | |
| `WebhookSecrets`, `WebhookSubscriptions`, `WebhookTransport` | `webhooks/secrets.py`; `subscriptions.py` with `operations.py` and `api.py`; one request (`sink.py`, `transport.py`, `http11.py`, `classification.py`) | |
| `WebhookDelivery` | the three together with `EventPublication`: managers, publications, attempts, health and retention | the three, `EventPublication` |
| `Authority` | principals, delegation credentials, key rings and the principal a handler gets (`core/principal.py`, `delegation/`, `handlers/executor.py`) | |
| `SchemaCatalogue` | what every migration and installer makes of tables, functions, revisions, grants and policies, as data | |
| `Deployment` | migrations, installers, tenant transactions on pooled connections, the startup gate and the doctor, over that catalogue | `SchemaCatalogue` |
| `RouteRollout` | `core/routing.py` and the startup of `api.py` in processes of successive releases | |
| `LeaseRepositoryProofs`, `PollingRelayProofs`, `TaskiqHandoffProofs`, `CommandLedgerProofs`, `WebhookProofs`, `AuthorityProofs`, `RouteRolloutProofs`, `DeploymentProofs` | theorems | the module, `TLAPS`; `PollingRelayProofs` and `TaskiqHandoffProofs` also `LeaseRepositoryProofs` |
| `MC...` | policies, tenants, routes, programs and symmetry for TLC | |

Operators whose comment begins with *Mutant* are deliberately wrong variants of the
definition after them. No specification uses them; `PROJECT.json` pairs each with a
property that must fail when it replaces the definition.

### The ledger

`delivery` and `attempt` are the two tables, `now` is PostgreSQL's
`clock_timestamp()`, and `tx[s]` is the claim transaction that session `s` has open.

* **Claim is split where others can run.** `claim` is one READ COMMITTED
  transaction of several statements. `ClaimSelect` takes the snapshot of the ranked
  CTE; `ClaimLockRow` locks one candidate of the sorted result at a time, with SKIP
  LOCKED, and locks the *current* version of a row that changed after the snapshot
  (PostgreSQL re-evaluates only the conditions on the locked table, the join keys;
  the state test is inside the CTE); `ClaimStamp` is the second clock sample;
  `ClaimCommit` runs the loop body for every locked row and commits.
  `ClaimRejected` is the `delivery_lease_coherent` CHECK constraint, `ClaimAbort` any
  rollback. The first clock sample is merged with the snapshot it precedes.
* **Finalization, reconciliation and replay are single steps.** They lock (or
  select with the predicate on the locked table) before they decide. A transaction
  of theirs that is still open matters only to SKIP LOCKED, and so `ClaimLockRow` may
  skip a row that has left the waiting states and `ReconcileRows` is any subset of
  the expired rows.
* **Any holder of a token may finalize at any time**, as late and as often as it
  likes; `LeaseLost` changes nothing, so it is a stutter. Workers need no state here.
* **Tokens.** A token is a fresh UUID; attempt numbers of a delivery are never
  reused, so the number stands for the token and 0 for NULL.
* **Two clocks.** `created_at` and a replay's timestamps come from an application
  clock, anywhere within `Skew` of the database's; all else is database time, which
  is taken to be monotone. Times are integral ticks, so a boundary is exactly one
  tick wide.
* A publish whose dedupe identity exists returns the stored event and writes
  nothing: a stutter.

### The relays

`phase[s]` says where relay `s` is in `run`/`run_once`, `task[s][d]` is its
`execute_claim` task for delivery `d`, `stop[s]` its stop event. `effect[d]` is a history
of the attempts whose effect reached the destination, and `handed[d]` of those whose
sink returned `DEFERRED`.

* The sink is the environment: it may act at any moment while it runs, and may
  report success (after acting), a retryable or permanent error (before or after
  acting), defer, fail with a transient database error, or hang.
* The timeout of a task is computed from the claimed snapshot and the relay's own
  clock (`Remaining`); it fires at most `Lag` ticks late.
* `ClaimAnswerLost`, `ControlFailed`, `FinalizeLost` are the control-plane and
  finalization timeouts and the transient errors, before or after the commit.
* `Fatal` is an error nothing classifies; the task group's siblings get cancelled
  (`TaskCancelled`), but a sink that suppresses cancellation may still act.
* `GraceExpired` is `_drain_cycle` giving up on the cycle; `Crash` may happen at any
  time; `Start` is the supervisor's restart, after which nothing of the old process
  survives.
* `ExternalFinalize` is the executor a sink deferred to, which finalizes under the
  same token.

### The hand-over to Taskiq

`handoff[d][k]` is the row of `taskiq_handoffs` for attempt `k` of delivery `d`,
`sink[d][k]` the `TaskiqDeliverySink.execute` call of the relay that claimed it,
`message[d]` the attempts whose message the broker accepted, `run[d][k][n]` the
worker execution admitted with token `n`, and `effect[d]` a history of the attempts
whose handler completed.

* **The broker promises nothing.** An accepted message may arrive any number of
  times, at any time, or never: `Admit`, `AdmitStale` and `AdmitLate` need only that the
  message was once accepted.
* **The sink is split at the broker call.** `Prepare` commits the row, `Kick` is the
  broker accepting the message, `MarkEnqueued` the second transaction. Between them
  the sink may vanish (`SinkGone`), report a failed enqueue although the message is
  out (`EnqueueFailed`), or be failed by the relay around it (`RelayFail`). With
  `ConnectorErrors` a raw driver error, which neither sink nor relay classifies as
  transient, makes the relay fail an attempt whose worker may be running.
* **Operations of the store are single steps.** Each locks the handoff row, then the
  delivery, before it decides. `FailBoth` is one transaction over both tables: it
  conjoins the ledger's `Fail` with the handoff's new state.
* **Admission is not ownership for ever.** `Admissible` turns a duplicate away only
  until the execution deadline; a later one is admitted under a new token, and the
  first handler may still run. `LockedExecution` is the fence at finalization.
* **Recovery** handles one expired row per step; rows of a batch are independent and
  each reads the clock for itself.
* `Lag` is how long a sink or handler may go on after its timer: both may suppress
  a cancellation for a while.

### Publication and commands

`event[e]` is an event row with its deliveries, in the transaction `by` that inserted
it or committed; `uow[s]` is the unit of work of session `s`, with what `emit()` has
returned to it.

* **Waiting on a unique index.** An insert whose dedupe key another open transaction
  has inserted waits: `EmitInsert` and `EmitConflict` are enabled only once that
  transaction has ended. The SELECT that resolves a conflict is a later statement
  with a later snapshot (`EmitResolve`), and retention may have run in between.
* **Routes.** `matching_routes` keeps of each route key the newest version, and of equal
  versions the first, as the loop over `latest` does. `Provided` is what a route
  provider may answer, so it stands for subscriptions that change between emits.
* **Retention** is reduced to what it does to events: webhook deliveries vanish, then
  events without deliveries. When a delivery has ended and aged is left open, which
  allows more than the code does.

`command` is the set of committed command rows; the row that an open transaction has
inserted is in `context[s].row`, and the current row it has locked in `context[s].current`.

* **Acquisition** is split at the advisory lock. Everything after it up to the insert
  happens under that lock and the row's own lock, so only pruning can interfere; it is
  one step, which waits for a pruner that has locked the row it needs. `LockOf` lets
  two identities share the 64 bit lock key.
* **Pruning** is split between locking (`PruneLock`, oldest first, skipping locked rows)
  and the end of its transaction (`PruneCommit`, `PruneAbort`).
* **Any command transaction may fail at any point** (`ExitFailed`), which covers
  exceptions, a missing `complete()`, cancellation, lost connections and crashes.
* `executed` is a history of the executions that committed, and `reply` the answer given
  in a step; they are the variables of `IdempotentCommands`, so the refinement mapping
  is the identity on names and hides rows, locks, generations and pruning.
* A form is a subject together with a request fingerprint, and a response is opaque;
  how they are computed from bytes is not modelled.

### Webhooks

`head[s]` and `version[s]` are the mutable row and the immutable version rows of a
subscription, `seen[m][s]` what a manager was last shown (the `expected_revision` it will
send), `secret[k]` the key versions of a set, `sink[a]` and `request[a]` one
`WebhookDeliverySink.execute`.

* **Writers lock the head row**, so each operation is one step; a wrong revision, missing
  scope or invalid setting changes nothing and is a stutter.
* **An attempt is split where it awaits**: begin, key lookup, resolution, each
  connection, each response, health. Keys are read once per attempt. Which attempt
  runs when is the ledger's affair; here any committed delivery may be attempted at
  any time.
* **A response is not yet an outcome.** Every exchange, whether answered or broken, goes
  through `Closing`: the `finally` of `send` closes the connection and awaits its end,
  under the same aggregate deadline (`docs/operations/webhooks.md:27-29`). `status` is what
  `send` will return then; `Respond2xx`, `RespondRetry`, `Redirect`, `RespondOther` and
  `NextAddress` act on it once the connection is `Closed`, and `AttemptTimesOut` may come first.
* `copies`, `accepted` and `contacted` are histories of a request: how often the body may
  have reached a receiver, whether a 2xx was read, which addresses were used.
* Retention deletes deliveries and events (`Retention` of `EventPublication`) and key
  versions (`PruneSecrets`), by age alone as the SQL does.
* A key is its version number; material, encryption and signatures are opaque.
  `issued`, `revoked` and `overlap` are histories.

### Authority

Every component has its own clock and key ring and serves one caller at a time: a
host's request, a delegated one, or a handler. A principal carries as history its
`source`, the assertion or service policy it descends from, cut down to what each
delegation passed on. Tokens are exactly what components minted. `epoch` rounds claims
down to whole seconds; `PerSecond` readings make the rounding visible.

### Schema and deployment

The catalogue is data: `SchemaAt[v]` is what revisions 1 to v build. `Deployment` runs a
migration as the one transaction that `migrations/env.py` makes of it. An upgrade is one
step; a downgrade is split at every table it looks into and every table it drops,
because the look locks nobody out and the drop waits. `Refuse` is any failure of it.
Transactions of the application and the relay hold locks on tables, see rows through
the policies of their role and the transaction-local tenant setting, and end by
commit or rollback. The doctor runs step by step on the same connections. One migrator
runs at a time; creation of roles and ownership are taken as done.

### Rolling releases

A release is a program: declarations in import order, with or without a resolver and
service policies. A process performs them one by one, stops on a configuration
error, and serves once frozen. Deliveries remember the release that published them.
`Retains` is the operators' duty of ADR 0004:20: a later release keeps the handlers of
earlier ones. What a handler does and when leases expire is left to the other models.

A serving process claims a batch (`Claim`) and works it off (`Execute`) before the next, as
`run_once` awaits its task group. A delivery it cannot execute raises a configuration
error out of `execute_claim`: the task group cancels the rest of the batch and the
process ends (`Unexecutable`). Every delivery it held then loses its attempt through the
lease, as after a crash or a replacement (`Abandoned`). `lost` is the history of those
attempts: the release of the relay, and the release of the delivery that stopped it.

## Runs

All bounds are CONSTANTS: `MaxTime` stops the clock, `MaxAttemptRows` caps attempts,
`PublishHorizon` ends publication and replay, `Skew` and `Lag` bound the clocks, `MaxChanges`
the revisions of subscriptions and key sets, `MaxTokens`, `MaxEvents`, `MaxServing` what is alive
at once, `MaxRuns` and `MaxTurns` migrations and transactions. Deadlock is not checked: when
a bound is reached and all work is done, the model (not the system) has nothing left
to do. Each run's properties are in `PROJECT.json`.

| run | instance | shows |
|---|---|---|
| `ledger_serial` | 2 deliveries, 2 attempts, 1 claim session, skew 1, 5 ticks | every promise of the ledger when claims are serialized; two deliveries are needed for replay, batching and locks; five ticks cover lease expiry, the retry and the deadline on both sides of each boundary |
| `ledger_terminal` (violation) | 1 delivery, 2 sessions | a terminal delivery is leased again |
| `relay_fleet` | 2 relays, overlapping claims, crashes, lost answers | no success without its effect, tasks follow claims, refinement of the ledger |
| `relay_live` | 1 relay that crashes, stops and restarts, skew 1, a lease margin of 2, a delivery with a retry | execution inside the lease; `EventuallyTerminal` with hanging sinks; `StopReturns` |
| `handoff` | 1 delivery, 2 attempts, 2 admissions each, policies with a handler timeout above and at the execution timeout | one story, a handler inside its deadline owns handoff and lease, executes once where the timeout covers the attempt, settled is final, recovery settles every handoff; refinement of the ledger |
| `commands` | 2 sessions, 1 identity, 2 forms, 2 contents, 3 provider answers, 2 pruners with batches of one, 2 ticks with a ttl of one | duplicates, conflicts, expiry, a second generation, overlapping prunes, dedupe races and retention; refinement of `IdempotentCommands`; effect intent is atomic with its command |
| `command_reuse` (violation) | 2 pruners, one rolls back | a retained generation blocks the next acquisition |
| `webhooks` | 2 managers, 1 subscription, 2 secret sets, 4 changes, 1 attempt, 2 addresses of which one is public, 1 redirect, 2 ticks | four changes are enough for a subscription with its set that is auto-paused and reactivated, or moved to another set, or whose key is rotated and revoked; two ticks separate rotation, the end of an overlap and a cutoff |
| `webhook_overlap` (violation) | the same | retention deletes a key whose overlap is open |
| `authority` | 2 components, the second with a fast clock and a managed ring of 2 keys, 2 scopes, all three authority modes, depth 2, 1 token and 1 event alive at once | a chain host, delegate, emit, handle, delegate again, with rotation and revocation in between |
| `deployment` | revisions 0, 4 and 5, 3 runs, 2 tenants, a core and a webhook table, 1 application and 1 relay connection, 2 turns | downgrades through one or all revisions and back beside a transaction of each tenant, or a doctor run |
| `rollout` | 2 processes, 1 crash, batches of 2, 2 attempts; 1 event in every retaining pair of those of 14 programs that start, in each of the others, alone and after one that starts, and in a release whose event has two deliveries; 2 events in two histories whose batches mix releases | programs cover every mode, redeclared and versioned handlers, late declarations and missing configuration; with two events an old relay holds a delivery of its own release beside one that stops it, and the second mixed history has a release in the middle that never starts |

The hostile settings of the hand-over (overlapping claims, skew, unclassified connector
errors) and two distinct events with one dedupe key are covered for every instance by the theorems
`HandoffTellsOneStory` and `DedupeKeepsOneDeliverySet`, and not by a run.

**What the violations say.** With two relays the claim statement is not
exclusive. Session B takes its snapshot; session A claims the row, commits, and
perhaps finishes it; B reaches the row, finds it unlocked, and locks its new
version, whose state nobody tests again. The delivery gets a second open attempt,
or comes back from a terminal state (`ledger_terminal`). The
fencing still works: only the newest token can finalize, so `StoredRowsSound`,
`WithinDeadlines` and `AttemptsAppendOnly` hold regardless (theorems
`LedgerSafety` and `HistoryAppendOnly` below are about any number of sessions). A row that is stale and
past its deadline makes the database reject the whole batch, which the relay
treats as fatal (`ClaimRejected`, `ClaimFatal`). A state test on the locked table itself
would serialize the claims per row, which is the case `ledger_serial` and the
`Serialized` theorems cover.

`command_reuse`: acquisition numbers a command after its *current* row, while the
unique constraint spans all retained rows. Pruner A locks the superseded generation
1, pruner B skips it and deletes the expired current generation 2, A rolls back. The
next request finds no current row, inserts generation 1 and fails
(`AcquireFails`), until a later prune removes the old row. Nothing is executed twice:
`KeepsPromise` holds with both pruners, because a failed request has no effect.

`webhook_overlap`: the last stage of `prune_webhook_history` selects retiring versions by
`created_at`. A key that is older than the cutoff when it is rotated is deleted although
its overlap has just begun; receivers that have not installed the new key then
reject every request. `NewestKeySigns` holds with the same retention: the active key is
never pruned.

**Observations without a run.** They follow from the models and no document
contradicts them plainly enough, or the run would repeat another:

* The execution deadline of a handoff is the smaller of the attempt's remaining time and
  `execution_timeout`, which nothing relates to the policy's handler timeout. If it is
  shorter, a duplicate that arrives after it and before recovery is admitted a second
  time, which BC-14 of the boundary contract excludes. Only one of the executions can
  finalize. `ExecutesOnce` therefore asks that the timeout covers the attempt.
* The emptiness test of a downgrade locks nobody out: a row committed between the test
  and the drop is lost. `DowngradeKeepsWhatItFound` is about the rows there were when it began.
* During a rollout, relays of the old release stop on deliveries of the new one, and each
  stop costs every delivery of the batch an attempt (relay.py:134-137, 170-171). So a new
  delivery may die of relays that never knew it, and so may a delivery of the relay's
  own release that was claimed beside one. `EveryDeliveryEnds` says that configuration kills no
  other way: some delivery of each lost batch was of a release later than the relay's.
  A sibling of one event may suffer too, which BC-05
  (`docs/concepts/boundary-contract.md`, "MUST NOT mutate a sibling") does not expect.
* A receiver that answers 2xx and then is slow to end the connection may get the event
  again: if the aggregate deadline fires in `wait_closed`, the attempt is recorded as
  `webhook.attempt_timeout` and retried. `OutcomeIsReceivers` says that nothing else loses a 2xx.
* Snapshot mode does not look at `expires_at`; `SnapshotAuthorityEnds` bounds by how much
  authority outlives its expiry.

**Execution and the lease.** `ExecutionHoldsLease` needs handler timeout + skew + lag
below the lease duration. `RetryPolicy` asks only for handler timeout < lease
duration, so the margin is a deployment's duty; `relay_live` checks a policy that
has it.

**Fairness.** `relay_live` assumes a supervisor that restarts the process, a poll timer and
a grace timer that fire, and, while no stop is requested, timers of tasks that fire and
database operations that complete when they are started again and again
(`PollingRelay.run` loops for ever); the sink and every successful finalization get no
fairness. Once a stop is requested nothing but poll and grace timer is fair: database,
sink and cancellation may all hang, and `run()` must still return.
`handoff` assumes that recovery is called on an interval, as
`docs/integrations/taskiq.md` asks, and eventually gets the row lock it needs (strong
fairness per row), that claim transactions end, that time advances and that the
timers of sinks and handlers fire; the broker, admissions, handlers and
finalizations get none. `rollout` assumes that operators finish the rollout, that
supervisors restart what is down or old, that startup code goes on and that a serving
relay polls and works off what it has claimed. The other runs check safety only.

## Proofs

`LeaseRepositoryProofs` proves, for all constants that satisfy the named assumptions
(valid policies, `None` not a delivery, natural bounds, `max_attempts` within
`MaxAttemptRows`, some policy exists):

* `CoreInvariant`, hence `TypeCorrect` and `LedgerSafety`, for any number of racing
  sessions. The invariant `CoreInv` says of each row, its attempts and the clock
  (`RowOK`): a lease is coherent and belongs to the open newest attempt, attempts are
  numbered without gaps, and every stored time respects creation and deadline. None
  of the checked properties is inductive alone: numbering needs coherence, deadlines
  need that a locked row was created before the clock reading that will be written
  (`TxOK`). Each operation is a lemma about one row; the step lemmas only say which rows
  an action rewrites.
* `DeadlinesRespected`, the part of it that the run checks as `WithinDeadlines`.
* `HistoryAppendOnly`, from `StepRows`: every step leaves a row alone, creates it, claims
  it, or closes its leased attempt.
* `SerializedSafety`, `SerializedTerminal`, `SerializedLease` under `Serialized` (at most one
  session claims). The strengthening `SerialInv` adds that transactions hold only
  waiting rows; with two sessions that is exactly what fails.

`PollingRelayProofs` proves `FleetImplementsLedger` (every relay step is a ledger step or
leaves the ledger unchanged; it needs `CoreInv`, because a finalization with a token
that is no attempt number must be shown impossible), `FleetSafety` (types and
`SuccessHasEffect`) and `FleetTasks` (`TasksFollowClaims`), for every fleet, skew and lag and for
overlapping claims. The invariants add that a task which acted or is about to record a
success has its attempt among the effects, that locks are disjoint, and that the number
of a task was counted on its row, so that the next claim gives out another.

`FleetHoldsLease` (`ExecutionHoldsLease`) assumes that claims do not overlap and `Margin`: for
every policy, handler timeout + skew + lag < lease duration. Its invariant `HoldInv` says of
every task that has claimed: until the end of the lease given out with the attempt the row
is leased under that attempt's number, the task's cutoff plus `Lag` lies before that end, and
while a sink runs the clock has not passed the cutoff plus `Lag`. Stated for the row alone it is
not inductive: a second claim could take the row from under the task, so `ApartInv` adds that
an open claim transaction holds only waiting rows and that no two hold the same one.

`TaskiqHandoffProofs` proves, for racing claims, every skew, lag and timeout, any number
of admissions and with connector errors:

* `HandoverImplementsLedger`: every step of sink, worker and recovery is a step of the
  ledger or leaves it unchanged;
* `HandoffTypeCorrect`, `HandoffRowsCoherent`, `HandoffAgreement`, `SuccessNeedsCompletion`, from the
  invariant `HandoffInv`. Its part `PairOK` relates one handoff row to the outcome of its
  attempt, its sink, its executions and the completed handlers. The agreement alone
  is not inductive: an idle sink must have no row (else `Prepare` could overwrite a
  verdict), an execution that awaits its finalization must have completed, and an
  admitted row must carry the token of its latest admission. `PairReplaced` reduces a
  step to the one attempt it touches; `OutcomesKept`, from the ledger's `StepRows`, covers
  the rest;
* `SettledFinal`, from the same invariant;
* `SettledWithoutLease`: `LeaseInv` says that the row of a settled handoff holds no live
  lease of that attempt. It is kept because a claim always leases under the number
  of a new attempt, so an attempt never regains a lease (`NoLeaseKept`);
* `HandoffTellsOneStory`, the conjunction of these that the run checks;
* `HandoffExecutesOnce` (`ExecutesOnce`), from `OnceInv`: an admitted handoff of a policy whose handler
  timeout `ExecutionTimeout` covers has an execution deadline no earlier than its attempt's. Until
  then a duplicate is not `Admissible`, and after it the attempt has no time left for another.

`HandlerHoldsLease` (`WorkerHoldsLease`) needs more: serialized claims, `Skew = 0` and no unclassified
connector errors, the settings of the run. With any of them dropped it is false: a second
claimer steals the row, a skewed worker believes in a deadline that has passed, or the relay
fails an attempt whose worker runs. `OwnerInv` says that a handler inside its deadline is the
latest admission, that its sink can no longer fail the attempt, and that the lease outlives
the deadline.

`CommandLedgerProofs` assumes `CutoffLead = 0` (no prune is given a cutoff ahead of the
database clock: with one, a live row could go and its command run again) and proves,
for any number of sessions, identities, colliding lock keys and pruners:

* `RowsRecordExecutions` and `LedgerKeepsPromise`, from `CommandInv`. Its parts: `LocksOK` (one
  session per identity, a row is locked once, what a pruner holds has expired),
  `WindowsOK` (windows of an identity follow one another, and a live one still has its
  row), `RowsAreExecutions`, and `ContextOK` (the row an open command will commit is of a free
  generation and begins after every window). The refinement needs all four: that an
  execution begins after the last window rests on the row the session found under
  its lock, that a replay is of the live execution on the row being the latest
  record. That generations grow for ever is not claimed and is false: once its rows
  are pruned, an identity starts again at generation one.
* `EmittedEventsAreBacked` and `DedupeKeepsOneDeliverySet`, from `PubInv`, which adds that a
  pending row belongs to an open transaction: only its owner's commit or rollback
  can then change what another session was given.
* `IntentIsAtomic`, from `IntentInv`: the pending intent of a command names the row its
  session holds, so the commit that makes it durable records that execution.
* `DurableStateTogether` (rows and intent), and `LedgerTyped`, from the three together
  (`FullInv`).

`WebhookProofs` is about any number of subscriptions, managers, sets and attempts:

* `NewestVersionSigns` and `UnsignableForGood`, from `KeyInv`, which adds types, that a set which does
  not exist has no rows and that a retiring row knows its instant. `KeySteps` reduces a
  step to the operation on keys it contains; `KeysOK` states the invariant for one set, so
  that each operation is a lemma about the rows it replaces.
* `AcceptedRevisionNamesHead` and `PauseAuditedOnce`, from `HeadInv`: what a manager was shown is
  the head at that revision or one with a smaller revision, and a subscription that
  does not exist has no audit. Equality alone is not inductive: without the order, a
  later writer could bring an old revision back. The assumption `NoneAssumption` says that
  the value for "no row" is not a row.

* `OutcomesAreReceivers`, from `RequestInv`: what a request has left to try is approved, the
  copies sent so far and those still possible at this address and redirect stay within the
  budget, and a request that has read a 2xx is closing its connection or has ended
  (`Answered`): a success has read one, and one that was read ends as success or timeout. The bound on copies alone is
  not inductive, since a request half way through its addresses has only the rest of them
  to go. The set of addresses is assumed finite.
* `SnapshotsSign`, from `SnapshotInv`, four parts: a revoked version was issued and its row signs no
  more (`RevokedInv`), the head names the last of the immutable version rows (`VersionInv`), every
  delivery of a committed or pending event is true of the version row it names (`DeliveryInv`,
  through `matching_routes` and `Provided`, for any finite set of subscriptions), and keys are looked up
  once, after the attempt began (`SinkInv`). `WebhookAssumption` says that routes of the registry do
  not lead to webhooks, because `to_handler` is its only builder.

`AuthorityProofs` is about any components, clocks, keys, policies and chains:

* `AuthorityBounded`, `LifetimeBounded` and `SnapshotsEnd`, from `AuthorityInv`: every principal alive,
  in a caller, a token or a stored event, is `Sound`, that is inside its source in tenant,
  scopes and time. A snapshot's age counts from `issued_at`, and a stored principal was
  issued before it expired (`PrincipalEnvelope`), hence before its source does.
* `RevocationIsFinal`, from `RingInv`: a revoked key stays in the ring as revoked, so that
  `Installable` refuses it.

`RouteRolloutProofs` is about any number of processes, events and crashes and every history of
releases that satisfies `HistoryAssumption`: programs are finite and well formed (versions are
positive, as `validate_route_declaration` demands) and later ones retain the handlers of
earlier ones. `PublishedRuns` and `RoutesAreDeclared` come from `RolloutInv`. `RegistryOK` says what the registry
is after the first `m` statements of a program, so that declaring is a step from `m` to
`m + 1`; `DeliveryOK` says that a delivery carries the newest declared route of its key, prepared for
its mode. Claims, executions and lost attempts leave event, route and release of a delivery alone
(`KinDeliveries`). Across releases the two meet in `Retains`: the handler a delivery names is declared
by every later program that starts.

`DeploymentProofs` is about every pool, set of tenants, set of tables whose rows are followed, and
any number of migrations and transactions. `DeploymentAssumption` says that the names are told
apart (`None` is no tenant and no connection, the doctor's two tenants are nobody's) and that rows
are followed in real tables. The catalogue is concrete, so facts about it are computed
once (`TableNames` and the lemmas after it) and cited from there.

* `GateTellsTruth` and `VersionTells`, from `CatalogueInv` and `SchemaInv`. A catalogue is *Consistent* when its
  policies and grants are exactly those of the tables and functions in it, and *Told* when a
  marked component has its tables. Every upgrade, installer and *statement* of a downgrade keeps
  both, which is what makes a refused downgrade and the order of its drops harmless.
  `GateTells` alone is not inductive: a downgrade is in the middle of its tables most of the time.
* `TenantsApart`, from `TenantInv` with `LockInv` and `ProbeInv`: a connection's setting is its
  transaction's tenant or none, and the connection the doctor works on is nobody else's.
* `DowngradesKeep`, from `RowsInv`: a table the downgrade has looked into had no rows when it
  began. Row security is forced on their owner too; `OwnerSees` shows that the policies of every revision
  and installer hide no row from it, so that an empty answer means an empty table.
* `DoctorsHarmless`, from `DoctorInv` and `ProbeInv`: the probe row lives in an open transaction that can
  only roll back, and a failure is found only after a migration has come between.

Proving `GateTells` corrected the model. Revision 0005 writes its marker by `UPDATE ... WHERE component
= 'webhooks'`, which does nothing without a row; the model had set the marker. Four migrations
(upgrade to 0004, `drop_core_schema`, install the core, upgrade to 0005) would then have
marked webhooks without their tables. The run has three, so only the failing proof step showed
it; `Rewritten` is now the UPDATE.

**Only model-checked:** liveness, which is out of the prover's reach: `EventuallyTerminal`, `StopReturns`,
`HandoffSettles` and `EveryDeliveryEnds`. Every safety property of a passing run has a theorem.

## Not modelled

* Bytes: payloads, failure text, canonical JSON (`sqlalchemy/canonical.py`), request
  fingerprints and response capture of commands, envelope and token encoding,
  cryptography, HTTP framing and the address ranges of the endpoint policy. Their
  results are abstract values here.
* Telemetry and audit sinks (`observability/`, `delegation/audit.py`), which are kept from
  affecting the runtime.
* The conformance kit, the reference and test drivers, the readiness record, the
  command line and the release scripts: harness and tooling around the runtime.
* Column definitions, creation of roles and ownership; two migrators at once.
* A PostgreSQL clock that steps backwards.
* Webhook retention deletes attempts and deliveries and is part of `EventPublication` and
  `WebhookDelivery`, not of the ledger: the append-only and lineage properties are about the
  operations of `LeaseRepository`.

## Plan

1. Done: `RetryPolicy`, `LeaseRepository`, `PollingRelay`, `TaskiqHandoff` with the refinements of the
   ledger; `EventPublication`, `CommandLedger` and the abstract `IdempotentCommands`.
2. Done: webhooks (`WebhookSecrets`, `WebhookSubscriptions`, `WebhookTransport`, `WebhookDelivery`), `Authority`,
   `SchemaCatalogue` and `Deployment`, `RouteRollout`.
3. Done: proofs of the ledger, both executors, commands, publication, webhook keys and
   heads, and authority.
4. Done: the margin theorems of relay and hand-over, requests and snapshots of webhooks, releases,
   and the schema.
5. Next: an abstract life cycle of one delivery, as its producer sees it, that the
   serialized ledger refines, with the refinement proved.
