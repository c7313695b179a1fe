# A TLA+ model of metasheet2

metasheet2 is a TypeScript monorepo: a collaborative multitable ("spreadsheet
database") backend with automation rules, approvals, webhooks, attendance and
plugins, and a Vue client. Its own core logic lives in
`packages/core-backend/src` (about 990 files). What makes that code hard is not
any one calculation. It is that several replicas of the backend share a
PostgreSQL database and a Redis instance and coordinate only through single SQL
statements and short leases. These specifications model that coordination.

Paths below are relative to `packages/core-backend/src`, with `multitable/`
meant where no directory is given.

## 1. Inventory

| Component | State | Operations | Hard behaviour | What makes it correct |
|---|---|---|---|---|
| **Durable outbox dispatcher**: `automation-outbox-enqueue.ts`, `automation-durable-dispatcher.ts`, `automation-durable-dispatch-loop.ts`, `automation-routing-manifest.ts` | `meta_automation_outbox`, `meta_automation_outbox_consumer` (status, lease, fence, attempts); per replica: tick, `claimedThisTick`, heartbeat | enqueue, claim, renew, complete, poison, reschedule; tick, stop | several replicas, skewed clocks, statements that land late, crashes, heartbeats, adapter timeouts, rolling deploys | one owner per claim; done only if delivered; dropped only for cause; bounded attempts; nothing gets stuck |
| **Record-trigger sink**: `automation-service.ts` `handleEvent`, `automation-event-fires-lease.ts`, `automation-durable-activation.ts` | `meta_automation_event_fires` (one lease per rule and event) | claim / reclaim / classify, run, mark done | a second lease under the outbox lease; handlers that outlive their dispatcher; one rule of several failing | a rule runs to completion once; a busy rule is redelivered, not dropped |
| **Approval bridge**: `automation-approval-bridge-service.ts` | `automation_approval_bridges`, suspended jobs | start approval, claim completion, resumed, failed | an approval that completes before its bridge is written; crash between the two; completion redelivered | exactly one continuation per approval |
| **Outbound intents** (class B): `automation-outbound-intent.ts`, `automation-executor.ts` | one intent row per external send | claim, sent, failed, reconcile | crash between the send and its record; two claimers of a failed intent | a send that happened is never repeated |
| **Class-A idempotency**: `automation-execution-ledger.ts`, `automation-action-idempotency.ts` | ledger rows | claim in the action's transaction | retry of a whole execution | one effect per action of a lineage |
| **Automation scheduler and leader lock**: `automation-scheduler.ts`, `redis-leader-lock.ts` | Redis key with TTL; timers per replica | acquire, renew, relinquish, destroy, fire, edit a rule | TTL against a slow renewal; destroy during acquire; nobody re-acquires; edits on another replica | one replica runs the timers, and no timer outlives its leadership |
| **Webhook delivery**: `webhook-service.ts`, `services/WebhookRetryScheduler.ts` | delivery rows, failure counters | deliver, retry tick, auto-disable | fire-and-forget first attempt; batch outliving its lease; a failed statement after the answer; lost updates | every delivery is settled; a success was accepted; bounded retries |
| **Suspend / resume**: `automation-suspension-service.ts`, `automation-job-service.ts` | suspension tokens, job rows | suspend, claim, resume | double resume, rule edited meanwhile | a token is used once |
| **Circuit breaker**: `gateway/CircuitBreaker.ts` | state, half-open counter | execute, trip, probe, reset | calls that overlap state changes | at most N trial calls |
| **Message bus**: `integration/messaging/message-bus.ts` | priority queue, subscriptions, pending requests | publish, process, retry, request | a retry meets deduplication and ordering | a failed message is retried; order within a priority |
| **Collaborative documents**: `collab/yjs-*.ts` | update log, snapshot | store, load, compact, purge | compaction against concurrent stores | no stored update is lost |
| **Idempotency guard**: `guards/idempotency.ts` | response per key | lock, replay, release | parallel duplicates | one execution per key |
| **Approvals**: `services/ApprovalProductService.ts`, `services/ApprovalGraphExecutor.ts` | instances, assignments | one-transaction commands | row locks, graph traversal | legal graph states |
| **Attendance**: `attendance/*` | outbox, runs, plans | dispatch, calculate, import | its own outbox and worker | numeric and calendar results |
| **Queue / scheduler / cache services**: `services/*` | third-party queues, timers, Redis | wrappers | – | – |
| **Records, views, formulas, recovery** | user tables | single-transaction commands | – | values |
| **Plugin runtime, web client, plugins, OpenAPI, scripts** | – | – | – | – |

How they interact. A producer (record write, form submission, approval command)
calls `produceAutomationEvent` inside its own transaction; with
`AUTOMATION_DURABLE_DELIVERY_ENABLED=true` (default off) that enqueues one
outbox row and one consumer row per consumer key of the routing manifest.
Every replica runs a dispatch loop that claims due consumer rows and awaits one
of six adapters (`approval-bridge`, `approval-trigger`, `approval-projection`,
`approval-task-trigger`, `automation-record-trigger`, `webhook-event-bridge`).
The adapters call the sinks, which keep leases or idempotency keys of their own
because the outbox delivers at least once. The sinks run rules through the
executor, whose actions take class-A claims, write class-B intents, suspend, or
start approvals, whose completion is again a producer. The interval timers
(date reminders, cron rules) run on the replica that holds the Redis lock.

PROJECT.json lists the hazards of this code that a test would hardly reach, at
their lines, with the properties that cover them.

## 2. Plan

Order of work, the most important behaviour first:

1. `OutboxDispatch` (**done**) with its abstract specification
   `DeliveryPromise` (**done**): everything else is delivered by it.
2. `RuleDelivery` (**done**), composed with `OutboxDispatch`: the record-trigger
   sink, its lease under the outbox lease.
3. `ApprovalBridge` with its abstract specification `ApprovalPromise` (**done**):
   start, completion, and the lease on a completion.
4. `ExecutionRetry` (**done**): whole-execution retries over the class-A claims
   and the two-phase class-B intents.
5. `SchedulerLeader` (**done**): lock, renewals and timers over one Redis key.
6. `WebhookDelivery` (**done**): first attempts, leased retry ticks, auto-disable.
7. Suspension and resume (the shape of `ApprovalBridge`), then the in-process
   `CircuitBreaker` and `MessageBus`, then `YjsPersistence`.

Each module takes its parameters as CONSTANTS with one named ASSUME, has one
action per statement or handler, and declares no RECURSIVE operator, so that it
can be proved about. Runs use two processes, one or two objects, and leases of
one or two ticks: every race in this code is between two actors over one row.

Theorems (section 9): every safety invariant and every action property of the
passing runs, the refinement of `DeliveryPromise` by the dispatcher alone and
composed with the sink, and that of `ApprovalPromise` by the bridge. What liveness
needs stays with TLC (section 11). Next: the components of step 7, modelled and
proved in the same way, and what the refinements of one component let the next
assume (`ApprovalBridge` reduces the outbox to what `OutboxDispatch` promises).

## 3. OutboxDispatch

### State

| Variable | Code |
|---|---|
| `row[<<e, k>>]` | the row of `meta_automation_outbox_consumer` for event `e` and consumer key `k`: `status` (`"absent"` before enqueue), `lease` = `lease_expires_at`, `fence`, `attempts`, `error` = `last_error` |
| `pc[w]` | what replica `w`'s loop awaits: `idle` (the interval), `claim`, `run` (adapter against timeout), `resolve`, or `down` |
| `job[w]` | the `ClaimedConsumer` being processed: row, fence, attempts |
| `asOf[w]` | the clock reading carried by the statement in flight |
| `slot[w]`, `taken[w]` | slot counter and `claimedThisTick` |
| `verdict[w]`, `aborted[w]` | normalized verdict; `leaseLost` / `heartbeatErrored` |
| `beat[w]` | a `renewConsumerLease` in flight |
| `stopping`, `alerted[w]` | `stop()` called; unknown keys already reported |
| `faults` | bound on crashes, database errors and stops |
| `began burned accepted rejected runs parked` | history, read by no action |

Time is relative: a lease is the time left, `Tick` decrements it and ages every
statement that has been issued but has not executed. So a statement carries an
old clock reading when it lands (`MaxDelay`), and each replica's reading is off
by `Skew[w]`. Leases stop ageing at `-Horizon`, below anything the guards can
distinguish (`MaxDelay - Skew[w] <= Horizon`).

### Actions

| Action | Code |
|---|---|
| `Enqueue(e)` | `enqueueOutboxEvent` at the commit of its transaction |
| `BeginTick` | interval callback, overlap guard, `findUnknownConsumerKeys` |
| `ClaimDispatch`, `ClaimPoison`, `ClaimNothing` | the three replies of `claimDueConsumers`: a row, a row poisoned at the ceiling, nothing |
| `ClaimError`, `ClaimReplyLost` | the statement fails; it commits and the reply is lost |
| `Beat`, `BeatLands`, `BeatFails` | the heartbeat interval, its execution, its error (executed or not) |
| `Settle`, `SettleAborted` | the end of the race of adapter and timeout, `normalizeAdapterVerdict` |
| `Resolve`, `ResolveError` | complete / poison / reschedule and the next slot, or an error that ends the tick (executed or not) |
| `Crash`, `Restart`, `Stop`, `Exit` | replica life cycle |
| `Tick` | time |

Abstractions: `ORDER BY updated_at, LIMIT 1, SKIP LOCKED` is the choice of any
claimable row; the three reasons of a reschedule are one error value; the
registry is the constant `Known[w]`; validation of numeric options is left out;
one heartbeat per replica is in flight at a time.

### Properties

- `SingleOwner` – no two replicas ever hold the same token of a row, and no token
  is ahead of its row.
- `DoneIsDelivered` – a row is `done` only if the adapter called under the very
  fence that resolved it answered an exact success.
- `DroppedForCause` – `dead_letter` only for an exact permanent rejection under
  the fence that dropped it, or with every attempt spent.
- `AttemptsAccounted` – every counted attempt started an adapter or was burned by
  a fault.
- `OncePerTick` – one tick never starts the adapter of a row twice.
- `UnknownKeysWait` – rows of unknown keys wait untouched.
- `TerminalIsFinal`, `BackoffKept`, `TickDrains` – action properties: terminal rows
  never change; a rescheduled row waits out its backoff; a tick leaves nothing
  claimable behind while it has slots.
- `EventuallySettled` – a served row reaches `done` or `dead_letter`.
- `KeepsPromise` – the specification implements `DeliveryPromise`: an owed row is
  tried at most `MaxAttempts` times and settled once, after a try.

### Runs

| Run | Instance | Shows |
|---|---|---|
| `dispatch_one_row` | 2 replicas, 1 row, clocks one unit apart, statements up to one unit late, lease 2, 2 attempts, 2 slots, 1 fault, fairness | ownership, outcome, attempts, backoff, refinement, every served row settled |
| `dispatch_rolling` | 2 builds, 3 rows, one key known to only one build and one to none, 1 attempt, 3 slots | unknown keys wait, ticks drain |

The bounds: two replicas because every statement concerns one row and the races
are between a holder and a rival; two attempts because the first claim, a
redelivery and the ceiling then all occur; `LeaseTime = 2` with `MaxDelay = 1`
and a skew of one lets a lease expire before, during and after a statement is in
flight; three slots for three rows let a tick poison one and go on.

Fairness (`Fairness`): the interval timer, the adapter timeout and the driver's
replies keep each live loop moving (WF on `LoopStep`, `BeatLands`, `Exit`); an
orchestrator restarts a dead replica (WF on `Restart`); time passes (SF on `Tick`,
which is disabled while a statement is at its maximal delay); and no row is passed
over for ever (SF on claiming each row), which the code gets from
`ORDER BY updated_at`, since each claim sends its row to the back. No fairness is
assumed of faults, heartbeats, or of the adapter's answer.

## 4. RuleDelivery

Composes `OutboxDispatch` with the handler behind one of its adapters. A claim
starts a `handleEvent` call; the dispatcher's adapter answer is the call's end,
or the timeout, which does not stop the call. So several calls for one event may
run at once, in one replica or two, each under its own lease per rule.

| Variable | Code |
|---|---|
| `fires[<<e, i>>]` | the row of `meta_automation_event_fires` for event `e` and its `i`-th matching rule: status, lease (database clock), fence |
| `calls` | `handleEvent` calls: replica, row and fence they were started for, phase (the statement or run they await), rule, token held |
| `started finished busy` | history, read by no action |

| Action | Code |
|---|---|
| `Dispatch`, `AdapterReturns`, `AdapterTimesOut`, `ReplicaEnds`, `TimePasses`, `DispatcherAlone` | the dispatcher's actions, with their effect on the calls |
| `Load` | `loadEnabledRules`; its error is the handler's |
| `Insert`, `Reclaim`, `Classify` | the three statements of `claimEventFiresLease`; a busy rule throws into the per-rule `catch` |
| `Run`, `Mark` | `executeRule` and `markEventFiresDone` |
| `CallFails` | any of those statements errors, executed or not; the loop goes on |

The composition follows the deliveries of one consumer key, `automation-record-trigger`,
for any number of events (`RuleAssumption`); the approval triggers take the same
lease under dedup keys of their own. The matching rules are the constant `NumRules`; a rule that is edited between two
deliveries, the tombstone flow used with the flag off, and the seven-day sweep of
the ledger are not modelled. What the run of a rule does is not modelled either:
`executeRule` returns for a failed execution as it does for a successful one.

- `RuleSingleOwner` – calls that run one rule at once hold different fences, none
  ahead of the ledger row.
- `DoneMeansRun` – a ledger row is `done` only because the run under its final
  fence came to its end.
- `RunsBounded` – a delivery starts a rule at most once, so the outbox's attempt
  ceiling bounds runs.
- `NoRerun` – no run starts after the rule was marked, or while the lease of a
  run in progress is live.
- `RulesEventuallyRun` – without faults each rule is run and marked, although
  adapters time out and redeliveries overlap.

| Run | Instance | Shows |
|---|---|---|
| `rule_delivery` | 1 replica (its timed-out call and the redelivery are the two actors), 2 rules, 2 attempts, both leases 1, 1 fault, fairness | safety of the second lease, and liveness |
| `rule_busy` | outbox lease 1, rule lease 2 (30 s and 60 s in the code) | **violated**: see below |

Fairness adds to the dispatcher's that a call keeps moving and an answered call is
observed (the runtime schedules promises).

Finding `rule_busy`: `DurableSinkBusyError` exists so that a redelivery that meets
a live rule lease is retried; its comment says the delivery "must NOT resolve
`done`". It is thrown inside the per-rule `try` of `handleEvent`, whose `catch`
logs it. The handler returns, the adapter reports success, the row becomes `done`.
If the holder of the rule lease is a dead replica, nothing ever runs the rule.

## 5. ApprovalBridge

A rule with the action `start_approval` stops there; the actions after it (its
*tail*) run when the approval is decided, by the delivery of the completion event
that the deciding transaction enqueued. Three tables and one outbox row are
written by different processes, one statement at a time: the process that ran the
rule, a retry of the execution, and any number of overlapping deliveries.

| Variable | Code |
|---|---|
| `approval[e]` | the `approval_instances` row that execution `e` created |
| `bridge[e]` | its row of `multitable_automation_approval_bridges`: status, whether `approval_instance_id` is written (`linked`), lease, `lease_fence`, `attempts` |
| `exec[e]` | status of its row of `multitable_automation_executions` |
| `jobs[e][i]` | its rows of `multitable_automation_jobs`; step 0 is `start_approval`, steps `1 .. Tail` the rest |
| `event[e]` | the outbox row of its completion: state, present owner, tries |
| `run[a]` | what an actor (an execution, or a delivery worker) holds in memory and its next statement |
| `runs[e][i]` | how often a tail action was executed |
| `faults`, `carried` | bound on crashes and failing statements; history |

| Action | Code |
|---|---|
| `RecordExecution` | `execute`, `onExecutionStarted` |
| `LookupBridge`, `InsertBridge`, `CreateApproval`, `ReadApproval`, `LinkBridge`, `WriteJob`, `MarkBridgeFailed` | the statements and transactions of `startApproval`, in order, and its `catch` blocks |
| `RetryExecution` | `retryExecution` of a failed execution of the lineage |
| `StartAction`, `RunAction`, `SettleAction`, `SkipRest`, `PersistExecution` | `executeActions` on the tail with the job service's hooks, and the final UPDATE of the execution; shared by starter and deliveries |
| `Decide` | an approver decides; the event is enqueued in that transaction |
| `Receive`, `Reply` (in `Consumed`, `Thrown`), `BuryEvent` | the outbox, reduced to what `OutboxDispatch` establishes of it |
| `ClaimFresh`, `BuryPoison`, `ReclaimExpired`, `Classify` | the four statements of `claimCompletion` |
| `CheckRule`, `ContinueExecution`, `FailExecution`, `MarkBridgeResumed` | `resumeApprovalBridgeContinuation`, `continueExecution`, `failApprovalBridgeExecution`, `markBridgeResumed` |
| `ExpireLease`, `Crash` | time; a replica's death between two statements |

Abstractions. Time: a lease may expire at any step. The outbox: a handler's answer
counts only if its worker still owns the row, which is `SingleOwner` and the
token test of `OutboxDispatch`. A failing statement commits nothing, except that
`createApproval` reads the approval back after its commit and may throw then.
`SkipRest` writes the job rows of all remaining actions in one step, which the
executor does one by one (`automation-executor.ts:1490`): nobody reads them before
the execution ends. The
database's own checks are part of the model: the partial unique index over active
idempotency keys, the primary key of the jobs, and the CHECK that a bridge has a
lease exactly while it is `in_progress`. An approver may be quicker than
`LinkBridge`: the code does nothing to prevent it, and `event[e].early` remembers it.

- `OneLiveApproval` – racing or repeated starts of one step have at most one
  approval that was not reported as failed.
- `SingleHolder` – overlapping deliveries of one completion hold different fences.
- `ResumedByHolder` – a bridge is resumed only after the delivery under its last
  fence came to its end; a zombie cannot settle it.
- `NeverReopened` – a terminal bridge stays terminal.
- `KeepsPromise` – implements `ApprovalPromise`: the tail runs only if this
  execution's approval was approved, in order, no action twice.
- `ConsumedMeansCarried` – a completion that was decided after its bridge was
  linked is consumed only after some delivery carried the execution to its end,
  or the bridge was given up.

| Run | Instance | Shows |
|---|---|---|
| `bridge_start` | an execution, two retries, 1 worker, 2 faults | one live approval |
| `bridge_completion` | 1 execution, 2 workers, 3 tries, a tail of 2, 2 faults | ownership, finality, no completion forgotten, refinement |
| `bridge_early` | as small as shows it | **violated**: see below |

The bounds: the starts race pairwise, and a third execution lets a retry meet one
race's winner and its loser; the deliveries race pairwise, and a third meets
a claim at its ceiling. Attempt ceilings of one or two replace eight, so that
burial is reached. `CHECK_DEADLOCK FALSE`: an execution ends.

No fairness is stated: whether the outbox comes back with a completion is
`EventuallySettled` of `OutboxDispatch`, and `ConsumedMeansCarried` says that it
is not told to stop too early.

Finding:

- `bridge_early` – `startApproval` commits the approval before it writes the
  instance id into the bridge. A decision between the two yields a completion that
  finds no bridge and is consumed as "most approvals have no automation bridge";
  the bridge then waits for ever.

Two more weaknesses are states of the model, without a run of their own, since no
document of the repository clearly promises otherwise. A completion that overtakes
the INSERT of the `start_approval` job flips no row, and the job is then written
`suspended` for good (`WriteJob` after `ContinueExecution`). And `createApproval`
can throw after its commit (`ReadApproval`): the bridge is marked failed and a
retry starts a second approval, which is why `OneLiveApproval` excepts approvals
reported as failed (`GivenUp`); it does not show that this cannot happen.

## 6. ExecutionRetry

An administrator may retry a failed or skipped execution as a whole, any number
of times and side by side. What keeps a retry from doing everything again is an
identity: the root of the lineage and the place of the action in the rule.

| Variable | Code |
|---|---|
| `log[e]` | the stored execution: status and the execution it retries |
| `run[e]` | the run under way: next statement, root and parent, action, the status it has read |
| `applied` | `meta_automation_action_applied`, the class-A claims |
| `intent[k]` | `meta_automation_outbound_intent`, the class-B rows |
| `commits`, `missed` | history: the claims of class A that committed, and those of them that found no record to write |
| `sends`, `stale`, `overlapped` | history: requests that left, steps passed on an outdated status, whether runs overlapped |

| Action | Code |
|---|---|
| `Retry` | `retryExecution`; `RootOf` is its walk up the lineage, which visits `LineageDepth` executions (16 in the code) |
| `SkipConditions`, `Persist`, `Crash` | the rest of a run: conditions read from the current rule, the stored result, a death |
| `ApplyRecord` | a record write and its claim, one transaction that commits, with or without a record found |
| `ApplyThrows`, `AlreadyApplied` | the gate in front of the claim, or a throw that rolls it back; a claim held by an earlier run |
| `InsertIntent`, `Consult`, `Flip` | the statements of `claimOutboundIntent` |
| `Send`, `RecordOutcome`, `StatementFails` | the send with `classifyOutboundResult`, `recordOutboundOutcome`, a statement that fails, carried out or not |

A rule's actions are of four kinds. A `create` writes or throws. An `update` stands
for update, delete and lock: when its statement finds no record, the transaction
commits with the claim and the step is a success all the same
(`automation-executor.ts:2371`, `:2405`, `:2547`, and
`multitable-d1-delete-revision-parity-realdb.test.ts`, which tests it for a delete).
Across bases the record is looked for first and its absence throws, but an update
and a lock hold no row lock between that look and their UPDATE. `webhook` and `email`
are the requests; only a webhook's failure is ever recorded as definite.

- `AtMostOnce` – a record write and an email happen at most once in a lineage,
  races included.
- `OnceWithoutOverlap` – while no two runs overlap, no webhook is delivered twice.
- `SuccessIsExplained` – of an execution stored as success: each record it creates
  was written; each it updates, deletes or locks was written, or was missing when a
  run of its lineage came to write it; each of its requests was delivered or is on
  record as ambiguous. One case is weaker: `claimOutboundIntent` reads `pending`, and
  by the time it flips the row a run beside it has settled it. That skip promises no
  more than that the request was made (`stale`), for the row may by then be `failed`.

| Run | Instance | Shows |
|---|---|---|
| `retry_lineage` | one action of each kind, 3 executions, a walk of 2, 2 faults | the three properties |
| `retry_resend` | one webhook, 3 executions, no fault | **violated**: see below |

Three executions because the races are between two retries of one failure; two
faults because a failure and a lost reply of its retry must meet. `AtMostOnce` and
`OnceWithoutOverlap` concern the executions within reach of the walk (`InReach`),
which a chain of more than sixteen retries outgrows; this instance stays within it,
and the theorems hold for walks and chains of any length. `CHECK_DEADLOCK FALSE`:
a lineage ends.

Finding `retry_resend`: `claimOutboundIntent` reads the status, then flips
`failed` to `pending` under a guard, and does not look at the number of rows the
flip wrote. Two retries that both read `failed` both send; the second may start
its send when the first is already `sent`, of which the file says "do NOT resend".

## 7. SchedulerLeader

Every replica builds a scheduler and tries to take one Redis key; the holder runs
the timers of all scheduled rules. The module counts time in ticks. A command
takes up to `MaxDelay` to Redis and its answer as long back, in order on one
connection; the renewal interval fires every third of the TTL.

| Variable | Code |
|---|---|
| `now` | the key (owner, time left) in Redis; the rule (version, state) in PostgreSQL |
| `phase[r]` | the replica's process, from construction to its end |
| `leads[r]`, `renewal[r]` | `isLeader`, `leaderRenewTimer` |
| `conn[r]` | commands sent and not yet answered |
| `handles[r]` | the entry of `timers`, and the timers really alive |
| `rows[r]`, `edits[r]` | what the load has read; edits whose handler has not resumed |
| `silence[r]` | history: ticks since Redis carried out what leader `r` last heard succeed |
| `stale idle flushed raced` | history: ticks led without the key, owned without leading; the key was lost; edits out of order |

| Action | Code |
|---|---|
| `Boot`, `Select`, `Load`, `BootFails` | construction, `init`, `loadAndRegisterAllScheduled`, the rollback in `index.ts` |
| `Execute`, `CommandFails`, `KeyLost` | the three atomic commands of `RedisLeaderLock`, and Redis losing a command, an answer or the key |
| `Reply` (`Elected`, `RenewAnswered`), `RenewFires` | `attemptLeadership`, `startRenewalLoop`, `relinquishLeadership` |
| `Commit`, `EditResumes`, `EditFails` | `updateRule`, `setRuleEnabled`, `deleteRule`: the statement, then `register` / `unregister` of that replica |
| `Shutdown`, `Exit`, `Crash` | `destroy` and the end of the process |
| `Tick` | time, when nothing is overdue |

- `SingleLeader` – while Redis keeps the key, two replicas that both take themselves
  for the leader are never both within the lease they last heard of: one of them
  has had no word of a success for a TTL or more.
- `DisagreementBounded` – a leader hears of a success again or gives up within an
  interval and three delays; one whose key is gone, within an interval and two; and
  a key without a leader expires.
- `TimersSilent` – no timer on a follower or a destroyed scheduler.
- `TimersCurrent` – edits made in turn on the leader leave it with a timer of the
  rule as stored.

| Run | Instance | Shows |
|---|---|---|
| `leader_lock` | 2 replicas, TTL 4, delay 1, 2 edits, or 1 edit and 1 fault (`Bounded`) | the four properties |
| `leader_handover` | the same without edits and faults, fairness | **violated**: see below |

Nothing in the code bounds the delay of a Redis command (`db/redis.ts` sets no
command timeout), and no property assumes that it is short: `TimingAssumption` only
says that the TTL is three ticks or more, so that there is a renewal interval, and
that there is some bound `MaxDelay`. So two leaders are possible, and the model
reaches them: with TTL 4 and delay 1 the answer of a failed renewal may arrive
in the tick in which the key expires and another replica takes it. What the lock
gives at any delay is `SingleLeader`: the second leader exists only because the
first has been deaf for its whole lease, and `DisagreementBounded` says how long that
may go on. `OneLeaderInTime` (section 9) is the classical statement as a
corollary: if the interval and three delays are less than the TTL, at most one
replica leads. Fairness: time passes and commands are answered; shutdowns and
faults are not forced.

Finding `leader_handover`: a replica tries to acquire once, in its constructor.
When the leader shuts down and releases the key, or gives up over one failed
renewal, no running replica takes over, though
`docs/development/collab-infra-redis-wiring-runtime-development-20260422.md:75`
speaks of "a sibling replica to pick up the lock" and `:80` of a brief gap.

## 8. WebhookDelivery

A delivery is a row. Its first attempt is started by `deliverEvent` and awaited
by nobody; retries are made by the ticks of the replicas, which claim all due
rows in one transaction, lease them, and deliver them one by one.

| Variable | Code |
|---|---|
| `setup` | the rows, replicas, edits and faults of the instance, chosen at the start |
| `row[d]` | `multitable_webhook_deliveries`: status, `attempt_count`, and where `next_retry_at` (or, before a first outcome, `created_at`) stands: `young`, `stray`, `waiting`, `elapsed` |
| `hook` | `active`, `failure_count` and `max_retries` of the webhook |
| `run[p]`, `batch[r]` | the statement an attempt is at, with what it has read; the rows a tick has left |
| `sends accepted streak blamed limits disturbed miscounted stopped` | history: requests made and accepted, failures recorded in a row and in all, the values `max_retries` has had; what the properties except |

| Action | Code |
|---|---|
| `Deliver`, `DeliverFails` | `createDeliveryRecord` and the unawaited `executeDelivery`; the INSERT whose answer is lost |
| `Elapse` | time: a lease, a backoff or the grace of a first attempt runs out |
| `Claim`, `Check` | `retryFailedDeliveries`: the claim, and the webhook read before each row |
| `Read`, `Send`, `Write` | `executeDelivery` and `handleDeliveryFailure`, one statement each |
| `StatementFails` | a statement fails, carried out or not: caught by the `catch` of `executeDelivery` if inside its `try` (`guarded`), else the attempt or the whole tick ends |
| `Crash`, `Switch` | a replica's death; `updateWebhook` setting `active` and `max_retries` |

No clock is kept. The abort timer is cleared before the body of the answer is
read, and a batch of any length shares one lease, so an attempt may outlast any
deadline; `disturbed[d]` remembers that one did, or that an attempt at `d` ended
without a record.

`max_retries` may be 0 (`webhooks.ts:29`), with which the first attempt is
made all the same (only a tick compares before it sends), and an admin may change it
while an attempt is under way that has read the old value.

- `TriesBounded` – an undisturbed delivery is accepted at most once, and requested a
  second time only within a `max_retries` the webhook has had; the first request is
  made under any.
- `OutcomeExplained` – a stored success was accepted; a delivery is given up only
  with as many requests made as `max_retries` has been, or the webhook inactive.
  Disturbed or not: also for rows sent twice, and for successes whose statement
  failed.
- `SuccessKept` – a success stays one unless disturbed.
- `DisabledForCause` – the service disables the webhook only after the configured
  number of failed attempts: in a row, or in all once overlapping attempts wrote
  old counts. A failure that the catch clause records again counts once.
- `Settles` – liveness: every pending delivery is settled, though replicas crash
  and statements fail; in particular strays of a first attempt are found.

| Run | Instance | Shows |
|---|---|---|
| `webhook_retry` | five setups (`AllSetups`): ticks of 2 replicas at 1 row, 2 faults; a batch beside a first attempt; a batch of 2 rows, 2 faults; a webhook edited under way, 1 fault; `max_retries` 0, 1 fault; `max_retries` up to 2, 2 failures to disable; fairness | all of the above |

Fairness: time passes, each replica's interval fires again (WF on `Claim` and
`Check`), statements and endpoints answer (WF on `Advances`). Faults, crashes,
events and edits are not forced. `CHECK_DEADLOCK FALSE`: deliveries end.

## 9. Proofs

`OutboxDispatch_proofs` proves, for any replicas, events, keys, clocks, leases and
attempt ceiling, under `DispatchAssumption` only:

- `TypeCorrect`: `Spec => []TypeOK`. One lemma per kind of row a statement writes
  (`ClaimedRowType`, `RenewedRowType`, `ResolvedRowType`), lemmas for what ends a
  slot (`EndTickType`, `NextSlotType`, `FreeLoopType`), then one step per action.
  `TypeOK` holds the table's CHECK that a row has a lease exactly while it is
  `in_progress`, which every statement must keep.
- `Invariance`: `Spec => []IInv`. `IInv` joins the safety invariants with what
  they need to be inductive: `Unborn` (a row not yet enqueued is empty, so
  enqueueing resets nothing) and `VerdictSound` (a verdict about to be written was
  given under the token that will write it). The argument goes through
  `RowEffects`: a step changes a row only by enqueueing it, claiming it, moving
  its lease or resolving it for the worker that processes it, however late the
  statement executes. From it, `FenceGrows`, and with `ClaimTakesNewToken` and
  `JobEffects`:
  - `OneOwner`, `DoneOnlyIfDelivered`, `DroppedOnlyForCause`, `AttemptsBounded`:
    the four safety invariants.
  - `SettledForGood`: terminal rows never change.
  - `UnknownKeysUntouched`: rows of unknown keys.
- `CalledOncePerTick`: `Spec => []OncePerTick`. A call is counted only for a row the
  tick remembers in `taken`, and the claim excludes those, also when the row was
  lost to another worker and became due again in between.
- `TicksDrain`: `Spec => TickDrains`.
- `BackoffHolds`: `Spec => BackoffKept`, with two more invariants: no renew in
  flight is ahead of its row (`BeatBehind`), and every token in circulation for a
  rescheduled row is stale (`ParkedStale`).
- `Implements`: `Spec => KeepsPromise`, the refinement of `DeliveryPromise`. Seen
  from the promise, a step either enqueues the rows of one event or changes one
  row (`OneRow`), which is then owed, tried or settled (`RowPromise`).

None of the proofs about `OutboxDispatch` uses the bounds (`MaxDelay`, `MaxFaults`,
`Horizon`) or the values of the clocks.

`RuleDelivery_proofs` extends these proofs to the composition, for any replicas,
events, rules, leases and faults, under `DispatchAssumption` and `RuleAssumption`.
`DispatcherSteps`: every step of the composition is a step of the dispatcher, a
stutter of it, or a spent fault; so `IInv` is kept (`DispatcherKept`), and the
refinement and the action properties carry over (`PromiseCarried`, `StepsCarried`).
`RuleInv` adds to `IInv`:

- `Behind`: no call's fence is ahead of its row, so that the calls of a row are
  told apart by it. `RuleOwned` (`RuleSingleOwner`) follows from how the three
  statements of the lease hand out a fresh fence.
- `Credit`: a call reaches `mark` only when its run came to its end: `DoneOnlyIfRun`.
- `Budget`: the runs started and the calls that may still start one do not exceed
  the claims that began, whoever timed out meanwhile: `RunsAreBounded`.
- `NeverRerun` is read off the steps.

`ApprovalBridge_proofs` proves, for any executions, deliveries, length of the tail,
ceilings and faults, under `BridgeAssumption`, that `BridgeInv` is invariant. Beside
the properties it has `Staged` (what bridge, approval and event may be while the
starter is at each of its statements), `OneActive` (the partial unique index),
`SeenSound` and `Approved` (what an actor read of the approval is still so, and only
an approval reaches the tail), `AtMark` (who settles a bridge carried its execution
under that fence), `QuickOnes` (the completions that precede `LinkBridge`) and
`InOrder` (the job rows admit one actor to an action, and only after the one before).
From it `BridgeTyped`, `OneLive_Always`, `SingleHolder_Always`,
`ResumedByHolder_Always`, `Consumed_Always`, `NeverReopened_Always` and
`Promise_Kept`, the refinement of `ApprovalPromise`.

`ExecutionRetry_proofs` proves, for any rule, executions, walk length and faults,
under `KindsAssumption` and `RunsAssumption`, that `RetryInv` is invariant: `Claims`
(the held claims of class A and the commits that won them are one to one, and only an
`update` misses its record), `Intents` (what a run holds of an intent, that a `sent` one
was delivered and a `failed` one requested), `Emails` (an email's intent is never
retryable, so only the run that inserted it sends), `Alone` (without overlap what a run
read is still true), `Passed` (a step left behind is `Explained`), `Tree` and `Rooted`
(the lineage, and that the walk of an execution in its reach ends at the first). The
last needs induction on the depth of a lineage: `Induction` states it for a set of
numbers, from the well-foundedness of `<`, and `AncestorFirst` and `DepthFacts` apply
it to the recursive functions of the walk. From it `RetryTyped`,
`AtMostOnce_Always`, `OnceWithoutOverlap_Always`, `SuccessIsExplained_Always`.

`SchedulerLeader_proofs` proves, for any replicas, TTL, delay, edits and faults,
under `NullAssumption`, `BoundsAssumption` and the `TimingAssumption` of section 7, which
relates no delay to the TTL, that `LeaderInv` is invariant. Per replica: `Line` (what may
be queued on its connection), `Held` (while Redis keeps the key, the key outlasts what
the replica last heard and what the answers under way to it tell), `Heard` (a leader's
silence, for each place a renewal can be in), `Late` and `Idle` (how far a leader without
the key, or a key without a leader, has come), `Timers` (what the load has read, and
what a pending edit will do). From it `LeaderTyped`, `SingleLeader_Always`,
`Disagreement_Always`, `TimersSilent_Always`, `TimersCurrent_Always`.
`OneLeaderInTime` follows from `Held` and the bound on silence, under
`RenewEvery + 3 * MaxDelay < TTL` as the hypothesis of that theorem alone.

`WebhookDelivery_proofs` proves, for any rows, replicas, setups and limits, under
`NamesAssumption`, `SetupsAssumption` and `LimitsAssumption`:

- `TypeCorrect`: `Spec => []WebhookTypeOK`. An attempt goes on (`GoesOn`), turns to
  the next row of its batch (`TurnsToType`) or leaves its runner idle (`GoesIdle`);
  every action is one of the three, so that a tick is always at the first row of
  its batch and idle when it has none.
- `OutcomeHasCause`: `Spec => []OutcomeExplained`. That the row of a success was
  accepted is not inductive: the row is written from what an attempt remembers,
  and the attempt from what a batch remembers of the row. `IInv` says what each of
  them stands for: every count in a row (`RowsSound`), a batch (`BatchesSound`) or
  an attempt (`RunsSound`) was made as requests, an attempt at `store` was
  accepted, one at `drop` or `fail` has spent its tries or met an inactive webhook
  (`HookSound`). The history only grows (`Grown`, `GrownStep`), so what another
  runner does cannot unmake it (`AttemptKept`, `RowKept`, `ClaimKept`); each action
  then has to be looked at only for the runner that takes it.

`WebhookAttempts_proofs` extends these proofs under the same assumptions:

- `TriesAreBounded`: `Spec => []TriesBounded`, from `TriesInv`. As long as a delivery is
  undisturbed, at most one attempt or claim is at it (`Alone`), and every count, in
  the row, in a batch or in an attempt, is the number of requests made, or one more
  at `send` (`Counted`), of which those beyond the first stay within a limit in `limits`. Due rows are nobody's: that a first attempt is younger than the
  grace after which a tick takes its row is what keeps the two apart.
- `SuccessKeptAlways`: `Spec => SuccessKept`, from the same invariant.
- `DisabledForCauseAlways`: `Spec => DisabledForCause`, with `Readings`: no failure count,
  in the row or about to be written, exceeds the failures of attempts (`blamed`; an
  attempt whose failure is `told` counts once); and unless one was written from an
  old reading, one attempt at a time holds one, and it does not exceed the failures
  in a row.

## 10. Known divergences without a run

States or steps of the models, or facts met while reading, in which the code does
something else than a comment or a reader would expect:

- **Manifest version.** `automation-routing-manifest.ts:94` says a row stamped with
  an unknown version "must be left alone"; no claim, dispatch or startup path
  looks at `manifest_version`.
- **Bridge, reclaim.** A delivery that dies between the job row of an action and
  the action makes the one that takes over fail on that row: the bridge is
  `resumed` and the tail never runs. `automation-service.ts:2788` says exactly once
  at the effect level; the code gives at most once (`ApprovalPromise`).
- **Bridge, overtaking.** A completion that overtakes the INSERT of the
  `start_approval` job flips no row, and the job is then written `suspended` for
  good. A crash between `createApproval` and `LinkBridge` leaves a `creating` bridge
  that refuses every retry.
- **Retry chains.** A chain of more than sixteen retries hangs its claims on
  another root, and the actions are done again.
- **Skips that were not sent.** `claimOutboundIntent` reports a pending row as
  ambiguous and skips; the step, and so possibly the execution, is a success. If a
  run beside it records `failed` in between, the guarded flip changes nothing and the
  step is still a success, of a request on record as never delivered.
- **Claims without a write.** A same-base update, delete or lock of a missing record
  commits its claim with nothing written, so a later retry skips the action even if
  the record is there again. Across bases this is to be "never a silent no-op
  success" (`automation-executor.ts:2372`), yet an update whose record is deleted
  between its SELECT and its UPDATE is one.
- **Scheduler.** `destroy()` while the first acquire is in flight leaves a destroyed
  scheduler that becomes leader and renews for ever, with no timers. Edits
  on a replica that does not lead never reach the leader's timers, and edits
  whose answers are reordered leave an old timer (`raced`). One failed renewal
  gives the leadership up, though `automation-scheduler.ts:55` says the interval
  "handles one transient failure without losing the lock". A TTL under a second is
  shorter than the minimal renewal interval.
- **Webhooks.** One lease of four timeouts covers a batch of any length and a body
  without a timeout, so "a concurrent replica's tick skips it"
  (`webhook-service.ts:33`) and "never double-fired" (`:39`) do not hold; a statement that fails while
  a success is stored turns it into a failed attempt, which is sent again; a
  crash during a send is not counted; overlapping attempts may disable a webhook
  across a success; re-enabling keeps `failure_count`, so the next failure disables
  it again; and with `max_retries` 0 a delivery is still sent once, and not at all
  if its first attempt was lost, for the tick then drops it unsent.

## 11. What is only model-checked, and what is not modelled

Only model-checked: the liveness properties `EventuallySettled`,
`RulesEventuallyRun` and `Settles`, since liveness under fairness (and ENABLED) is out
of the prover's reach; and the four violations of the findings, which are
counterexamples. No RECURSIVE operator is declared, and the library's induction theorems over an
operator cannot be instantiated; where a recursive function matters, in the
lineage walk of `ExecutionRetry`, the induction is over a set.

Left out of modelled components. `RuleDelivery`: what the run of a rule does.
`ApprovalBridge`: the legacy claim used with durable delivery off, the write-back
of an approval's result into its record, an execution row that is missing on
resume, and what a tail action does. `ExecutionRetry`: the approval card and its
write-back ledger, the flag-off paths, and rules edited between retries, which the
fingerprint refuses. `SchedulerLeader`: when a cron expression fires, time zones,
several rules and what a firing does. `WebhookDelivery`: deletion of a webhook,
several webhooks, lengths of a backoff, and the optional leader lock of the retry
scheduler, which has the shape of section 7.

Not modelled: the components of section 1 without a module. Suspension and
resume, the circuit breaker, the message bus and the Yjs persistence are next in
the plan. Records, views, formulas and recovery are single transactions whose
correctness is about values; the approval graph executor and the attendance
calculation are large and sequential; queue and cache services wrap libraries;
the plugin runtime, the web client, packaged plugins, generated API documents and
scripts hold no shared-state protocol.
