# TLA+ verification of ContentOS

TLA+ models of the stateful core of this repository, TLC configurations that check
them on small instances, and TLAPS proofs of what matters most for every instance.
Every definition is translated from the source; `PROJECT.json` maps each one to its
lines, lists the hazards the properties are for, and gives for every property of a
passing run a plausible bug ("mutant") that breaks it.

## 1. The system

ContentOS is a TypeScript monorepo (platform services, event platform, AI layer, API,
workers) beside an older Python backend and two web front ends. State that several
actors change concurrently lives in PostgreSQL and Redis; services are stateless and
share nothing else, except the in-process aggregate barrier of a consumer worker.

| Component | State | Operations | How it meets the others | What is hard | What makes it correct |
|---|---|---|---|---|---|
| Credit holds, balance, ledger (`packages/platform/src/credits`) | `credit_holds`, `credit_ledger_entries`, `credit_balances` | authorizeSpend, recordConsumption, settle, release, expireStaleHolds, releaseOpenHolds, append | called by orchestrators and sweeps; publishes through the outbox; suspension events call releaseOpenHolds | READ COMMITTED statements of many callers, retries, multi-row sweeps | no over-commitment, each unit charged once, a hold closes once and says so once, the ledger is append-only, alerts on transitions only |
| Transactional outbox, relay, relay worker (`packages/events/src/{outbox,relay}`, `workers/host/src/relay-worker.ts`) | `outbox_events`, publish-side dead letters | publish, drainOnce | producers write it in their own transactions; it appends to Redis streams | two stores without a common transaction, several relays, crashes | nothing lost, order per aggregate whose producers share a lock, the outbox drains |
| Event bus (`bus/redis-streams.ts`) | streams, groups, pending lists | append, readGroup, ack, claimStalled | between relay and consumers | lost replies, redelivery | entries stay pending until acknowledged |
| Dispatcher, guards, retry, dead letters; consumer worker (`packages/events/src/{delivery,dlq}`, `workers/host/src/cascade/consumer-worker.ts`) | `processed_events`, `dead_letter_events`, the in-memory barrier | dispatch, deliver, runCycle, quarantine | reads the bus, calls the handlers in a transaction | at-least-once delivery, two processes, failure inside failure handling | effects once, no unhandled entry acknowledged, one event of an aggregate at a time, every entry in hand finished |
| API idempotency (`services/api/src/idempotency`, `ai/routes.ts`) | one Redis key per client key | begin, complete, release | around a controller that charges or creates | duplicates in flight, streams that outlive their claim, lost answers, crashes | one response per window, replay of one's own request |
| Event replay (`packages/events/src/replay`) | `replay_runs`, and what each executor holds in memory | start, pause, resume, abort, execute | reads the outbox or dead letters, feeds the dispatcher again | status writes that do not look at what they replace, two executors of one run, a crash between deliveries and checkpoint, rows committed late or aged out on the way | a checkpoint has everything before it behind it that is still there, counts match it, redelivery is bounded, an execution returns |
| Organizations, workspaces, suspension cascade (`packages/platform/src/{organizations,workspaces,cascade}`, `workers/host/src/cascade`) | the lifecycle rows, their audit records, the cascade's marks | seven organization and six workspace transitions, provision; suspend and restore workspaces | organization events reach the cascade through the outbox | one transaction per workspace, left half done by a failure; moves by hand in between; statuses recorded and restored | a suspension by hand or an unpaid bill is never undone by a detour; cascades settle |
| Memberships (`packages/platform/src/memberships`) | organization and workspace memberships | invite, accept, change role, revoke; the first admin of a provisioned workspace; the revocation cascade | publishes OrgMembershipRevoked, the cascade consumes it | accept takes no lock, provisioning asks the organization nothing, and the tiers' locks are not each other's | an owner remains in every tier; who left the organization is in no workspace |
| AI jobs and runs (`packages/ai/src`) | job and run rows | transition, dispatchStep, execute | calls providers, authorizes credits | guarded updates, one deadline over retried steps | a terminal job stays terminal; a run ends by its deadline |
| Python pipeline (`backend/app/{pipeline,review}`, `frontend/lib/run.ts`) | run rows, in-memory hubs, worker threads, the approval ledger | stream endpoint, publish, subscribe, pause, approve, reject, make an artifact anew, reap | the browser's EventSource follows a hub; reviews gate the next leg | reconnects with a last id, threads beside the event loop, copies of the ledger kept for a whole leg or request, restarts | one worker at a time, only fresh runs charged, nothing approved unasked, a stream is the log and ends |
| Python credits (`backend/app/credits.py`) | users' credits | charge, grant, adjust, refill | charged by the stream endpoint | an atomic charge beside read-modify-write grants | the ledger sums to the balance |
| Rate limiting, registry, security, observability, billing, settings, content engine, front ends | - | - | - | one-script decisions, pure functions or I/O | not state machines worth a model |

How an action of the system flows through the modelled parts: an orchestrator reserves
credits and charges them (`CreditHolds`, `CreditsTx`); each change publishes an event row
in the same transaction; a relay appends it to a stream (`OutboxRelay`); a worker of a
consumer group handles it once (`ConsumerDelivery`); and a client's retry of the POST that
began it all is answered with the first response (`IdempotentRequests`). An operator may feed the
history to a group again (`Replay`). Who may act at all, and in which workspaces, is decided by
`Memberships` and `SuspensionCascade`, whose events go the same way. The older Python backend shares
none of this; `PipelineRuns` models it by itself.

## 2. Modules

| Module | Models | Kind |
|---|---|---|
| `AmountSums` | sums of amounts over sets, by counting units (no recursion) | pure operators |
| `CreditRows` | the rows of the credits tables and the sums over them | data shared by the next two |
| `CreditHolds` | the hold protocol with each call atomic: what the service promises | abstract specification |
| `CreditsTx` | the same calls, one action per SQL statement, with row locks, unique indexes, the advisory lock, deadlock detection and lost callers | detailed specification over the variables of `CreditHolds`, which it EXTENDS; `ImplementsCreditHolds` is `CreditHolds`' `Spec` |
| `OutboxRelay` | producers, relays, the stream | protocol |
| `ConsumerDelivery` | one group: loops, sweeps, barrier, marker, handlers, dead letters | protocol |
| `IdempotentRequests` | attempts at one storage key, streams among them | protocol |
| `Replay` | replay runs, executors, operators, retention and late producers | protocol |
| `SuspensionCascade` | one organization, its workspaces, their two lifecycles and the cascades between them | protocol |
| `Memberships` | the members of an organization and its workspaces, those provisioned meanwhile too, and the revocation cascade | protocol |
| `EventTail` | what a live stream promises whoever follows it | abstract specification |
| `PipelineRuns` | the runs of a project, their threads, hubs, gates and reviews, and the tabs that follow them | detailed specification; `Stream == INSTANCE EventTail WITH ...`, and `TailsTheLog == Stream!Spec` |
| `MC*` | instances for TLC | model checking |
| `CreditsProofs` (about `CreditHolds` and `CreditsTx`), `OutboxRelayProofs`, `ConsumerDeliveryProofs`, `IdempotentRequestsProofs`, `ReplayProofs`, `MembershipsProofs`, `SuspensionCascadeProofs`, `PipelineRunsProofs` | theorems, about the modules they are named for where nothing else is said | TLAPS |

### Correspondence

**CreditHolds.** `holds[r]`, `ledger[k]` are the rows of run r and of idempotency key k;
`outbox[r]` the hold events about r in order; `due` the holds whose `expires_at` has passed.
`AuthorizeSpend`, `RecordConsumption`, `CloseHold` (settle and release), `ExpireStaleHolds`,
`ReleaseOpenHolds` and `AppendMovement` are the service's operations. A call that
converges on earlier work or throws changes nothing and is a stuttering step. `InsertHeld` is what an
authorization writes; `AuthorizeSpend` adds the comparison with the funds, and `RowsNext` is `Next` without it. Amounts are
naturals: the code's scaled integers (`amount.ts`) are exact, so nothing is rounded.

**CreditsTx.** `tx[c]` is the transaction client c has open: the statement it is at and the
rows it wrote. A statement sees committed rows and its own writes; a write to a row
another transaction holds waits (`Blockers`), then looks at the row again; the expiry sweep
and the suspension select from a snapshot and visit the rows in any order; a circle of
waits loses a victim. `Commit` publishes everything at once. `createdAt` is the start of
the transaction, as `now()` is in PostgreSQL, and `projection` is the `credit_balances` row
as the set of entries it sums. Its watermark is the newest `createdAt` in the set without its
microseconds (`balance.ts:178`): the clock ticks finer than `Millisecond`, and `Watermark` rounds down to it.

**OutboxRelay.** `row[e]` is an outbox row by id, `cycle[r]` the transaction of relay r with
what it claimed, appended, counted and quarantined; `stream` the history of appends, all
streams together (order is only ever asked within an aggregate). An append reported failed
may have landed, and the bus client's own retry may land it twice. `LoseSession` is the
database connection dying under a relay that goes on appending. `Serialized` are the aggregates whose producers
hold a lock they share, so that ids are drawn in the order of the commits; others commit in any order.

**ConsumerDelivery.** `cursor` and `pending` are the group's in Redis; `caller[c]` is the batch a
read loop or a sweep is in; `active[p]` the aggregates leased by the barrier of process p;
`processed` and `dead` the committed markers and dead letters; `done` the handlers' effects in
commit order. Handlers that open a transaction of their own, as the credits handlers do,
are `OwnTransaction`: their effect commits before the marker. `Reclaim` is there for a composition that calls
`claimStalled`; nothing makes it happen.

**IdempotentRequests.** `record` is the Redis key, `attempt[c]` one HTTP request with it. Each
script is one step; a call may fail having run or not. A controller comes to a response, throws, or returns a
stream after its first event; the router then releases the claim, and the attempt is `"streaming"` until
the adapter has pulled the rest (`EndStream`). `InFlight` ends with the claim, `Executing` with the stream.

**Replay.** `run[r]` is the `replay_runs` row: status, checkpoint and the sum of its three counters. Every
statement of `replay-coordinator.ts` is a transaction of its own and so a step: an operator reads
(`CountActive`, `LoadForCommand`) and writes (`InsertRuns`, `WriteCommand`); an executor begins, looks
at the status before each batch, reads a batch by key, delivers or skips event by event, saves when
a checkpoint is due, and at the end saves and sets a status. `SetStatus` looks only at the partial
unique index (`Accepts`), as the UPDATE does. `Appear` is a producer that commits a row whose id was
drawn earlier; `Purge` is retention: a letter is purged, or an outbox row falls below the floor, which every batch
computes anew, so `present` is what a batch may find and `Remaining` what it selects. `promised`, `reached`, `handed` and
`doubled` are history.

**SuspensionCascade.** `org` and `ws[w]` are the statuses; `orgWas` and `wsWas` the `from` of the latest
audit record of an action, which is where a restoring transition looks (`Target`). The two rule
tables are the code's. An UPDATE is guarded by the version read, so a transition is one step and a
lost race is one of the cascade's faults. `marked` is `organizationCascade` in the suspension's audit record.
The latest record is taken to be the last one committed. The code orders records by `created_at`, the clock of the process
that writes (`persistent-writer.ts:83`), and ties by a random id; the model assumes that those clocks agree with the commits.
A worker's cascade lists the workspaces when it takes the event, reads a mark, acts, and goes on after a
failure; `Finish` records the event handled, leaves it pending or, with its attempts used up, dead-letters it. What is
pending is taken again only by `TakeAgain`, a claim nobody has to make.

**Memberships.** `member[t][u]` is user u's row in the organization (tier 0) or a workspace; `tx[c]` the
transaction caller c is in, between its reads and its commit. `Unlocked(t)` is the tier's advisory lock.
`StillAsRead` is the WHERE of the UPDATE: a version in a workspace, the status (and the role, for a change of
role) in the organization. Several processes may serve the cascade, each with a `cascade[x]` of its own. `Provision` inserts a
workspace (one that `Exists` from then on) with its first admin, under the quota's lock and without looking at the
organization's memberships; the cascade lists only workspaces whose provisioning has committed. `orphaned` and `unasked` are
history: workspaces whose last admin a cascade took, and first admins the organization did not have when they were inserted.

**PipelineRuns.** `run[r]` is a row, `hub[r]` the RunHub with the callbacks the loop has yet to run,
`worker[r]` the thread with the ledger as it loaded it, `client[c]` a tab. The endpoint is synchronous
on the loop up to its first await, so `Start`, `Attach`, `Refuse` and `Resync` are single steps, and
`Subscribe` is the first step of the stream. `ChargeInVain` is a start that charged and got no row, because the process
died or the insert failed; `runless` counts those. `Regenerate` and `Regenerated` are a request that makes one artifact anew,
with the ledger as it loaded it (`edit`). A queue holds positions of the buffer, 0 the end.
`EventTail` is refined by hiding runs, workers and queues: a subscription is a place in the log.

### How they compose

`CreditsTx` refines `CreditHolds` (same variables, the rest hidden): all of it but the comparison with the funds
always (a theorem), and that too where no charge in flight decides it (a run). `OutboxRelay` takes over where
a `Commit` of `CreditsTx` ends: its producers are those transactions, and whether they
hold a lock on the aggregate is its constant `Serialized`. `ConsumerDelivery` reads a stream
such as `OutboxRelay` writes. The `credits` handlers close the circle: `ReleaseOpenHolds` is what
they call, and it may be called again, as `ConsumerDelivery` allows. The cascades of
`SuspensionCascade` and `Memberships` take their events as `ConsumerDelivery` gives them: in order within
a process, and perhaps again after a failure, when another process may be further on. These
links are by shared assumption; a composed module is in the plan. `PipelineRuns` refines `EventTail`.

## 3. Runs

| Run | Question | Result |
|---|---|---|
| `credits_serial` | does the hold protocol keep its promises, one call at a time? | holds, 348,686 states |
| `credits_transactions` | do concurrent authorizations for scarce credits, retried charges, closures, sweeps and suspensions amount to some serial order, with alerts on transitions only, and does every transaction end, callers lost included? | holds, 128,138 states |
| `credits_spending` | the same when a charge of an open run competes with an authorization for the last credits | violated: two-statement balance read over-commits |
| `credits_charging` | is a stale balance row always detected? | violated: watermarks order starts, not commits |
| `outbox_relay` | is anything lost, or an aggregate reordered whose producers share a lock, does the outbox drain? | holds, 238,090 states |
| `consumer_delivery` | effects once, nothing acknowledged unhandled, one at a time, is every entry in hand finished? | holds, 211,100 states |
| `consumer_stuck` | does a dead letter always open the barrier? | violated: a failed quarantine keeps the lease |
| `api_idempotency` | one response per window, replayed to its own request only, claims settled? | holds, 148,280 states |
| `replay` | does a checkpoint cover what the run promised and retention left, do counts match it, is redelivery bounded, does an execution return, whatever operators, other executors and crashes do? | holds, 833,040 states |
| `pipeline_runs` | one worker at a time, charges and gates as promised, each stream the hub's log, and each ending, over reconnects and restarts? | holds, 347,911 states |
| `suspension_cascade` | is a suspension by hand or a debt ever undone by a detour, do complete cascades settle, and does each end? | holds, 267,466 states |
| `memberships` | does every tier keep an owner, and has a person removed from the organization no workspace left but one provisioned for them? | holds, 433,548 states |

The three violations are recorded as findings with the lines of the docs, comments or tests
they disagree with. Read the credits results together: the amounts of `credits_transactions` are chosen
so that no charge in flight decides whether an authorization fits, and there the refinement to `CreditHolds`
holds; `credits_spending` shows what happens where one does, and the refinement fails with it.

### Where code and docs differ, without a run

Each was met while modelling. The model follows the code; a property names the exception it makes.

- `contentos-docs/13-event-platform/ordering.md:67` says that transactions touching one aggregate are serialized by row locks.
  `append` (`credits/service.ts:424`) publishes with the organization as aggregate and locks nothing when the keys
  differ, and the hold events, under the same aggregate, lock their holds only; so ids can commit out of order. `InOrder`
  promises order to the aggregates in `Serialized` only. The run has one that is among them and one that is not; the
  theorem is for any.
- `routes.ts:357-359` says that a duplicate arriving while a stream is in flight is refused. The claim is released once the
  controller returns (360), which is after the first event (`controllers.ts:348-400`), while the rest is still to be
  pulled and charged; a duplicate then executes beside it. `ExecutesOnce` speaks of attempts that still hold the claim.
- `replay.md:260` has an out-of-retention request rejected "explicitly rather than silently returning a partial set". A
  rebuild from `'earliest'` computes the retention floor for every batch (`replay-coordinator.ts:386-388`, 438-443), so rows
  that age out while it runs are passed silently and it completes. `CheckpointIsCovered` and `CountsMatchCheckpoint`
  except what retention took.
- `workspace.md:138` has a workspace membership require an active organization membership, and removal revoke them all "in one
  transaction". The cascade takes one per workspace, and provisioning inserts an active admin without asking whether the
  organization has that user (`workspaces/service.ts:509-514`), perhaps committing after the cascade listed the
  workspaces. `NoStrayAccess` excludes those first admins (`unasked`).
- `balance.ts:200` counts three statements on the hot path. `iso` (178) drops the watermark's microseconds, so unless the
  newest entry falls on a whole millisecond the row looks stale and the ledger is aggregated each time: slow, not
  wrong. `Watermark` has it.
- No composition root calls `claimStalled`, so what `ordering.md` and `consumer-worker.ts:195` leave to redelivery may
  stay pending for ever. No property relies on it; the one run that does (`consumer_stuck`) does so to show that it would
  not help.
- `ordering.md:99` has later events of an aggregate wait for one that is being retried; the dispatcher opens the
  barrier with every retryable failure (`dispatcher.ts:218`).
- `replay-coordinator.ts:641` calls an abort terminal; `execute` writes `running` and `completed`
  without looking (248), so an abort can be overtaken. Only what the coverage of a checkpoint needs is claimed.
- `declarations.ts` says one group makes suspending and reactivating out of order unrepresentable. A cascade that
  failed may be claimed again when another process has gone on; `CascadeSettles` excludes it (`overtaken`).
- The suspension cascade reads a mark and acts by another statement; `NothingIsPardoned` excludes what is moved by hand
  in between (`raced`).
- `router.py:204-206` answers a lost hub with a `resync` event, for which `run.ts` has no listener: the tab
  connects again for ever. `EveryStreamEnds` excludes it (`HubIsGone`).
- A worker writes the approval ledger from the copy it loaded (`pipeline/service.py:337`), and so does a request that makes an
  artifact anew (`research/router.py:124`); what reviewers wrote meanwhile is lost. `ApprovedIsSignedOff` excludes it
  (`torn`).
- A run whose `_finish` failed stays `running`, and no later start is possible until a restart reaps it (`hub.py:152`).
  `EveryStreamEnds` says that the streams end, not that a new run may begin.
- `guard.ts:195-197` expects a retry to execute again after a lost completion; the claim stays for its window,
  which is why `ExecutesOnce` holds.
- `persistent-writer.ts` says that its read of the audit chain's head serializes on the row lock; `HEAD_SQL` takes none.

### Bounds, and why they are enough

- Credits: two runs in two workspaces, three keys (one key can be shared by two calls, and
  by different movements), amounts up to 4. Two runs are what an over-commitment or a
  selective suspension needs. `MaxTx` (4 transactions) lets two clients overlap and
  retry; `MaxCrashes` (1) loses a caller at any statement. The opening 5 credits cover either run and not
  both, until more are granted; `LowThreshold` 4 makes charges cross the threshold. A `Millisecond` is two ticks
  of the clock, so that transactions begin within one and at its boundary.
- Outbox: three events of two aggregates, one with a predecessor and `Serialized`, one not; batches of two, two
  relays. `MaxPublishAttempts` 2 separates a counted refusal from the last one;
  `MaxCopies` 1 bounds how often an event may land beyond need (each append may still land
  after an earlier copy, so duplicates occur); `MaxFaults` 1.
- Consumer: two handled events of one aggregate, one whose handler has its own transaction,
  and a third of a foreign type; batches of up to two; `MaxAttempts` 2, because reclaimed
  entries are delivered as attempt 2 and never more; `MaxFaults` 2, because a failed
  quarantine needs a failed handler first. The fault kinds are read, handler, commit,
  quarantine, ack and crash.
- Idempotency: three attempts and a foreign one, two faults: enough for a failure, a
  retry refused or admitted, and another after expiry. Attempts of the same request
  are symmetric.
- Replay: two runs of one group, one of three outbox rows (one committed late, one refused) and one of a dead letter; two
  executors, which may drive the same run; batches of two with a checkpoint after every event, so
  that both fall inside and between batches; two commands and one fault. `MaxConcurrentRuns` 2. The last row may fall
  below the retention floor; a letter is purged in the theorems only.
- Pipeline: two stages with a gate between, two rows (a fresh run and a leg), two tabs, of which one resumes; one hub kept,
  so that eviction happens; one review (an approval, a rejection or an artifact made anew), one fault: a drop, a restart,
  a row left unfinished or not written. Any stage may raise besides, so that a tab which lost its connection may be
  given a later run's shorter log.
- Suspension cascade: two workspaces, of which one is yet to be provisioned; two workers; five commands, which is a
  suspension, an archive or closure around it, its reactivation and the detour back; one fault.
- Memberships: a founder and a member, two workspaces and a third to be provisioned, two callers and two processes that serve
  the cascade; five accepted requests bring the member into a workspace and out of the organization while an invitation or a
  provisioning overlaps, or make two owners demote each other; one fault. Callers are symmetric, and so are the processes.

Deadlock is checked in the credits transactions runs (`Finished` is the only legal stop). The
others may really stop: events, attempts, commands and keys are finitely many.

### Fairness

- `CreditsTx`: weak fairness of each client's statements. PostgreSQL runs a statement that
  is not waiting; nobody has to call the service, and a caller may be lost.
- `OutboxRelay`: weak fairness of each relay's cycle, since `relay-worker.ts` loops for ever and
  survives a throwing drain. Producers need not publish, and the bus may refuse always.
- `ConsumerDelivery`: weak fairness of each loop's read and of each delivery, and none of reclaiming: `claimStalled`
  exists and is tested, but no composition root calls it. So `EveryEntryIsFinished` is about an entry in hand, if
  nothing fails from then on and the barrier lets it through; what a failure left pending may stay there. The violation
  `consumer_stuck` alone is checked under `SweptSpec`, which reclaims fairly: even then an entry stays pending.
- `Replay`: weak fairness of each executor. Once `execute` is called it runs to its return; nobody has to
  call it, and operators need not act. The events are finitely many: a rebuild to the end of an outbox that grows as fast
  as it is read need not return, and `EveryExecutionReturns` does not say so.
- `SuspensionCascade`: weak fairness of each worker's cascade, since the group's loop is served for ever. Taking a failed
  event again is no part of it: `EveryCascadeEnds` says that no event stays new or taken, done or not.
- `PipelineRuns`: weak fairness of each tab's requests and stream, and of the loop's callbacks and the threads taken
  together. Nobody has to open a tab or to review.
- `Memberships`: none; it states safety only.

## 4. Proofs

`CreditsProofs` proves of `CreditHolds`, for any runs, workspaces, keys, amounts and opening ledger:

| Theorem | States |
|---|---|
| `TypeCorrect` | `Spec => []TypeOK` |
| `ConsumptionIsExact` | `Spec => []ConsumedIsCharged` |
| `NoOverCommitment` | `Spec => []NeverOverCommitted` |
| `EventsAreExact` | `Spec => []EventsTellTheHold` |
| `BooksStand` | `Spec => NothingIsRewritten`, from `ClosureIsFinal` and `LedgerOnlyGrows` |

The assumptions are the constants' (`AmountsAssumption` and its neighbours in `CreditRows`: finite
sets, natural amounts, an opening ledger of entries in the books' shape); TLC evaluates them in every credits run.

`NeverOverCommitted` is not inductive: a charge could break it in a state whose ledger has debits nobody
reserved. The inductive invariant is

    Safe == TypeOK /\ HoldShape /\ LedgerShape /\ ConsumedIsCharged /\ Covered

`Covered` says that what was charged plus what is held is at most what was credited. It is the
invariant with the unreserved debits cancelled on both sides, and each step preserves it:
an authorization is checked against it, a charge moves its amount from held to charged (which
needs `ConsumedIsCharged`, so that the hold has that much left), and a closure only frees.
`LedgerShape` says that consumption rows are debits of a run; `HoldShape` that a run without a
hold has consumed nothing, and that no hold consumes past its amount. `KeptStep` has one lemma per
action; `EventsStep` does the same for the events, on top of `TypeOK` alone. Only `Covered` needs the
comparison with the funds, so all but `NoOverCommitment` is first proved of `RowsSpec`, which leaves it out.

Of `CreditsTx` it proves, for any callers, requests and bounds on transactions and lost callers besides:

| Theorem | States |
|---|---|
| `TransactionsTyped` | `TxSpec => []TxTypeOK` |
| `TransactionsImplementTheRows` | `TxSpec => RowsSpec`: a refinement, step by step |
| `CommittedConsumptionIsExact` | `TxSpec => []ConsumedIsCharged` |
| `CommittedEventsAreExact` | `TxSpec => []EventsTellTheHold` |
| `CommittedBooksStand` | `TxSpec => NothingIsRewritten` |
| `AlertsFollowTheThreshold` | `TxSpec => AlertOnTransition` |

The assumptions added are `RequestsAssumption` (callers ask for what the operations take) and `BoundsAssumption`.
The invariant, `TxSafe`, is an account of every open transaction in terms of what is committed: each row it
wrote is the committed row closed as its request closes rows (`HasClosed`), a hold where there is none
(`HasInserted`), the row as it stands (`HasLocked`), or the row advanced by a charge that still fits it
(`HasCharged`); the entry it inserted is under a key the ledger does not have (`EntryTrue`); the alert it carries is
told from the threshold recorded now (`AlertTrue`). That stays true while others commit because no two
transactions hold the same row, entry or balance row (`Apart`), which every write has to wait for (`Blockers`), and an
account depends on nothing else (`Locked`). So when a transaction commits, what it decided still applies, and
its commit is an `ExpireStaleHolds`, a `ReleaseOpenHolds`, a `CloseHold`, an `InsertHeld`, a `RecordConsumption`, an
`AppendMovement` or a stutter (`CommitAdvances`); no other statement touches a committed row. `LockHold` is
where this rests on `FOR UPDATE`: read by a plain SELECT, the row could change before the charge.

The comparison with the funds is left out because it does not refine: `credits_spending` is the
counterexample. `RowsSpec` is what the rows and the events promise without it. `TxSafe` and `RowsSpec` were
model-checked on the three instances of `CreditsTx` before they were proved.

The facts about sums come first in the module. The amounts are unary, `Total(S, f)` counting the
pairs of a member of S and a unit of its amount, so the facts needed (`TotalSplit`,
`TotalUpdate`, `TotalMonotone`) follow from the library's cardinality theorems without
recursion; they are lemmas, about any amounts. `MCCreditHolds` assumes, and TLC evaluates, that `Total` is the usual sum.

`OutboxRelayProofs` proves, for any events, aggregates, relays, batch size and limits:

| Theorem | States |
|---|---|
| `TypeCorrect` | `Spec => []TypeOK` |
| `DeliversOrBuries` | `Spec => []NothingIsLost` |
| `OrderIsKept` | `Spec => []InOrder` |

`NothingIsLost` needs `CyclesAreWhole` (what a cycle will mark has landed or is quarantined in it),
and the bound on attempts in `TypeOK` needs `ClaimsAreExclusive`: the row locks keep a second
relay from counting for a row whose count the first has read. `OrderIsKept` rests on `Settled`: if a relay has
an event in hand or has appended it, no earlier event of its aggregate is still unsettled. Those
that were published are on the stream already or dead letters (`NothingIsLost`), so what lands new
lands after them. `Settled` and `InOrder` speak of the aggregates in `Serialized`, any set of them; section 3 says which
aggregate of the code is not among them.

`ConsumerDeliveryProofs` proves, for any stream, handlers, processes, loops, sweeps and failures:

| Theorem | States |
|---|---|
| `TypeCorrect` | `Spec => []TypeOK` |
| `EffectsHappenOnce` | `Spec => []EffectsOnce` |
| `NoEventIsLost` | `Spec => []AckedIsAccountedFor` |
| `BarrierExcludes` | `Spec => []OneAtATime` |

The invariant has four parts beside the shapes. `Barrier`: whoever is past the barrier holds the lease, alone
in its process. `Transactions`: an open transaction is the only one of its event, and the event's
marker is not there, which is what the unique key and its waiting insert give. `Effects`: markers and
effects go together, but for the handlers that commit by themselves. `Accounted`: a caller about to acknowledge has its
event done or buried.

`IdempotentRequestsProofs` proves, for any attempts and any requests they make:

| Theorem | States |
|---|---|
| `TypeCorrect` | `Spec => []TypeOK` |
| `NoDoubleExecution` | `Spec => []ExecutesOnce` |
| `ReplayIsOriginal` | `Spec => []ReplaysTheOriginal` |
| `NoStrandedClaim` | `Spec => []ClaimsAreSettled` |

`ExecutesOnce` says nothing of the record, so it is not inductive. Two parts tie it there:
an attempt in flight holds the key (`HoldsTheKey`), so nobody else's script can touch
the record; and a response produced in this window still occupies it (`KeepsTheKey`), whether or
not it could be stored. The second is why a lost completion costs the client its retries for the
window, and not a second charge. A stream leaves the first part with its claim, which is why `ExecutesOnce` stops
there too: it is about `InFlight` and not about `Executing`. For `ReplaysTheOriginal`, a completed record is by an attempt of
this window with a response, since expiry frees the key. `TypeOK`
bounds the windows: the claim of a new attempt opens each, so the windows gone by and a held key are at
most the attempts begun (`Bounds`).

`ReplayProofs` proves, for any events, runs, scopes, groups, executors, operators and bounds:

| Theorem | States |
|---|---|
| `TypeCorrect` | `Spec => []TypeOK` |
| `PromiseKept` | `Spec => []CheckpointIsCovered` |
| `CountedOnce` | `Spec => []CountsMatchCheckpoint` |
| `FewRedeliveries` | `Spec => []RedeliveryIsBounded` |

A row says nothing of the executors that will overwrite it, so none of these is inductive. `Safe` says of every
cursor what it says of every checkpoint: cursor and count *fit* (`Fits`: what was promised up to here is reached, and the
count lies between the two), and that is what a save carries over, from however slow an executor. A cursor keeps fitting
because its batch is what comes next of all that was promised (`NextInLine`), which a batch stays although rows appear
late and others are purged: what retention takes is owed no more, so `Fits` and the batch speak of what is promised and
still present. An empty batch then means that nothing promised is left (`NothingIsLeft`), and
so `"completed"` may be written, at any time later. For redelivery, the events an executor has moved over
unsaved are no more than it has counted since the last checkpoint, and fewer than the interval while it is reading
(`OnTime`); an event handed over beyond the checkpoint is among the first `CheckpointInterval` that are owed
(`Redelivered`), which stays true when the memory of who handed it over is lost. It needs that nobody else
drives the run (`Alone`): a second executor may set the checkpoint back.

Three assumptions on the constants are the code's: a request names dead letters or a range of outbox rows,
never both (`replay-coordinator.ts:409-449` branches on it), a row committed late is an outbox row, and it is too young to
age out. With a
request of both kinds, a batch of purged letters would end the run before its rows were read.

`MembershipsProofs` proves, for any users, workspaces, callers and faults:

| Theorem | States |
|---|---|
| `TypeCorrect` | `Spec => []TypeOK` |
| `AnOwnerRemains` | `Spec => []OwnersRemain` |
| `RemovalReachesEveryWorkspace` | `Spec => []NoStrayAccess` |

`assertNotLastOwner` counts owners by a read, and writes later. Three parts of the invariant say why that suffices.
A tier's lock has one holder (`Exclusive`). Beside a holder only an acceptance writes (and the clock, which lapses
invitations), which takes no lock and touches no active row, so a row the holder read as active is still the one it read
(`Held`), and the other owner it counted on stays one (`OthersOwn`). `NoStrayAccess` needs to follow a membership through
a cascade whose list was read earlier: a workspace membership, or an invitation about to be written, of somebody outside
the organization has more revocations pending than there are cascades that have been through that workspace (`Followed`,
`Passed`). An invitation needs an active member of the organization when it is checked, under the workspace's lock; so the
revocation that makes it stray is published after that check, and its cascade, which takes the same lock, comes after the
write. A first admin is asked about by nobody: the invariant knows them as `unasked` from the provisioning's commit on,
until the organization has accepted them or their membership is revoked.

`SuspensionCascadeProofs` proves, for any workspaces, quota, processes, commands and faults:

| Theorem | States |
|---|---|
| `TypeCorrect` | `Spec => []TypeOK` |
| `NoPardon` | `Spec => []NothingIsPardoned` |
| `CascadesConverge` | `Spec => []CascadeSettles` |

A restoring transition looks in the audit log for what its opposite recorded, so a ban survives a detour only if the
record is where the way back will look: `DebtIsKept` and `BanIsKept` say it is, in every status, two detours deep
(archived, then pending deletion). The cascade is the danger to a ban, and `MarkHolds` is why it is none: the mark it
has read is still there when it acts, unless somebody moved the workspace in between (`raced`). `CascadeSettles` is a
statement about the end; the invariant says who is bringing it about. Without overtaking the last event has one
worker (`OneTakes`, `InOrder`), and what is still to be changed is on its list, or it has failed, and the event is not
done (`Pursued`); the kind of the last event agrees with the status, through a pending closure as well (`LastKind`).

`PipelineRunsProofs` proves, for any runs, stages, gates, tabs, reviews and faults:

| Theorem | States |
|---|---|
| `TypeCorrect` | `Spec => []TypeOK` |
| `NoDuplicateRun` | `Spec => []OneWorkerAtATime` |
| `ChargedOnce` | `Spec => []ChargesMatchRuns` |
| `NoForgedApproval` | `Spec => []ApprovedIsSignedOff` |
| `StreamsTailTheLog` | `Spec => TailsTheLog`, the refinement of `EventTail` |

The invariant is `Safe`. `Rows`: a row that was never used has neither hub nor worker, and a worker at the artifacts has a
running row, so that none is there when `Starts` finds no row running and a second one is inserted. `Ends`: the end mark
is the last thing a hub hears of, and comes from a worker that is gone, so nothing is published after it.
`Tails`: what waits in a tab's queue is exactly the rest of its hub's log, followed by the end mark once the hub
is done. That is why the backlog and the live events of a subscription join without gap or repetition, and it makes
the queue a place in the log, which is all `EventTail` knows of a tab. The refinement then goes step by step: a
callback writes or seals the log (`Publish`, `CloseHub`), `Subscribe` joins, `Receive` reads, `ReceiveEnd` ends;
whatever drops a connection, a death of the process among them, is `EventTail`'s `Leave`; workers, gates and reviews
stutter. `ApprovedIsSignedOff` and `ChargesMatchRuns` are inductive beside `Rows` without further parts; the second is an
equation, in which only `ChargeInVain` counts a charge without a run.

**Only model-checked.** `ImplementsCreditHolds`, the refinement with the comparison with the funds included, because
it holds of the requests of `credits_transactions` and not of all (the rest of it is proved, above); and all liveness
(`EveryTransactionEnds`, `OutboxDrains`, `EveryEntryIsFinished`, `EveryExecutionReturns`, `EveryStreamEnds`,
`EveryCascadeEnds`). Liveness under fairness and ENABLED are out of the prover's reach, as are
induction over data and RECURSIVE operators; the modules use none.

## 5. Not modelled, and why

- Within the credits: the reconcile report, ledger queries, pricing and grant schedules
  (reads and arithmetic); `aggregate.ts`, `availability.ts`, `consumption.ts`, `reservation.ts` and
  `settlement.ts`, pure restatements nothing calls.
- Stream trimming and back-pressure: `append` throws on a full stream and rolls the relay's cycle
  back uncounted; the repository has no composition root that says what happens next.
- Tenant scope refusals (composition makes them unreachable), retry budgets (never configured), shutdown.
- An idempotency record the store cannot parse (nothing writes one), and a request that
  outlives its 24-hour key.
- Replay: estimation, rate limiting, the audit records and the operator's queries; the dead-letter operator's
  resolve and redrive.
- Memberships: operators and other actors without a membership, who pass `assertMayGrant` by their platform role; the
  quota and the organization's status that a provisioning checks first (`SuspensionCascade` has them);
  expiry sweeps of invitations (there are none: an expired row is recognized when it is read).
- Organizations: provisioning (the initial state) and settings. Restoring an archived workspace does not look at the
  quota, in the code as in the model, so no property claims that the quota bounds the workspaces.
- Pipeline: the batch endpoint (`POST /run`), which runs in its request; the contents of a stage; several server
  processes, whose reapers would take each other's runs (`AUDIT.md:557-563`, and `render.yaml:32` starts one).
- The Python credits beyond the charge: `_record` reads, adds and writes, so concurrent grants can lose an update.
- The components of the last row of the table in section 1, and, until the plan reaches
  them, AI jobs and runs.

## 6. Plan

1. *Done*: `CreditHolds`, `CreditsTx`, `OutboxRelay`, `ConsumerDelivery`, `IdempotentRequests`, and the proofs of every
   safety property of theirs, and of what the SQL of the credits implements.
2. *Done*: `Replay`, `SuspensionCascade` and `Memberships`, `EventTail` and `PipelineRuns`, with the proofs of every
   safety property of theirs and of the refinement.
3. `JobTransitions`: the guarded update of AI jobs by several workers, and the run deadline of the orchestrator.
4. `PythonCredits`: an atomic charge beside read-modify-write grants.
5. Abstract specifications to refine: an at-most-once effect log for `ConsumerDelivery`, a FIFO queue per aggregate for
   `OutboxRelay` and a write-once response register for `IdempotentRequests`; and a composition of
   relay and consumer over one stream.

Runs stay small: two actors of each kind, two contended objects, one or two faults. Theorems worth
having beyond those there are: `ImplementsCreditHolds` for requests in which nothing is charged while an
authorization decides, and the refinement of the abstract specifications of step 5, step by step.
