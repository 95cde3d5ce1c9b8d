# Delego backend: TLA+ specifications

This directory holds TLA+ models of the parts of the Delego backend whose
correctness depends on the order in which processes, timers, retries and crashes
happen. Each module is written from the TypeScript source; `PROJECT.json` gives,
for every definition, the lines it stands for. Paths below are relative to
`apps/backend/orchestrator` unless they start at the root of the repository.

## 1. Inventory

Delego is a set of Node.js services (gateway, orchestrator, wallet, payments,
notifications, CDC, and some operational ones) over PostgreSQL, Redis, BullMQ and
Soroban contracts. Within one process everything runs on an event loop: code
between two `await`s is atomic, and every `await` is a point where another
call chain of the same process, or another process, may run.

| Component | State | Operations | Interacts with | What makes it hard |
|---|---|---|---|---|
| Saga coordinator (`src/saga`) | one row per saga: status, current step, completed steps, version, claim lease, deadline | run, resume, recoverAll, recoverOne, sweeper, retry timer; advance, compensate, claimStep | store (optimistic version), lock manager, step actions over HTTP | overlapping drivers of one saga, leases that lapse during a step, crash between effect and record, deadline racing progress |
| Lock manager (`src/locks`, `packages/cache/src/lock.ts`) | Redis keys with owner and TTL; keys a process renews, keys it lost | acquire, release, renew, releaseAll, wasStolen | coordinator, shutdown | re-entrant per process, renewal timeouts, keys that outlive a process |
| Service event outbox and relay (`src/events`, `src/pubsub`) | rows with status, attempts and due time; per-relay batch | insert, claim, publish, mark, record failure, stop | every producer of events, Redis pub/sub | several relays, crash between publish and mark, attempts at the limit |
| Checkout idempotency guard (`src/idempotency`) | a lease and a record per fingerprint | pre-handler, captured response, release | POST checkout route, Redis | lease that runs out under a slow handler, fail-open, key reuse |
| Purchase workflow (`workflows/purchase`, `src/index.ts`) | `purchase_workflows` row, its outbox events | create, transition, timeout, reconcile | outbox, checkout timeout, escrow status on chain | read, then a transaction that writes without a version test; a reconciler that acts on an older listing |
| Checkout workflow and inventory (`workflows/checkout`, `src/inventory`, `apps/backend/payments/src/inventory`) | stock levels, reservation rows, row locks, redlocks | reserve, release, checkoutWorkflow; reserve and release of payments | saga coordinator, two services on the same tables | release after a run that only backed off, unique reservation rows, lock order of two services |
| Dead letter queue, timeouts (`src/dlq`, `workflows/timeout.ts`) | DLQ rows, circuit breaker | record, replay, discard | BullMQ | replay of what was already done, breaker half-open |
| Purchase compensation (`workflows/purchase/compensation.ts`) | outcome per step | runCompensation | payments, merchant | partial failure |
| Workflow state machine, event store (`state`, `src/events/eventStore.ts`) | snapshot, event log | transition, replay | database | snapshot against log |
| Dual control (`src/dualControl`) | requests with approvals and expiry | request, approve, reject, expire | operators | racing approvers |
| Message deduplication (`src/messaging`) | processed message ids | process once | Redis pub/sub | crash between effect and mark |
| Escrow coordinator (`apps/backend/payments/src/escrowCoordinator`) | a `payment_records` row per order, the escrow on chain | fund, release, refund, dispute, partial release, partial refund | wallet service, Soroban contract, Redis events | lost answers that are retried, overlapping requests, a row written on amounts read before the submission |
| Dispute mediation (`apps/backend/payments/src/disputes`) | a `disputes` row: status and decided amounts | open, submit evidence, assign, respond, decide, execute, retry | escrow coordinator (one call per leg) | handlers that read, await and write by id; an execution that fails between its legs and is retried |
| Subscriptions (`apps/backend/payments/src/subscriptions`) | a `subscriptions` row, a charge per period | create, renew, pause, resume, cancel, billing pass, cancellation pass | escrow contract (deposit, release), scheduler interval, HTTP | passes that overlap each other and forced renewals; a failure after the deposit; writes of a status read before an await |
| Other payments (settlement, auto-release, payouts) | settlement batches, release schedules | settle, auto-release | escrow coordinator | auto-release racing a dispute |
| Wallet transaction queue (`apps/backend/wallet/src/queue`) | BullMQ jobs, cached sequence number, reserved blocks and their cursors in Redis, spend counter | enqueue, executeTxJob, reserveSequenceBlock, reset | BullMQ, Redis, Horizon, Soroban RPC | envelopes whose fate is unknown and that are submitted again, stalled jobs, several workers on one account |
| Wallet, the rest | batches, multisig, recovery, kill switch, session keys | approve, execute, revoke | Stellar RPC | approval quorums, time locks |
| Notifications (`apps/backend/notifications`) | delivery rows, retry queue | send, retry, give up | providers | duplicate and lost deliveries |
| CDC (`apps/backend/cdc`) | cursor, event rows | poll, replay, roll back | Soroban RPC | gaps and reorganisations |
| Gateway, analytics, fraud detection, reconciliation, cert manager, DB vacuum, agents, SDK | mostly read models and request handling | – | – | see section 8 |

Correctness, per modelled component:

* **Saga**: a save never overwrites a change its writer has not seen; no two tasks
  act on one claim; the record lists a prefix of the steps, in order, and only what
  happened; compensation runs backwards and completely; a saga that turned around
  never moves forward; while a claim's lease lasts nobody else runs its step; until a
  deadline passes a finished saga stays finished; a started one is eventually finished.
* **Outbox**: a published row reached Redis; a row is handled by one relay at a
  time; attempts stop at the limit; every row gets an outcome.
* **Idempotency**: every answer comes from an execution of the request it answers;
  one execution at a time; a retry after an answer is replayed; one response.
* **Escrow and dispute**: one deposit per order; whoever is told "funded" has a deposit;
  the record's amounts never run ahead of the chain; a settled record means an empty
  escrow; a resolved dispute has been paid, the buyer first, each share once.
* **Purchase workflow**: the order is in the state its newest event announces; the events
  tell one run of the state machine.
* **Inventory**: units and reservation rows change together, an order at a time; the
  stock columns are the sum of the reservation rows; stock follows the
  saga; transactions do not wait for each other in a circle; every call returns.
* **Transaction queue**: a job is executed once and its caller is told the truth; a
  completed job is on the ledger; while no reservation lock lapses, reserved blocks do not
  overlap; the spend counter follows what was executed; two jobs that race for sequence
  numbers do not use up their attempts as long as there are enough of them.
* **Subscriptions**: periods served are paid; a period is billed once; a cancellation is
  final, and one announced for the end of the period is carried out.

`PROJECT.json` lists the hazards behind these properties at the line where each
one bites.

## 2. Modules

| Module | Models | Extends / uses |
|---|---|---|
| `RedisLock` | the Lua scripts of `packages/cache/src/lock.ts` as operators on a lock table | – |
| `SagaCoordinator` | one saga: `src/saga/coordinator.ts`, `postgres-store.ts`, `memory-store.ts`, `src/locks/manager.ts`, the shutdown of `src/index.ts` | composes `RedisLock`, implements `SagaOutcome` |
| `SagaOutcome` | what a saga promises, without saying who drives it | – |
| `SagaCoordinatorProofs` | inductive invariant, theorems and the refinement | `SagaCoordinator` |
| `ServiceEventOutbox` | `src/events/outboxRelay.ts`, `postgres-service-event-outbox.ts`, `src/pubsub/publisher.ts` | – |
| `ServiceEventOutboxProofs` | inductive invariant and theorems | `ServiceEventOutbox` |
| `CheckoutIdempotency` | `src/idempotency/preHandler.ts`, `store.ts` for one fingerprint | – |
| `CheckoutIdempotencyProofs` | inductive invariant and theorems | `CheckoutIdempotency` |
| `PurchaseWorkflow` | `workflows/purchase`, the checkout timeout and `reconcileWorkflows()` for one order | extends and composes `ServiceEventOutbox` |
| `PurchaseWorkflowProofs` | inductive invariant and theorems | `PurchaseWorkflow`, `ServiceEventOutboxProofs` |
| `CheckoutInventory` | `workflows/checkout`, `src/inventory/reservation.ts`, `apps/backend/payments/src/inventory` | one `SagaOutcome` per order, implements `StockLedger` |
| `StockLedger` | what the inventory tables promise, without transactions | – |
| `CheckoutInventoryProofs` | lemmas about sums, inductive invariants, theorems and the refinement | `CheckoutInventory` |
| `EscrowCoordinator` | `apps/backend/payments/src/escrowCoordinator` for one order, the contract as an external | – |
| `DisputeResolution` | `apps/backend/payments/src/disputes` for one dispute of that escrow | extends and composes `EscrowCoordinator` |
| `DisputeResolutionProofs` | inductive invariant and theorems | `DisputeResolution` |
| `SubscriptionBilling` | `apps/backend/payments/src/subscriptions` for one subscription | – |
| `SubscriptionBillingProofs` | inductive invariants and theorems | `SubscriptionBilling` |
| `TransactionQueue` | `apps/backend/wallet/src/queue/txQueue.ts` for one account | – |
| `TransactionQueueProofs` | inductive invariants and theorems | `TransactionQueue` |
| `MCSaga`, `MCOutbox`, `MCPurchase`, `MCIdempotency`, `MCInventory`, `MCDispute`, `MCSubscription`, `MCTransactionQueue` | constants for TLC | the module they check |

Operators whose name ends in `_Something` and whose comment starts with *Mutant* are
not part of the specifications: each is a plausible bug of the definition that
follows it, and TLC finds the property that `PROJECT.json` pairs it with violated
when it takes that definition's place.

### 2.1 SagaCoordinator

State and its counterpart in the code:

| Variable | Code |
|---|---|
| `saga` | the `saga_instances` row (`SagaRecord`); `claim` is the pair of lease owner and lease end of the current step, named by the version that stored it |
| `lapsedTo`, `overdue` | the clock, compared with claim leases and with `expiresAt` |
| `locks`, `renewing`, `stolenKeys` | Redis; the manager's renewal timers; its set of stolen keys |
| `task` | the local variables and program counter of one call chain: HTTP handler, startup recovery, sweeper tick or retry timer |
| `timers` | timers armed by `scheduleRetryIfLeased()` |
| `booting` | processes whose startup `recoverAll()` is to come |
| `executed`, `undone` | effects outside the database |
| `budget` | bound on external events, per kind |

Every action is one stretch of code between awaits. `Run`, `CallResume`, `Boot`,
`Sweep` and `FireRetry` start a call chain; `RecoverOne`, `RecoverResume`,
`SaveTimedOut` are `recoverOne()`; `AcquireWorkflow` and `Unwind` are
`withWorkflowLock()`; `ClaimStep` and `SaveClaim` are `claimStep()`; `Execute`,
`SaveFailed`, `Persist`, `ReleaseStep`, `Finish` are `advance()`; `Compensate`,
`SaveUndoFailed` and, in mode "compensate", the last three are `compensate()`;
`Reschedule` is `scheduleRetryIfLeased()`; `Rejected` is a database or Redis call
that throws where no row is written. The environment is `Lapse`, `PassDeadline`,
`ExpireLock`, `LoseLock`, `RenewFails`, `Crash` and `ReleaseAll`.

Abstractions: one saga at a time (sagas share nothing but the listing). Payloads,
results and audit rows are left out; the insert of an audit row can still fail,
and then ends the call chain as it does in the code. Time is reduced to order: all
claim leases have the same length, so they lapse in the order in which they were
taken. An action or compensation that throws may have had its effect (the payments
call has a client-side timeout). The retry loop inside `executeWithRetry()` is a disjunct of
`Execute`: a retryable failure, with or without an effect, runs the action again under the same claim;
how many attempts a step's policy allows is left open and bounded by the budget of failures.
A save may be refused, or be committed and its answer lost (`SaveFault`); either way the
coordinator sees an error. A lock release that rejects is modelled as having
taken effect. Waiting lock acquisition, hierarchies and fences are not used by the
coordinator. The status `failed` exists in the type and in the terminal test but no
code writes it. With `UseLocks = FALSE` (the default when Redis locks are not
configured) the lock operators do nothing; this case is covered by the proofs, none of
which assumes locks.

`SagaOutcome` is the same saga as its caller may see it: steps are recorded one by one,
undone in reverse after a turn, and the end is final. The mapping takes the status of the
stored record and the positions of the steps that stand; a record that is saved by an
older task, a step recorded twice or a finished saga that changes would not be a step of it. The
coordinator implements it as long as no deadline passes (section 4 says what
happens then), and `CheckoutInventory` uses it in place of the coordinator.

### 2.2 ServiceEventOutbox

The store is Postgres, which production installs at start-up (`src/index.ts`). `rows` is the
table, `relay` the batch and position of each poller, `delivered` what Redis received.
`Claim` and `Commit` are the two ends of the claiming transaction; between them row locks
hide the rows from other claims (`Locked`) and block updates of them. Afterwards nothing
shows that a worker has them. `Publish` is the call with its inner retries; a reported failure
may still have delivered. `Mark` and `RecordFailure` are the two writes of a row's outcome, by
id and whatever the row says by then; each may throw, committed or not. `Due` ends a
back-off, `Crash` loses a worker. `stop()` drains the cycle of its worker, and the process that
takes its place polls in its turn: for the table that is a poll that comes late. Back-off lengths and
jitter are a Boolean `due`. The in-memory store is a double for tests, with claims of its own,
and is left out; so are rows inserted with a status other than pending, which no relay
looks at.

### 2.3 CheckoutIdempotency

The requests of one fingerprint. `lease` and `record` are the two Redis keys,
`pc` the position of each request in the pre-handler, `answer` the execution whose
response its client was sent, `executed` the requests whose handler produced a
response below 500. `outlived` and `seen` are history variables. Polling while
another request holds the lease is the loop `acquire -> read -> acquire`; its
deadline ends it with 409. `FailOpen` is the catch block that runs the handler
unguarded; a command that throws may have been carried out. The 24-hour TTL of a
completed record lies beyond the model's horizon; the lease's TTL and the
in-progress marker's TTL are actions that may happen at any time.

### 2.4 EscrowCoordinator and DisputeResolution

Paths in this section are relative to `apps/backend/payments/src`.

| Variable | Code |
|---|---|
| `record` | the `payment_records` row of the order; `known` stands for a set `escrow_id`, `tx` for the transaction-hash columns that are set |
| `chain` | the escrow contract: status, balance, deposits made, amounts paid to either side |
| `call` | the local state of one invocation of the coordinator; `released` and `refunded` are the amounts of the row it read first |
| `dispute` | the `disputes` row: status and decided amounts |
| `handler` | the local state of a dispute route handler; it calls the coordinator in its own slot |
| `requests`, `decisions`, `budget` | bounds; `decisions` also says how often the dispute was decided |
| `paid` | history: what the legs of decisions moved on chain |

`Begin` is the head of every operation: the read of the row, the answer to a
duplicate (`ToFundResult`, `AlreadyDone`), the balance check of the partial ones.
`CreateRecord` is the unique insert, `Submit` one attempt of
`submitContractInvocationWithRetry()`, `RecordSuccess` the update and its event,
`RecordFailure` the catch block or the branch for a transaction that failed on chain.
`RejectedEarly` covers the calls before the submission. In the dispute,
`ReadStage`/`WriteStage` are the two halves of `submitEvidence()`, `assignMediator()`
and `submitMerchantResponse()`; `SubmitDecision`, `ReadBalance`, `WriteDecision` are
`submitMediationDecision()`; `ExecuteDecision`, `BuyerLeg`, `SellerLeg`,
`LegAnswered`, `ResolveDispute` are `executeDecision()`, entered from a decision or
from `RetryDecision`. `OtherRequest` is any other user of the coordinator.

Abstractions: one order, and one dispute of its escrow. The contract is not in
this repository and is modelled from the calls and the errors the
coordinator expects: a deposit opens an escrow each time, nothing leaves a settled
escrow, and a partial payment never exceeds the balance; `chain` shows the escrow
opened last. The funding lock is left out: in its default, optimistic mode it
excludes nobody and `fundEscrow()` continues without it. A service fault stands for
any database, RPC or Redis call of its step that rejects. When a call inside the
failed-transaction branch rejects, the code writes `failed` a second time from the
catch block; the model has one write. Memos, reasons, tax columns, evidence,
notifications, reputation and audit rows are left out.

### 2.5 PurchaseWorkflow

`state` is the row of one order, `payload` what each outbox row announces, `call` a caller
between its read and its COMMIT; `first` and `overlapped` are history. `Transition` is
`transitionWorkflow()` up to its transaction, `CommitTransition` and `RollbackTransition` the
two ends of it. The transaction is one step, since nobody sees its writes earlier; a lost
answer to COMMIT is a commit. `ListWorkflows` and `Remediate` are `reconcileWorkflows()`,
with the escrow status on chain as an answer from outside. The relays of the outbox process
the same rows meanwhile (`RelayStep`). `created` numbers the rows in the order of their
commits; the column `created_at` is the transaction's start, by which the relay sorts,
so the order of delivery may differ. Bound: a transition begins only while a row is left for
its event (`RowsLeft`). Besides the timeout and the reconciler no production code calls
`transitionWorkflow()` yet; the model lets callers send any event.

### 2.6 CheckoutInventory

`stock` and `line` are the two tables, `stockLock` and `lineLock` Postgres row locks, which
a transaction takes statement by statement and holds to its end; its writes are applied
at `Commit`, because every row it writes is locked until then. `redlock` is the lock
of a product in Redis, taken for all items of a call at once and, if the call takes longer than
10 seconds, lost for all of them at once (`LapseRedlock`); what a dead call has left locked
runs out too (`ExpireRedlock`). `Checkout`, `RunSaga`, `RunReturns` and `GiveBack` are `checkoutWorkflow()`;
`AcquireRedlock`, `MoveStock`, `RecordLine`, `Commit`, `Rollback` and `ReleaseRedlock` are
`updateReservation()`; `PayReserve` and `PayRelease` enter the transactions of payments, where
`FindReservation` and `RestoreStock` lock the two rows in the opposite order. `Deadlocked` is
Postgres aborting one member of a circle. `SagaMoves` drives an order's saga by any step of
`SagaOutcome`. `RunReturns` may also return a saga that another process is driving, or
throw; both are faults. Low-stock alerts are left out, as is `allocateInventoryWithLock()`,
which only tests call. The HTTP route for checkouts does not pass `inventoryItems` on (`src/index.ts`), so
only direct callers of `checkoutWorkflow()` reach the reservation.

`StockLedger` is the two tables as a merchant may see them, with two atomic steps: `Reserve` moves
the units of a whole order, or of one product of it, that are available and were not reserved before;
`Release` gives a whole reserved order back. `ImplementsLedger` says that every change of the tables is such
a step. It is stated until payments releases a reservation: a later release of the orchestrator moves
the units of rows that are not reserved any more (section 4), and the ledger has no such step.

### 2.7 SubscriptionBilling

Periods are numbered; `sub.end` is `currentPeriodEnd` as the number of the period to be
charged next, `charge` the ledger's row of each period, `billed` and `settled` what happened
on chain. `call` holds call chains: a request, or the billing or cancellation pass of a
scheduler tick, which the model runs as chains of their own. `Cycle` and `CycleRenews` are
the billing pass, `Scan` and `FinishCancellation` the other; `OpenCharge` to
`RecordFailure` are `chargeSubscriptionPeriod()`, `Advance` and `PastDue` the rest of
`renewSubscription()`, `Write` the end of a request. `spoiled` is history: the periods which
two chains charged at once, or in which something failed after the deposit. The
stores are in memory unless `enablePostgres...()` is called, which nothing does at this
commit; store faults and crashes describe the Postgres stores. `Rejected` is a query that throws;
one that commits while its answer is lost is the update followed by `Rejected` at the next label.

### 2.8 TransactionQueue

One source account. `job` is what BullMQ keeps, `worker` a run of `executeTxJob()`, `admin` a
call of `reserveSequenceBlock()`, `cache`, `blocks`, `cursor` and `seqLock` the Redis keys,
`account` and `envs` the ledger and the envelopes the network holds, `spent` the lifetime
counter. Every await on Redis, Horizon or the RPC ends a step. `ClearCache`, `ClearBlocks`
and `ClearCursors` are `resetCache()`; `ReadBlocks` to `StoreCache` the choice of a sequence
number; `Send`, `SendThrows`, `Poll`, `PollLost`, `Reconcile` and `GiveUp` the submission and
what follows. The ledger, the RPC and BullMQ are external: an envelope is included at the
account's next number or not at all, the RPC holds one at a time, and an envelope has expired
by the time a job has polled for it in vain (30 s of validity against 60 s). A stalled job
runs again while its former worker continues (`Stall`). Every block that pre-warming asks for is a
member of `Lease`, any finite set. A request that does not name its payer, because the wallet could not be
read, is added without a check of the limit, and its spend is not recorded (`Payer`). The audit
entry after a write of a cursor may be rejected: the block is then passed over although its cursor has
moved (`CallFails`). Which events may happen together is given by `Scenarios`, sets of events of which
each happens once. `QueueTypeOK` documents the types of the state. The dead letter queue (nothing adds to it), the healer, batches and monitoring are left out.

## 3. What the runs check

All runs are listed in `PROJECT.json`. Deadlock checking is off everywhere: with all
calls made and all faults spent these systems rightly come to rest.

| Run | Instance | Shows |
|---|---|---|
| `saga_faults` | two tasks of one process (re-entrant locks shared), two steps, two calls, one failing action, retried or not, one failing compensation, one lock fault, deadline | `ClaimsExclusive`, `LeaseExcludes`, `ReverseCompensation`, `OutcomeIsWhole`, `NoForwardAfterTurn` |
| `saga_crash` | two processes with a task each, one call and the recoveries, one failing action, retried or not, one rejected call or lost answer, one crash, deadline | `SnapshotCoherent`, `RecordedStepsRan` |
| `saga_settles` | two processes, two calls, one failing action, no deadline, fairness | `ImplementsOutcome`, `EventuallySettled` |
| `outbox_claims` | two relays, three events, batches of two, no fault | violates `ClaimsDisjoint` |
| `purchase_announced` | an order that is absent or funded, two callers of which one reconciles, two events, two relays, two attempts, three faults (failing publishes, failing or lost writes, crashes), fairness of the relays | `StateIsAnnounced`, `HistoryIsLegal`, `PublishedWasDelivered`, `AttemptsBounded`, `EventuallyRelayed` |
| `idem_guard` | four requests, one of them reusing the key for another body; one Redis failure, one 5xx, one crash, leases that lapse at any time | `AnswersAreFaithful`, `OneAtATime`, `RetryInTimeIsReplayed`, `OneResponse` |
| `inventory_stock` | two orders for two products of which one is scarce, two tasks, two calls, one release from payments, one fault, fairness | `ImplementsLedger`, `ReservedIsBacked`, `OrderedLocking`, `StockFollowsSaga`, `CallsReturn` |
| `dispute_settles` | two slots, an amount of 2, two requests to the coordinator, four dispute requests, one decision, one lost answer with a retry, one service fault, one crash | `OneDeposit`, `FundedIsReal`, `RecordNeverAhead`, `SettledIsEmpty`, `ResolvedIsPaid`, `BuyerFirst` |
| `dispute_twice` | one slot, an amount of 2, one service fault | violates `LegsPaidOnce` |
| `subscription_billing` | two call chains, three periods, two requests, one fault, fairness | `ServedIsPaid`, `BilledOnce`, `CancelledIsFinal`, `FlaggedIsCancelled` |
| `subscription_twice` | two call chains of the scheduler, two periods, no fault | violates `NeverDoubleBilled` |
| `queue_executed` | two jobs, two workers, two reservations at a time, two blocks, five attempts, two stalls, blocks of two, a limit of one job; two blocks, with a lapsed lock or without, a block and a refused call or a crash, or one or two losses | `OutcomeIsTrue`, `CompletedIsOnLedger`, `BlocksDisjoint`, `SpendIsCounted`, `AttemptsSuffice` |

The type invariants are theorems (section 5) and are not repeated in the runs.

### Bounds

* Two steps: a first, a last, a successor and a compensation of several entries all
  exist. The properties relate at most two entries of the record; the proofs cover any number.
* Two tasks: every race on a row is between the task that writes and the one that
  writes next; a third changes who, not what. The proofs cover any number.
* One fault of each kind in most runs, three faults of any kind in `purchase_announced`: a fault is followed by the full recovery and by
  whatever the other task does meanwhile. In `saga_crash` the crash may fall between
  any two steps, and recovery starts in either process before or after it.
* `MaxAttempts = 2` and three faults: one failure that backs off, one that gives up, and one
  more from the second relay, which is what `AttemptsBounded` allows for.
* Four requests: an execution, a waiter, a retry after an answer, and a foreign body
  under the same key.
* An amount of 2 is the least that can be split between buyer and seller. Two slots
  let two fund requests, two executions of the decision, or an execution and a request
  from elsewhere overlap; four dispute requests open it, move it on, decide and retry.
  `MaxDecisions = 1`, the case `ResolvedIsPaid` and `BuyerFirst` speak of.
* Two orders for the same two products, one of them scarce: both can have all of one
  product and only one the other, so a reservation fails after its first item; two items are the
  least for which the order of locking matters. The one fault can be the lapse of a call's redlock,
  after which the second call takes row locks beside the first: items in an order of their own for each
  order end in a circle (the mutant of `OrderedLocking`).
* Two relays and two events under two callers: two transitions can overlap, and the
  relays can hold the row of one while the other is written.
* Three periods: the first, which is charged differently, one that is renewed and one
  that a slow renewal can set back to. Two chains let a pass meet a pass, a request or itself.
* Two jobs on two workers race for one sequence number; `SpendLimit = 1` lets the second be
  refused or slip through; five attempts is the value of the code and, with two blocks, the
  least that suffices.
* Tasks with their processes in the two saga runs without liveness, the slots of the escrow, and
  jobs, workers, reservations and leases of the queue are interchangeable, and those runs check safety
  only, so symmetry is sound.

### Fairness

Weak fairness only. The event loop runs every continuation, timer and interval that
is due (`Continue`, `Wake`, the relay's `Cycle`, re-armed in a `finally`), time passes
(`Lapse`, `PassDeadline`, `ExpireLock`, `Due`), a renewal that finds its key gone is
noticed at the next tick. For the inventory,
continuations run, Postgres hands on row locks and breaks circles (`Continue`), the TTL of a redlock
runs out and sagas are driven to their end (which `EventuallySettled` shows for the
coordinator). For subscriptions, continuations run, both passes of the scheduler's interval come
round (`Cycle`, `Scan`) and time passes (`Tick`). In `purchase_announced` only the relays are
bound to go on. Calls from outside, faults and crashes are never promised.

## 4. Disagreements with the comments

Three runs show that the code does not do what a comment beside it says.

* **A share of a decision can be paid twice** (`dispute_twice`). `executeDecision()` invokes
  every nonzero leg again on a retry. The buyer's refund of 1 out of 2 succeeds, the
  seller's leg fails, the retry refunds another 1: the balance check passes, and the
  seller's share is gone.
* **A period can be billed twice** (`subscription_twice`). `chargeSubscriptionPeriod()` stops
  early only for a charge that has succeeded, and nothing claims the row between the read and
  the deposit, so two overlapping passes both deposit.
* **Two relays can have the same row** (`outbox_claims`). The claim commits before anything is published
  and changes neither `status` nor `next_attempt_at`, so the rows are eligible again as soon as the row
  locks go. Three comments say that a claimed row is processed by one relay at a time; `SKIP LOCKED`
  separates only claims that overlap.

Other behaviours worth knowing, which the models contain and which limit what the
properties claim:

* Once a deadline passes, a finished saga can be reopened: `recoverOne()` reads the record
  again but tests only its deadline, so a sweep that listed the saga just before another task
  completed it writes `timed_out` over `completed` and compensates it. That is why
  `ImplementsOutcome` is stated without deadlines.
* A timed-out saga can be forgotten: neither `listIncomplete()` nor `listTimedOut()`
  returns it, so nothing takes it up when its compensation fails or its process stops.
* A step can run more than once. An attempt that took effect and failed is retried under the same claim.
  And the Redis locks are re-entrant per process, so a second task passes both and claims the step again
  when the first claim lapses. `LeaseExcludes` says what is left: until then nobody else runs the
  step. It speaks of actions only: the compensation of a step can run in two tasks of a process, because a sweep
  that saves `timed_out` clears the claim under the task that holds it.
* A checkout retry can be executed again: the idempotency lease is never renewed, and the writes of
  the record do not check its token.
* `checkoutWorkflow()` gives the stock back whenever `run()` returns a saga that is not
  completed, so also one that another process goes on to complete. `release()` moves the units whether
  or not its update found a reserved row, so a release of payments followed by the
  checkout's own frees units of other orders. A released reservation keeps its
  unique row, and the order cannot be reserved again.
* The release of payments locks the reservation before the inventory row, the orchestrator
  the other way round: Postgres has to abort one of them (`OrderedLocking` excepts circles with a
  release of payments).
* The wallet can execute a job twice after a gateway timeout: `reconcileTimedOutSubmission()` looks
  for the last time five seconds before it gives up, and the retry builds another envelope. A stalled job
  has the same effect.
* The lock of a reservation lives for five seconds and is deleted without looking at its owner; once one
  lapses under its holder, blocks can overlap. `BlocksDisjoint` is stated until then; `OutcomeIsTrue` holds afterwards too.
* A block costs each of two jobs that race an attempt. With two blocks the five attempts suffice. With three,
  which one call of `preWarmReservations()` reserves, they do not: TLC finds a job that loses
  three attempts to the blocks, one to the number the other job left in the cache and one to its
  inclusion, without any fault. `AttemptsSuffice` therefore asks for more attempts than blocks plus two.
* The number taken from a reserved block is used as it is although the builder adds one, so
  the first envelope of a block is refused; `resetCache()` clears the cursors of all
  accounts; a spend confirmed through reconciliation or Horizon is not recorded.
* Overlapping billing passes can charge a period before it is due, a renewal in flight
  revives a subscription that was cancelled meanwhile, and a first charge that failed is not
  taken up again.
* Two overlapping transitions of an order write one over the other, even over a terminal
  state. The reconciler's SETTLE is always refused, because an order that is
  `ESCROW_FUNDED` does not accept it.
* What follows from shared rows: the slower relay's failure report puts a published row back to
  pending, a late mark publishes one that was given up, and a row can be tried once more than
  `maxAttempts` for every further relay. `PublishedWasDelivered`, `AttemptsBounded` and
  `EventuallyRelayed` take this into account.
* A deposit whose answer is lost is submitted again and opens a second escrow; that is why
  `OneDeposit` speaks of the time before the first lost answer.
* When Redis refuses the status event, the catch block writes `failed` over `funded` or
  `released`; a release that loses against a refund writes `failed` over `refunded`.
* A crash after the insert leaves the record `pending`, and every later fund request for
  the order is answered `failed`.
* Three jobs of an account can use up any number of attempts without a fault: two of them that
  fail in turn, each with the number the other has left in the cache, keep that number ahead of the
  ledger, because a run that is answered `tx_bad_seq` clears the cache only to have it filled
  again by a run that loaded it before. `AttemptsSuffice` is therefore about two jobs.
* An update of a dispute's stage by a handler that read it before the decision takes even a
  resolved dispute back to `negotiation`. A second decision can replace the amounts
  under an execution that is running.

And one about recovery: after a crash, the restarted process finds the
workflow lock still held under the dead process's owner id (a random one unless
`ORCHESTRATOR_INSTANCE_ID` is set) and backs off; if the record carries no claim
nothing is rescheduled, so the saga waits for its deadline, the next restart or a call.
That is why `saga_settles` has no crash.

## 5. Proofs

TLAPS proves the following for every value of the constants.

`SagaCoordinatorProofs` (assumptions: `StepsAssumption`, `LimitsAssumption`,
`HostAssumption`, `ClaimAssumption`, `LockAssumption`; any sets of processes and tasks, any
steps without repeats, with or without locks):

* `SagaInvariant`: `SagaInv` is an invariant.
* `TypeCorrect`, `SnapshotsCoherent`, `ClaimsAreExclusive`, `StepsInOrder`,
  `RecordIsFaithful`, `CompensationReverses`, `OutcomesAreWhole` (invariants) and
  `TurnIsFinal` (an action property).
* `SagaImplementsOutcome`: with `CanExpire = FALSE` the coordinator implements `SagaOutcome`.
* `LeasesExclude`: while their leases last, no two tasks run the action of the same step.

None of the properties is inductive by itself. `SagaInv` adds what the code relies
on silently: a record that a task carries is a record that was once stored
(`CarriedOK`: version not newer than the row, equal versions mean equal records,
and once a carried record has turned around so has the row); where a task is in the
loop agrees with its record (`ForwardOK`: the step in hand is the one after the
recorded prefix; `BackwardOK`: everything behind the entry in hand is compensated); a
task about to persist has had its effect (`EffectOK`); nothing is undone while the
row has not turned around. The step proof has one lemma per action. Actions that
do not write the row go through `QuietStep`, those that do through `SavingStep`, which
uses the version test once and for all: the writer's record equals the row, so every
other task's record is strictly older afterwards. `ForwardRecorded` and
`BackwardRecorded` treat the record written by `Persist`. Locks occur in none of this:
the safety of the record rests on `save()`'s version test alone. `LeaseInv` adds what
`LeasesExclude` needs: while its claim lasts and the saga is running, the record of a task that runs
an action is the stored one (`DriverOK`), so that whoever reads the row finds the step claimed, and a
task about to save a claim has found the step free (`FreeStep`). A save between the two changes the
version, and the later claim fails on it. For the refinement,
`NoDeadline` says that no task is on its way to save `timed_out`; `PersistImplements`
shows that a record with one more step, or one more undone, is a `Step` or an `Undo`.

`ServiceEventOutboxProofs` (assumption `OutboxAssumption`):

* `OutboxTypeOK`, `PublishedRowsWereDelivered` and `AttemptsAreBounded`, for any number of
  relays that share rows, fail, die and write over each other's outcome.

The invariant `OutboxInv` adds that the row in a worker's hand belongs to its batch and was
delivered if it is about to be marked. `AttemptsInv` counts the workers that have a row
(`Holders`): each can still report one failure on it, so what is bounded is the sum of the
attempts and the holders. A row with attempts left satisfies the bound whoever has it; one
without is not pending and gains no holder.

`PurchaseWorkflowProofs` (also `WorkflowAssumption`; any callers, relays, events and
starting states): `WorkflowTypesKept`, `StateAlwaysAnnounced`, `HistoryAlwaysLegal`.
`WorkflowInv` extends `OutboxInv`: rows are numbered without gaps in the order of their
commits and the last one announces the state (`LastAnnounces`), what a caller is about to write
is a transition of the machine, and until two overlap it starts from the state the order
is in (`WritersOK`). Relays disturb none of this because they only hold rows that exist.

`CheckoutIdempotencyProofs` (assumption `IdempotencyAssumption`; any number of requests,
bodies and faults): `GuardInvariant`, `GuardTypesKept`, `AnswersAlwaysFaithful`,
`OneHolderAtATime`, `RetriesAreReplayed`, `ResponsesAgree`. `GuardInv` has two halves.
`FaithInv` holds whatever fails: what is stored or answered was produced by a request with that
body. `LeaseInv` holds until a lease runs out under its holder or Redis fails: the lease's
holder is the only one to decide, and only while no response is stored.

`SubscriptionBillingProofs` (assumption `SubscriptionAssumption`: finitely many call
chains; any number of periods, requests and faults): `PaidInvariant`,
`SubscriptionTypesKept`, `ServedPeriodsArePaid`, `PeriodsAreBilledOnce`, `CancellationIsFinal`,
`LedgerKnowsDeposits`. `PaidInv` says that a chain charges a period only when the ones
before are paid and moves on only when its own is, so that even a slow renewal writes an end
whose periods are paid. `OnceInv` adds, for a period that is not spoiled, that one chain at
most is charging it, and that nothing was deposited while the charge is open and nobody is past the deposit. `LedgerInv`
counts the chains that are about to deposit or release: `settled` plus releases under way is at
most `billed`, and `billed` plus deposits under way at most the attempts of the ledger.

`DisputeResolutionProofs` (assumptions `EscrowAssumption`, `DisputeAssumption`; any number
of slots, requests, decisions, retries and faults, any amount):

* `DisputeInvariant`: `DisputeInv` is an invariant;
* `DisputeTypeCorrect`, `OneDepositPerOrder`, `FundedAnswersAreReal`,
  `ResolvedDisputesArePaid`, `BuyersArePaidFirst`.

`DepositInv` says that at most one invocation of `fundEscrow()` is past its insert and that
it has not deposited while it is still submitting; `FundedInv` that every column which
`toFundResult()` reads is backed by a deposit, and that an invocation about to write such
a column has one. For the dispute, `DecisionInv` says that nothing is executed or paid before
the decision is written, that every execution holds the amounts of the row, and where it
is in the order of the legs (`ExecutionOK`); `LegInHand` ties a waiting handler to its call:
the call carries the share, and by the time it can be answered "ok" the share is part of
`paid`. Stale updates of the stage do no harm because none of them writes `decided` or
`resolved`. `HandlerQuiet` and `HandlerExecutes` carry the actions that change one handler;
`CallStepKeeps` uses that the chain only ever pays.

* `MoneyInvariant`, `RecordIsNeverAhead`, `SettledEscrowsAreEmpty`.

That the record never runs ahead of the chain is not inductive: two invocations may both have
been executed and both be about to add their amount to the row. `MoneyInv` therefore counts
what is executed and not recorded (`Unrecorded`, a set of pairs of an invocation and a stroop of
its amount, so that its cardinality is the sum): the row plus that is at most what was received
(`BooksInv`). `BalanceInv` says that balance and payments add up to the deposit; `ReadInv`
that the amounts an invocation read before its submission are not ahead of the chain, and by
the time it records, its own payment comes on top of them. So when a partial payment finds on
its old row that nothing is left, nothing is.

`CheckoutInventoryProofs` (assumptions `BasketAssumption`, `StockAssumption`,
`RankAssumption`, `TaskAssumption`, `LimitsAssumption`; any finite set of orders, any products,
baskets and stocks, any number of calls and faults): `InventoryTypes`, `LockingIsOrdered`,
`ReservationsAreBacked`, `TablesImplementLedger`, `StockFollowsTheSaga`. The types already need an argument
about locks, since they say that no stock column goes below zero:
a transaction tests that a row has enough units and takes them off at its COMMIT, and only the
row lock keeps the test true until then. `LockInv` says so: a call holds exactly the locks of
the rows it has been through, in the order of their rank, and what it tested about them
holds. For `LockingIsOrdered`, nobody in a circle waits for a reservation row, whose inventory row
it would hold already, and the member that waits for the row of the least rank waits for one that waits for a
row of lower rank still. `BackedInv` adds that a reservation belongs to one call between its commit and its
release (`Owns`), so that no two calls give back the same units. `TablesImplementLedger` follows: only COMMIT
writes to the tables (`OnlyCommits`), and the call that commits holds the reservation rows of all its items, in
the state it found them in, and has tested its units (`CommitIsLedgerStep`). `FollowInv` adds that an order whose
saga is under way has a call that waits for its end, and that the units of a compensated one are back
or a call is about to give them back. What `Units` adds up is taken from `UnitsAdd` and
`UnitsRemove`: adding or removing an order changes the sum by its basket. These are proved without an
induction theorem, from the finite set without a smaller counterexample (`MinimalSet`).

`TransactionQueueProofs` (assumption `QueueAssumption`; any jobs, workers, reservations,
attempts, stalls, block sizes, limits and combinations of events): `QueueTypes`,
`BlocksNeverOverlap`, `CompletedJobsAreOnLedger`, `OutcomesAreTrue`, `SpendIsAlwaysCounted`,
`RaceLeavesAnAttempt`.
`HashInv` says that an envelope belongs to one run of one job, so that a worker that goes on
after its job stalled never speaks for an envelope of the run that replaced it. `LedgerInv`
says that a worker about to record or to report success has an envelope that was applied.
`OutcomeInv` holds while nothing is lost: each active job has one worker, no worker
has given up waiting, and every envelope has failed, is in the hands of its worker or completed its job.
`BlockInv` keeps the reservation's lock from its first read to its last write and bounds the
list by the number it read. `SpendInv` compares the counter with two
sets, the applied envelopes nobody is still going to count and the jobs that have been counted; each
step adds one member at most to either.

`RaceLeavesAnAttempt` proves `AttemptsSuffice` for any number of workers, blocks and sizes of blocks.
The inductive invariant `RaceInv` bounds, for a job without an envelope in the network, the attempts it has
lost plus the ways in which it may still lose one by the number of blocks that are done with, plus two
(`Bound`). A block is open as long as the job may draw from it (`LeaseOpen`); besides there are a
number that the other job has used up (`LowOpen`) and one that it has left ahead of the ledger
(`HighOpen`). Each loss closes one of them, and none opens again. A block is closed
because a lease is handed out once and a reset clears the list (`LeaseInv`). A used number is closed
because the other job, once executed, has nothing in flight (`NetInv`, `WaitInv`). A number ahead is
closed because only a job that has sent its envelope, or is about to with the account's next number, leaves
one (`CacheInv`, `AheadInv`), and with two jobs there is nobody else to do it a second
time. Steps without a fault are first brought into a form that names the fields they change
(`RaceForms`). TLC finds four attempts too few for two blocks and five for three, so the bound is sharp.

## 6. Only model-checked

Liveness (`EventuallySettled`, `EventuallyRelayed`, `CallsReturn`, `FlaggedIsCancelled`) and
everything else that needs fairness, which is out of the prover's reach. The three runs that end in a
violation (`LegsPaidOnce`, `NeverDoubleBilled`, `ClaimsDisjoint`). Every other property of the runs is a theorem.

## 7. Plan

Done: the modules of section 2, the refinements of `SagaOutcome` and `StockLedger`, the composition of the outbox with the
purchase workflow, of the escrow with the dispute and of sagas with the inventory.

Next, in this order:

1. `AutoRelease` over the escrow and the dispute: a dispute opened during the retries of
   a release does not stop it although a comment says that it "still wins"; the counter of
   confirmations is lost at a restart; the answer 502 of a failed immediate release is kept
   under its idempotency key.
2. `MessageDedup`: the outbox followed by `processed-messages.ts`: at-least-once
   delivery with each consumer's effect once.
3. `DeadLetterQueue`, `DualControl`: replay with circuit breaker; two approvers and expiry.
4. Payments, the rest: settlement, payouts, escalation of disputes.
5. Notifications retry; CDC cursor.

Theorems to come: the properties of the modules above.

## 8. Not modelled

Request parsing, authentication, formatting and logging; cryptography and RPC clients
of the wallet; scoring and reporting (fraud detection, analytics, reputation, tax);
operational services around external tools (certificate manager, DB vacuum,
monitoring); language-model agents, whose behaviour the code does not determine; SDK
and type packages, which keep no state. The parts that do carry a protocol and are
still to come are in the plan. `PROJECT.json` lists each with its reason.

The modules cover a small part of the repository's lines: most of them are routes, schemas,
validation, configuration, read models, clients of external services and generated
documents, in which nothing races and nothing is promised across steps. The models go where
state is shared between processes, callbacks, retries or crashes.
