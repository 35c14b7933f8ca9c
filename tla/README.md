# TLA+ models of SagaForge AI

SagaForge AI processes an order as a saga over several services that share one
Postgres database and talk through Kafka by means of a transactional outbox.
This directory holds TLA+ modules that model the services, the TLC
configurations that check them on small instances, and theorems with proofs
checked by TLAPS. All definitions are taken from the Go code and the SQL schema;
`PROJECT.json` names the lines each of them stands for.

## 1. The system

| Component | State it keeps | Operations | Talks to |
|---|---|---|---|
| order service (`cmd/order-service`) | `orders`, `sagas`, outbox rows | `createOrder`, `getOrder` (reads) | clients over HTTP, outbox |
| inventory service (`cmd/inventory-service`) | `inventory_stock`, `inventory_reservations` | `reserveInventory` on `order.created` | `order-events` → outbox |
| payment service (`cmd/payment-service`) | `payments` | `processPayment` on `inventory.reserved` | `inventory-events` → outbox |
| fulfillment service (`cmd/fulfillment-service`) | `fulfillments` | `startFulfillment` on `payment.processed` | `payment-events` → outbox |
| saga orchestrator (`cmd/saga-orchestrator`) | `sagas`, and every other table when it compensates | `advanceStep`, `failSaga`, `compensatePaymentFailed`, `compensateFulfillmentFailed`, `completeSaga` | three consumer loops: `inventory-events`, `payment-events`, `fulfillment-events` → outbox |
| notification service (`cmd/notification-service`) | none (what is sent is gone) | `sendNotification` | `saga-events` |
| outbox poller (`internal/outbox`) | `outbox_events.published_at` | `poll` every 500 ms, in six of the services, all over one table | Postgres → Kafka |
| Kafka client (`internal/kafka`) | offsets at the broker | `Publish`, `Consume` | Kafka |
| AI insights service (`cmd/ai-insights-service`) | `ai_insights` | `Handle`, `generateInsight`, `persistInsight` | three topics, Azure OpenAI, outbox |
| dashboard (`cmd/dashboard`) | connected browsers and their channels | `broadcast`, `sseStream`, read-only queries | six topics, Postgres |
| runner (`cmd/runner`) | child processes | start in two phases, shutdown | operating system |
| scripts, database pool | none | load test, migration, reports | |

What is hard about it:

* **At-least-once delivery.** `Consume` handles a message and then commits its
  offset. A stop in between, or a failed commit, brings messages back after
  other services have moved on. Publishing is at least once as well: a poll may
  publish and then fail to commit.
* **No order between topics.** The orchestrator follows three topics in three
  loops, and six pollers carry the rows of one order to Kafka independently, so
  the events of one order reach it in any order.
* **Errors are final.** `Consume` commits a message whose handler failed; there
  is no retry and no dead-letter queue.
* **Unconditional updates.** No UPDATE of the orchestrator looks at the state it
  changes; what keeps them right is the order of the events alone.
* **Statement-level interleaving.** Postgres runs the transactions at READ
  COMMITTED: reservations and compensations of several orders meet on the rows
  of `inventory_stock`, and the compensation reads the reservations in one
  statement and releases them in another. The payment service reads its
  idempotency guard before its transaction begins.
* **Processes that are stopped.** A signal cancels the context of whatever runs:
  a handler's query, a service still being started by the runner, an SSE stream.

What makes each component right is listed with the modules below; the hazards
at their lines are in `PROJECT.json` under `hazards`.

## 2. The modules

### The saga

```
SagaEvents <- SagaState <- OrderService, InventoryService, PaymentService,
                           FulfillmentService, Orchestrator, NotificationService
                             <- Saga <- SagaProperties <- MCSaga
                                                       <- SagaProofs <- SagaContractProofs
                                        (PaymentLedger, OrderContract)
```

* `SagaEvents`: event types, topics, and `TopicFor`, the switch of the poller.
* `SagaState`: one variable for each table. `outbox[o][e]` is the row of event
  type `e` for order `o`: its idempotency key is made of just these two, so
  there is at most one. `AppendOutbox` is INSERT ... ON CONFLICT DO NOTHING.
* One module for each service, with one operator for each handler: the whole
  transaction is one step. A handler that returns early is `UNCHANGED tables`.
  Random outcomes (card declined, warehouse down) and outcomes that depend on
  other orders (which line item is the first that does not fit) are `\E`.
* `Saga` composes them. `log[t][o]` is the partition of topic `t` that holds
  order `o` (the producer hashes by order id, so one order stays in one
  partition), `pos[c][o]` is how far consumer loop `c` has got. Actions: `Create`
  (POST /orders), `Publish` and `PublishUnmarked` (a poll that commits, a poll
  that publishes and does not commit), `Deliver` (fetch, handle, commit),
  `HandlerError` (the transaction is rolled back, the message committed),
  `Redeliver` (the consumer falls back to an offset it had passed).
* `PaymentLedger` and `OrderContract` are abstract: what the payments table
  promises whatever Kafka does, and what the customer is promised.
* `SagaProperties` states what is claimed, grouped by what it depends on.

Orders never look at each other's rows in these handlers, except for the stock,
which `ReserveInventory` leaves open; that is why one order is enough for TLC.
The proofs are for any set of orders.

### The outbox

* `OutboxPoller`: the poll, statement by statement, for a set of pollers.
  `held[p]` are the rows `p`'s transaction has locked, `todo[p]` what the loop
  has not been through, `marked[p]` its uncommitted UPDATEs. `Reject` is a row
  Kafka never takes (for instance a message larger than the broker allows),
  `PublishFails` a passing failure that may or may not have reached the broker,
  `Rollback` a failed UPDATE or COMMIT or a process that dies.
* `OutboxRelay` is what it implements: only committed rows are delivered, and a
  row is crossed out only after it was delivered.

In `Saga` a poll is one step for each row: publish-and-commit is `Publish`,
publish-and-roll-back is `PublishUnmarked`. `LocksAreExclusive` and `RelaySpec`
are why that is enough: while a row is in a poller's hands nobody else works on
it, and it changes only from pending to published.

### The stock

* `StockTx`: `reserveInventory` and the compensations, statement by statement:
  what each transaction has changed and not committed (`delta`, `rows`), the row
  locks of stock and saga, and the server's deadlock detection. `MarkSaga` is
  the first UPDATE of a compensation, whose row lock on the saga makes
  compensations of one order take turns. The refund of
  `compensateFulfillmentFailed` touches one more row, of the same order and
  after that lock, and is left out; otherwise the two compensations are alike.
  A compensation walks the list in the order its SELECT returned it: the SELECT
  has no ORDER BY, so `Walks` leaves the order open, but once it is drawn
  (`queue`) the transaction waits for exactly the next SKU.
* Any transaction may end without a commit, at any statement: `Rollback` stands for
  a statement or a COMMIT that fails, a context that is cancelled, a process that
  dies, and an integer out of range; `DeadlockVictim` is the one of them that the
  server has to bring about. Either way nothing of the transaction stays, and its
  message is gone.
* A line item may ask for any quantity: `createOrder` (server.go:64) refuses an
  empty cart only, and neither the statements nor the schema (no CHECK) look at the
  sign. A quantity of 0 or less passes `available_qty >= qty` whatever is left of a
  stock that is not negative, and adds to it; the compensation takes it off again
  without looking at what is there. `Stocked` are the SKUs with a row in
  `inventory_stock`; an UPDATE of another SKU hits nothing.
* `StockShelf` is what it implements: an order takes its items in one go and
  gives back all it holds in one go. It is what allows `Saga` to take these
  handlers as one step.

An order that was delivered twice holds two reservations, and the second may
commit between the SELECT and the UPDATE of a compensation: it is released and
not put back. `GiveBackLess` of `StockShelf` and the second half of
`StockIsConserved` say that this is the only way stock is lost. If the second
reservation is of a negative quantity, the same order of steps makes stock instead:
the first half of `StockIsConserved` excludes just the SKUs that such an order
lists, and `GiveBackLess` promises nothing of them. A negative quantity is also the
only way to a negative stock: `OnlyUndoingOversells` says that it takes a
compensation of an order that has one, so that no reservation ever takes what is
not there. That the code lets stock fall below zero at all is thus part of the
model; no document or test of the repository says that it cannot.

### The payments

* `PaymentTx`: `processPayment`, statement by statement, for several instances
  of the service that are given the same `inventory.reserved` (a rebalance while
  the first one is at work). `pc[i]` is the statement instance `i` is at,
  `outcome[i]` what it has drawn. `FindPayment` and `PassGuard` are the guard,
  `GuardFails` its dropped error, `Insert` the two INSERTs that get the unique
  key, `Conflict` the one that meets a committed payment; an INSERT of a key
  that an open transaction has inserted is not enabled: Postgres lets it wait.
  `RefundPayment` is the orchestrator's UPDATE.
* It implements `PaymentLedger`, as `Saga` does with `ProcessPayment` in one
  step. `DeliveryDecides` is the part `Saga` needs on top: when the message of an
  instance that gave way is committed, the order is decided.

### The AI insights service

* `Insights`: consumer loops that share a process. `pos[l]` is how far loop `l`
  is in this process and `committed[l]` its offset at the broker; `pc[l]` says
  whether it fetches, waits for the model, stores or commits. A `Reply` is what
  `generateInsight` looks at: how many lines, whether it begins with a code
  fence, whether there is JSON. A fenced reply of one line panics and ends
  (`Die`) all loops; `Restart` resumes from the committed offsets, `Rebalance`
  does so for one loop. `rows` counts the `ai_insights` rows of each message,
  `announced` are the events with a row in the outbox. The service's poller is
  one of those in `OutboxPoller`.

### The live feed

* `LiveFeed`: `done[t]` is how far the loop of topic `t` has got, `busy` is the
  loop that is in `broadcast` (and holds the mutex), `todo[t]` are the registered
  channels it has still to send to. A browser is `off`, `open` or `gone`: its
  request is over and its channel is registered until `removeClient` gets the
  mutex. `hand[b]` is the event `sseStream` has taken and is writing. A browser
  that is not in `Quick` may read nothing, and `sseStream` then waits in `Flush`.
* `sent`, `base` and `lost` are history variables: the events in the order of
  their broadcasts, how many there were before a browser registered, what the
  `default` of the select dropped for it. The comment of `Dashboard` says that
  "all connected browsers receive every new event" (server.go:28);
  `EventsAreAccountedFor` is what is left of it.
* `FetchFails` ends one loop for good: the error of `Consume` is dropped
  (server.go:122), so the page stays up without that topic.

### The runner

* `Runner`: the goroutine that starts the services is at position `at` of
  `Services`, at one `step` of `startService`; `main` waits for the signal,
  forwards it (`Forward`), and ends when `wg.Wait` has returned or the ten seconds
  are over. `child[s]` is the life of a process. `ContextKill` is what
  `exec.CommandContext` does as soon as the signal has cancelled the context.
* `main` starts phase 1 itself and looks at the signal only then; phase 2 runs
  beside it and may start one more child after the snapshot. A comment says that
  the wait for Kafka ends after 60 seconds; with the timeout of each dial it is up
  to 120, which changes nothing here.

## 3. What TLC checks

| Run | Instance | Shows |
|---|---|---|
| `saga_faults` | 1 order of 2 items, 1 fallback of a consumer, 1 duplicate publish, no handler error | `TypeOK`, `MessagesAreRecorded`, `Causality`, `PaymentsMatchEvents`, `StockReturnedOnFailure`, and the refinement `LedgerSpec` |
| `saga_settles` | 1 order, 1 fallback, up to 2 handler errors, in any combination, fairness | `OrderSettles` and `RefundFollows` (while no handler has failed), `StrandedButSound` and the refinement `ContractSpec` (while nothing was handled twice), `SettlementAgrees` (both) |
| `poller` | 2 pollers, 3 rows, the oldest one poison, LIMIT 2, 2 failed publishes, 2 rollbacks, fairness | `TypeOK`, `LocksAreExclusive`, `MarkedIsInKafka`, `CopiesNeedFaults`, the refinement `RelaySpec`, `HealthyRowsGetOut` |
| `stock` | 2 orders over 2 SKUs in opposite order, 2 reservers, 2 compensators; `order.created` and the failure of the second order delivered twice, which asks for a quantity of -1 of one SKU, and once of the first, which fits only with the help of the second; rollbacks at any point; fairness | `TypeOK`, `StockIsConserved`, `OnlyUndoingOversells`, the refinement `ShelfSpec`, `TransactionsEnd` |
| `insights` | 2 loops of 2 messages each, one of them a duplicate and one of no interest, 2 resets, fairness | `TypeOK`, `NothingIsSkipped`, `RowsNeedResets`, `LoopsGetThrough` |
| `payments` | 3 instances, 2 orders delivered twice each, 2 faults, fairness | `TypeOK`, `EventsMatchPayments`, `DeliveryDecides`, the refinement `LedgerSpec`, `DeliveriesEnd` |
| `feed` | 2 topics with 2 and 1 messages, 2 browsers of which one need not read, channels of 1, fairness | `TypeOK`, `EventsAreAccountedFor`, `OneOrder`, `FeedDrains`, `QuickBrowsersSeeEvents` |
| `runner` | 2 services of phase 1, 3 of phase 2, 3 dials, fairness | `TypeOK`, `AtMostOneSurvivor`, `RunnerEnds`, `AllServicesStart` |

Why the bounds suffice for the interesting cases: two line items are the least
for a partial reservation; one fallback returns a consumer to any message it has
handled, also several back, while everything else has moved on; two errors can
hit two services of one saga; two pollers with LIMIT 2 over three
rows overlap, skip and overtake each other; two orders over two SKUs in opposite
order give every kind of deadlock two transactions can have; a panic in one
loop meets the other at each of its steps, and with two resets a message is
handled three times. With three payment instances, one holds the key while a
second waits for it and a third, after a fault of the first, gets it. A channel
of 1 is full after one event, and with three events one is kept, one dropped and
one more kept after the browser read. Three services of phase 2 are one started,
one being started and one that is refused when the signal comes. Duplicates and
fallbacks are bounded by counters (`MaxDups`, `MaxResets`, `MaxErrors`,
`MaxFails`, `MaxAborts`, `MaxDeliveries`, `MaxFailures`, `MaxFaults`, and
`MaxResets` of `Insights`) that occur only in the
guards of the faults (or, in `StockTx` and `PaymentTx`, of the inputs; in `StockTx`
`MaxDeliveries` and `MaxFailures` give a bound for each order). A SKU without a stock
row is in no TLC run (it is a SKU that never fits); the proofs cover it. `Messages`
of `LiveFeed` is how many events there are at all; `MaxTries` of `Runner` and
`Capacity` of `LiveFeed` are the 30 and the 64 of the code.

Deadlock checking is off everywhere but for the poller: when all is handled there
is nothing to do, and the runner ends. The poller always has work because one row
is never accepted.

### What the documents say and the code does not do

Each of these runs checks one property and finds it violated:

| Run | Property | What happens |
|---|---|---|
| `saga_reconcile` | `NothingToReconcile` | items reserved before the one that does not fit stay reserved for ever (README.md:266) |
| `saga_regress` | `SagaMatchesOrder` | `payment.processed` handled after `fulfillment.shipped` puts a completed saga back to `in_progress` (README.md:79) |
| `saga_lost_event` | `EveryOrderSettles` | one handler error leaves the order pending for ever (README.md:5, consumer.go:14) |
| `runner_grace` | `KilledAfterGrace` | the context kills a child before SIGTERM is forwarded (runner/main.go:3-4) |

The trace of `saga_reconcile` is that of `FailedOrderHoldsNoStock`, the shortest. The
other conjuncts of `NothingToReconcile` are wrong as well: checked one at a time with
the same configuration each of them is violated, always for an order of which
nothing is left to be handled:

* `FailedOrderHoldsNoStock`: the trace of the run; no fault is needed.
* `AmountIsTotal`: `inventory.reserved` carries no total, every charge is 0
  (payment-service/main.go:83 has "Derive total from event payload (set by
  order-service)"). No fault is needed.
* `HandlersAreIdempotent`, both halves, with one redelivery (and not without):
  `order.created` reserves again,
  because the conflict on the outbox key comes too late (README.md:138 has
  "handlers MUST be idempotent"); `payment.processed` asks the warehouse again,
  and if the outcome is another one, both `fulfillment.shipped` and
  `fulfillment.failed` are recorded (fulfillment-service/main.go:87). What is left
  of idempotence is `Causality`, `PaymentsMatchEvents` and `LedgerSpec`, which hold
  under redelivery.

Three limits of the positive results are worth knowing. `HealthyRowsGetOut` holds
while the poison rows do not fill the batches of all pollers (6 × 50); beyond
that no row gets out any more. `TransactionsEnd` counts the victim of a
deadlock as ended: if it was a reservation, its message is gone and
`saga_lost_event` is what follows. `LoopsGetThrough` counts panics: a model
that answers the same message with a fenced single line for ever makes the
process panic for ever, and its poller and its other loops with it.

## 4. Fairness

* `Saga!Fairness`: weak fairness of `Publish` for each row and of `Deliver` for
  each consumer loop and order. The ticker of the poller fires for ever; a
  consumer blocks in `FetchMessage` until there is a message and then handles
  it; a service that stops is started again (`restart: unless-stopped` in
  `docker-compose.yml`). The single-container deployment of `cmd/runner` does
  not restart services and does not justify this. Nothing is assumed of
  `Create`, `HandlerError`, `Redeliver` or of the random outcomes.
* `OutboxPoller!FairSpec`: weak fairness of `Select` and of the work within a
  poll, for each poller. A row that is free stays so until a poller takes it,
  and the faults are finite.
* `StockTx!FairSpec`: strong fairness of each worker's next statement, because a
  statement that waits for a row lock may find it free and taken again, while
  Postgres serves the waiters of a row in turn; weak fairness of the deadlock
  detector.
* `Insights!FairSpec`: weak fairness of each loop's next step, because each call
  in it returns (the one of the model after 30 seconds at the latest), and of
  `Restart`, because the container is started again (`restart: unless-stopped`,
  docker-compose.yml:12). Under `cmd/runner` a service that exits stays down: there
  `LoopsGetThrough` holds only as long as nothing makes the process end, while the
  safety properties hold in both deployments.
* `PaymentTx!FairSpec`: strong fairness of each instance's next statement, for
  the same reason as in `StockTx`: the unique key may be free and taken again.
* `LiveFeed!FairSpec`: a loop that wants the mutex gets it (Go's mutexes hand it
  to who has waited longest), hence strong fairness of `StartBroadcast`; what it
  does under the mutex waits for nobody. Only the browsers in `Quick` read, and
  nobody has to connect or leave.
* `Runner!FairSpec`: the starting goroutine and `main` run, and the timer expires.
  Nothing is assumed of Kafka, of the children, of `ContextKill` or of `wg.Wait`.

## 5. What is proved

Each `*Proofs` module is about the module it is named after (`SagaProofs` about
`SagaProperties`, `SagaContractProofs` about its conditional properties) and holds for all values of the constants that satisfy the named
assumptions (`CartAssumption`, `BudgetAssumption`, `PollerAssumption`,
`InboxAssumption`, `PaymentAssumption`, `FeedAssumption`, `StockAssumption`,
`RunnerAssumption`), so for any number of orders, line items, SKUs, pollers, rows,
loops, messages, instances, browsers, services and faults.

**Saga.** `IInv == TypeOK /\ MessagesAreRecorded /\ Causality /\
PaymentsMatchEvents`. None of the last two is inductive alone: a handler looks
at nothing but the message it is given, so what it does is right only because
the message is of an event that was recorded (`MessagesAreRecorded`), and
because recording it needed its own cause (`Causality`). The refund, for
example, overwrites the payments row whatever it says; that it never touches a
declined payment follows from `fulfillment.failed` being recorded, hence
`payment.processed`, hence by `PaymentsMatchEvents` not `payment.failed`. The
proof has one lemma for each handler (it keeps the tables' part of the invariant
if its trigger is recorded) and one for each action of `Saga`.

| Theorem | States |
|---|---|
| `InvariantHolds` | `Spec => []IInv` |
| `TypeCorrect`, `MessagesAreTrue`, `CausalityHolds`, `PaymentsAreAnnounced` | the four parts of it, each checked by `saga_faults` |
| `PaymentsImplementLedger` | `Spec => LedgerSpec`: initial states map to initial states, each step to a move of the ledger or a stutter |
| `StockReturnedOnlyOnFailure` | `Spec => StockReturnedOnFailure` |

**Saga, while no message is handled twice.** The inventory and the fulfillment
service draw an outcome on every delivery, so that an order has one outcome is not
a matter of the tables: it needs that Kafka holds `order.created` and
`payment.processed` once. `OnceInv` says, of the states in which nothing was
published twice or redelivered (`HandledOnce`), that the rows of all messages in
Kafka are marked (`MessagesArePublished`) and no message is there twice
(`NoMessageTwice`); that whoever has drawn an outcome has been through the message
that asked for it (`DrawnOnce`), so the one it handles next is a fresh one; and that
each order's rows tell one story (`Story`). It is inductive together with `IInv`.
Handlers may fail any number of times. Every handler is shown to change one order
only, to keep that order's story and to take a step of `OrderContract` or none.

To say where an order ends, `SettleInv` adds what every consumer leaves behind:
a row that is marked is in Kafka (`MarkedIsSent`); as long as no handler has
failed, a consumer that has been through a message has done its work on it
(`WorkIsDone`), so an event that is recorded, sent and handled has its effect; a
notice tells of what has happened (`NoticesAreTrue`); and the stock and the status
of an order are what its recorded events say (`Books`). From `Books`, which needs no
handler to succeed, follows a sharp form of the finding that a failed order may keep
stock: `OnlyShortOrdersKeepStock` shows that the early exit of `reserveInventory` is
the only way to it.

| Theorem | States |
|---|---|
| `OneStory` | `Spec => []OnceInv` |
| `DecisionsAreSound` | `Spec => []StrandedButSound` |
| `OrdersImplementContract` | `Spec => ContractSpec` |
| `SettlementsAgree` | `Spec => []SettlementAgrees`, which is about runs in which no handler has failed either |
| `OnlyShortOrdersKeepStock` | `Spec => []StockFollowsStory`: a completed order holds its lines, a failed one holds nothing unless it recorded `inventory.reserve_failed`, and then less than all; however many handlers fail |

**Poller.** The inductive invariant adds to the type invariant, to
`LocksAreExclusive` and to `CopiesNeedFaults` that the rows a poll has been
through and marked are in Kafka, and how many copies a row has compared with
the faults so far and with whether a poll is between publishing and committing
it. `CopiesNeedFaults` alone is not inductive: it does not say that a row about
to be published has a copy to spare.

| Theorem | States |
|---|---|
| `InvariantHolds`, `TypeCorrect`, `LocksHold`, `NothingIsLost`, `DuplicatesNeedFaults` | the invariant and the four properties checked by `poller` |
| `PollersImplementRelay` | `Spec => RelaySpec` |

**Insights.** `NothingIsSkipped` speaks of committed offsets, but what a commit
does depends on what its loop has been through, so the invariant says the same
of `pos` and of a message about to be committed (`PassedIsDone`). To count rows
it says that a message a loop may still store was stored only before the last
reset (`AheadIsOlder`), and that nothing is half-way while the process is down
(`DownIsIdle`).

| Theorem | States |
|---|---|
| `InvariantHolds`, `TypeCorrect`, `NoneSkipped`, `DuplicatesNeedResets` | the invariant and the three safety properties checked by `insights` |

**Payments.** That the events match the payments is not inductive: it needs that
the instance about to commit finds no payment there. `InsertedIsAlone` says that
an order whose key is inserted by an open transaction has no committed payment,
and that no second transaction has inserted it.

| Theorem | States |
|---|---|
| `InvariantHolds`, `TypeCorrect`, `EventsAgree`, `EndedIsDecided` | the invariant and three properties checked by `payments` |
| `RaceImplementsLedger` | `Spec => LedgerSpec` |

**Stock.** Nothing is assumed of the sign of the quantities. That no reservation
oversells (`OnlyUndoingOversells`) is not inductive: it speaks of committed stock,
and a commit is right because of what its transaction saw when it ran its
statements. `ChangesAreLocked` says that whoever has changed the stock of a SKU holds
its row, so what fitted when the lock was given still fits at the commit;
`NothingOversold` says the same as the property of what a transaction sees, its own
changes included; `BooksFollowCarts` that what an order
holds of a SKU is negative only if it lists that SKU with a negative quantity, so that
giving back takes nothing off the shelf otherwise. `ReleasesAreLocked` has a
compensation hold its order's saga from its first UPDATE on, so the reservations it
releases are still there; `JobsAreOrders` says that a busy worker has an order and a
compensating one an order that has failed, and `WalksAreComplete` that no SKU of
its list is missing from its walk. Rollbacks, deadlock victims and redelivered
messages are part of it.

That stock is conserved needs to know what an open transaction is about to commit.
`TotalInv` adds, of a reservation, that its rows are what the line items before the
current one ask for and that it has taken as much from the shelf (`Taking`); of a
compensation, that what it gives back is what its order holds and what it releases if
`order.created` was delivered once, and otherwise no more than either, but for the
SKUs listed with a negative quantity (`GivingBack`); and
that no reservation is at work on an order that is answered, or beside another one,
unless that order was delivered twice (`Answering`). The last is why the exact form
of `StockIsConserved` has its condition: after a second delivery a compensation may
read the reservations before a later one commits and release them with it.
`AllFitting` says that the line items of an open reservation, taken one after the
other from the committed stock, still fit: with quantities of both signs it does not
follow from the totals, and the refinement needs it at the commit.

The sums over orders and line items are recursive, and the proof needs two facts
that are seldom stated: that a function defined by its value at 0 and a step exists
and is the only one, and that a finite sum does not depend on the order of its
summands and changes by as much as one of them. The induction behind both is done
with sets: the smallest counterexample of a set of numbers, by `WFMin`. The sum over
all orders exists only if they are finitely many, hence the finiteness in
`StockAssumption`; that of `Worker` is for the next result.

`NobodyIsStuck` is the part of `TransactionsEnd` that is not about fairness. A
worker that cannot move waits for the holder of a lock, and a lock is held only by a
transaction that is under way (`LocksAreUsed`). Follow the waits: since there are
finitely many workers, the chain comes to one that can move or closes to a circle,
which is what `DeadlockVictim` looks for. No lock is orphaned and no circle escapes
the detector.

| Theorem | States |
|---|---|
| `InvariantHolds`, `TypeCorrect`, `NothingIsOversold` | the invariant and two of the properties checked by `stock` |
| `TotalsHold`, `StockStays` | `Spec => []TotalInv`, `Spec => []StockIsConserved` |
| `TransactionsImplementShelf` | `Spec => ShelfSpec`: a commit is the one step in which a transaction takes effect |
| `NobodyStuck` | `Spec => []NobodyIsStuck` |

**Runner.** A child that outlives the runner must have been missing from the
snapshot (`Timeout` kills the others) and from the count when `wg.Wait` returned.
`ListsAreComplete` says that every started child but the one the starting
goroutine is at is listed and counted; `OneAtMost(S)` that of the children in `S`
at most one runs, and none if another is about to be forked; `LateOnes` claims it
for the children missing from the snapshot, and for all of them once `wg.Wait` has
returned.

| Theorem | States |
|---|---|
| `InvariantHolds`, `TypeCorrect`, `FewSurvive` | the invariant and the safety properties checked by `runner` |

**Live feed.** `LoopsInv` says what the mutex gives: one broadcast at a time, its
event the last of `sent`, and `sent` without repetition. `FeedOf(b)` says of a
registered browser that what it was given follows `sent`, that it and what was
dropped leave no gap but the event under way, and that it was given no more than
was sent since it was registered. The last is what makes a drop mean something: a
full channel holds `Capacity` events of this connection, so as many have gone by.

| Theorem | States |
|---|---|
| `InvariantHolds`, `TypeCorrect`, `NothingIsMislaid`, `AllSeeOneOrder` | the invariant and the three safety properties checked by `feed` |

**Only model-checked.** The ten liveness properties (`OrderSettles`,
`RefundFollows`, `HealthyRowsGetOut`, `TransactionsEnd`, `LoopsGetThrough`,
`DeliveriesEnd`, `FeedDrains`, `QuickBrowsersSeeEvents`, `RunnerEnds`,
`AllServicesStart`), because the prover supports neither fairness nor `ENABLED`. Every
invariant, action property and refinement of a passing run is stated by a theorem.

## 6. Not modelled

`getOrder`, the dashboard's queries and pages, the scripts and the database pool
only read or do I/O; `simulateOrder` posts to the order service, which is
`Create`. The queries behind `/api/stats` run one after the other and may count
different moments; nothing is decided on them. Timestamps, tracking numbers,
reasons and message texts are left out where no handler reads them; the amount
charged is kept because it is wrong. Tables are never emptied and the outbox is
never pruned, in the code as in the model. `LiveFeed` has no redelivery to the
dashboard's own consumer group: an event that is fetched twice is broadcast
twice, as a new event.

## 7. Plan

Done: the saga, the outbox, the insights, the stock, the payments, the live feed
and the runner.

What is left is the saga under the runner: services that exit and are not started
again, and which orders can then still settle.

## 8. Running

    tlc -config MCSagaFaults.cfg MCSaga.tla
    tlc -config MCOutboxPoller.cfg MCOutboxPoller.tla
    tlc -config MCStockTx.cfg MCStockTx.tla
    tlc -config MCInsights.cfg MCInsights.tla
    tlc -config MCPaymentTx.cfg MCPaymentTx.tla
    tlc -config MCLiveFeed.cfg MCLiveFeed.tla
    tlc -config MCRunner.cfg MCRunner.tla
    tlapm SagaProofs.tla
    tlapm SagaContractProofs.tla
    tlapm OutboxPollerProofs.tla
    tlapm InsightsProofs.tla
    tlapm PaymentTxProofs.tla
    tlapm StockTxProofs.tla
    tlapm RunnerProofs.tla
    tlapm LiveFeedProofs.tla

Definitions whose comment begins with "Mutant:" are deliberately wrong variants
of the definition that follows them; nothing uses them but the mutation runs
listed in `PROJECT.json`, which show that each property notices such a bug.
