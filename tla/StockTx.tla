------------------------------- MODULE StockTx -------------------------------
(***************************************************************************)
(* The transactions that move stock, statement by statement: the           *)
(* reservation of the inventory service and the compensations of the       *)
(* orchestrator.  They run at the READ COMMITTED level of Postgres: a      *)
(* SELECT sees what is committed when it runs, an UPDATE waits for the     *)
(* lock of the row and then looks at the row again, and locks are kept to  *)
(* the end of the transaction.  Transactions that wait for each other are  *)
(* detected and one of them fails; its handler returns the error and the   *)
(* message is gone.                                                        *)
(*                                                                         *)
(* A reservation is known here by how much of each SKU it holds.  A line   *)
(* item may ask for any quantity: createOrder refuses an empty cart only,  *)
(* and no statement and no CHECK looks at the sign.                        *)
(***************************************************************************)
EXTENDS Integers, Sequences, FiniteSets, FiniteSetsExt

CONSTANTS
  Order, Sku,
  Stocked,       \* the SKUs that have a row in inventory_stock
  Items,         \* Items[o]: sequence of [sku, qty], as the order lists them
  Stock0,        \* the stock on the shelf at the start
  Reserver,      \* inventory service instances
  Compensator,   \* orchestrator loops that compensate
  NoOne,
  MaxDeliveries, \* MaxDeliveries[o]: how often order.created is delivered
  MaxFailures    \* MaxFailures[o]: how often payment.failed or
                 \*                 fulfillment.failed is

Worker == Reserver \cup Compensator

ASSUME StockAssumption ==
  /\ Items \in [Order -> Seq([sku : Sku, qty : Int])]
  /\ \A o \in Order : Items[o] # <<>>
  /\ Stocked \subseteq Sku /\ Stock0 \in [Sku -> Nat]
  /\ Reserver \cap Compensator = {} /\ NoOne \notin Worker \cup Order
  /\ MaxDeliveries \in [Order -> Nat] /\ MaxFailures \in [Order -> Nat]
  /\ IsFiniteSet(Order) /\ IsFiniteSet(Worker)

VARIABLES
  stock,       \* inventory_stock.available_qty, committed
  reserved,    \* reserved[o][s]: committed reservations in status 'reserved'
  answered,    \* answered[o]: the inventory events recorded for o
  deliveries,  \* deliveries[o]: reservations started for o
  failures,    \* failures[o]: compensations started for o
  pc,          \* pc[w]: the statement w is at
  job,         \* job[w]: the order w works on
  item,        \* item[w]: the line item a reserver is at
  list,        \* list[w]: what a compensator's SELECT returned, less what it
               \*          put back already
  queue,       \* queue[w]: the SKUs of that list, in the order of its rows
  delta,       \* delta[w][s]: what w has added to the stock, not committed
  rows,        \* rows[w][s]: reservations w has inserted (reserver) or marked
               \*             as released (compensator), not committed
  stockLock,   \* stockLock[s]: who holds the row lock of SKU s
  sagaLock     \* sagaLock[o]: who holds the row lock of o's saga

tx == <<pc, job, item, list, queue, delta, rows>>
locks == <<stockLock, sagaLock>>
committed == <<stock, reserved, answered>>
vars == <<committed, deliveries, failures, tx, locks>>

Zero == [s \in Sku |-> 0]
Plus(f, g) == [s \in Sku |-> f[s] + g[s]]
Minus(f, g) == [s \in Sku |-> f[s] - g[s]]
One(s, n) == [Zero EXCEPT ![s] = n]

TypeOK ==
  /\ stock \in [Sku -> Int]
  /\ reserved \in [Order -> [Sku -> Int]]
  /\ answered \in [Order -> SUBSET {"inventory.reserved", "inventory.reserve_failed"}]
  /\ deliveries \in [Order -> Nat] /\ failures \in [Order -> Nat]
  /\ \A o \in Order : deliveries[o] <= MaxDeliveries[o] /\ failures[o] <= MaxFailures[o]
  /\ pc \in [Worker -> {"idle", "take", "full", "short", "saga", "select",
                        "restock", "done"}]
  /\ job \in [Worker -> Order \cup {NoOne}]
  /\ item \in [Worker -> Nat]
  /\ list \in [Worker -> [Sku -> Int]]
  /\ queue \in [Worker -> Seq(Sku)]
  /\ delta \in [Worker -> [Sku -> Int]]
  /\ rows \in [Worker -> [Sku -> Int]]
  /\ stockLock \in [Sku -> Worker \cup {NoOne}]
  /\ sagaLock \in [Order -> Worker \cup {NoOne}]
  /\ \A w \in Worker : pc[w] = "idle" <=> job[w] = NoOne

Init ==
  /\ stock = Stock0
  /\ reserved = [o \in Order |-> Zero]
  /\ answered = [o \in Order |-> {}]
  /\ deliveries = [o \in Order |-> 0]
  /\ failures = [o \in Order |-> 0]
  /\ pc = [w \in Worker |-> "idle"]
  /\ job = [w \in Worker |-> NoOne]
  /\ item = [w \in Worker |-> 0]
  /\ list = [w \in Worker |-> Zero]
  /\ queue = [w \in Worker |-> <<>>]
  /\ delta = [w \in Worker |-> Zero]
  /\ rows = [w \in Worker |-> Zero]
  /\ stockLock = [s \in Sku |-> NoOne]
  /\ sagaLock = [o \in Order |-> NoOne]

-----------------------------------------------------------------------------
(* reserveInventory                                                        *)

\* order.created is delivered to reserver w.
BeginReserve(w, o) ==
  /\ pc[w] = "idle"
  /\ deliveries[o] < MaxDeliveries[o]
  /\ deliveries' = [deliveries EXCEPT ![o] = @ + 1]
  /\ job' = [job EXCEPT ![w] = o]
  /\ item' = [item EXCEPT ![w] = 1]
  /\ pc' = [pc EXCEPT ![w] = "take"]
  /\ UNCHANGED <<committed, failures, list, queue, delta, rows, locks>>

Line(w) == Items[job[w]][item[w]]

\* What w sees of a SKU: the committed quantity and its own changes.
Seen(w, s) == stock[s] + delta[w][s]

\* Mutant: the quantity is read first and the decrement does not check it.
FitsUnchecked(w) == Line(w).sku \in Stocked

\* The WHERE clause of the decrement: the SKU has a row, and available_qty >= qty.
Fits(w) == Line(w).sku \in Stocked /\ Seen(w, Line(w).sku) >= Line(w).qty

Free(w, s) == stockLock[s] \in {NoOne, w}

\* UPDATE inventory_stock ... WHERE available_qty >= qty hits the row, and
\* the reservation is inserted.
TakeItem(w) ==
  /\ pc[w] = "take"
  /\ Fits(w)
  /\ Free(w, Line(w).sku)
  /\ LET s == Line(w).sku  q == Line(w).qty IN
       /\ stockLock' = [stockLock EXCEPT ![s] = w]
       /\ delta' = [delta EXCEPT ![w][s] = @ - q]
       /\ rows' = [rows EXCEPT ![w][s] = @ + q]
  /\ item' = [item EXCEPT ![w] = @ + 1]
  /\ pc' = [pc EXCEPT ![w] = IF item[w] = Len(Items[job[w]]) THEN "full" ELSE "take"]
  /\ UNCHANGED <<committed, deliveries, failures, job, list, queue, sagaLock>>

\* The UPDATE hits no row: the loop ends here, with what it has reserved.
MissItem(w) ==
  /\ pc[w] = "take"
  /\ ~Fits(w)
  /\ pc' = [pc EXCEPT ![w] = "short"]
  /\ UNCHANGED <<committed, deliveries, failures, job, item, list, queue, delta, rows, locks>>

-----------------------------------------------------------------------------
(* The end of a transaction                                                *)

\* Mutant: the worker does not let go of its order.
EndTxKeepingJob(w) ==
  /\ pc' = [pc EXCEPT ![w] = "idle"]
  /\ UNCHANGED job
  /\ item' = [item EXCEPT ![w] = 0]
  /\ list' = [list EXCEPT ![w] = Zero]
  /\ queue' = [queue EXCEPT ![w] = <<>>]
  /\ delta' = [delta EXCEPT ![w] = Zero]
  /\ rows' = [rows EXCEPT ![w] = Zero]
  /\ stockLock' = [s \in Sku |-> IF stockLock[s] = w THEN NoOne ELSE stockLock[s]]
  /\ sagaLock' = [o \in Order |-> IF sagaLock[o] = w THEN NoOne ELSE sagaLock[o]]

\* The worker is idle again, its locks are free.
EndTx(w) ==
  /\ pc' = [pc EXCEPT ![w] = "idle"]
  /\ job' = [job EXCEPT ![w] = NoOne]
  /\ item' = [item EXCEPT ![w] = 0]
  /\ list' = [list EXCEPT ![w] = Zero]
  /\ queue' = [queue EXCEPT ![w] = <<>>]
  /\ delta' = [delta EXCEPT ![w] = Zero]
  /\ rows' = [rows EXCEPT ![w] = Zero]
  /\ stockLock' = [s \in Sku |-> IF stockLock[s] = w THEN NoOne ELSE stockLock[s]]
  /\ sagaLock' = [o \in Order |-> IF sagaLock[o] = w THEN NoOne ELSE sagaLock[o]]

\* The outbox row is inserted and everything is committed, the items that
\* did fit before one did not included.
CommitReserve(w) ==
  /\ pc[w] \in {"full", "short"}
  /\ stock' = Plus(stock, delta[w])
  /\ reserved' = [reserved EXCEPT ![job[w]] = Plus(@, rows[w])]
  /\ answered' = [answered EXCEPT ![job[w]] = @ \cup
                    {IF pc[w] = "full" THEN "inventory.reserved"
                                       ELSE "inventory.reserve_failed"}]
  /\ EndTx(w)
  /\ UNCHANGED <<deliveries, failures>>

-----------------------------------------------------------------------------
(* compensatePaymentFailed, compensateFulfillmentFailed                    *)

\* payment.failed or fulfillment.failed is delivered to compensator w: the
\* stock of o was reserved before.
BeginCompensate(w, o) ==
  /\ pc[w] = "idle"
  /\ "inventory.reserved" \in answered[o]
  /\ failures[o] < MaxFailures[o]
  /\ failures' = [failures EXCEPT ![o] = @ + 1]
  /\ job' = [job EXCEPT ![w] = o]
  /\ pc' = [pc EXCEPT ![w] = "saga"]
  /\ UNCHANGED <<committed, deliveries, item, list, queue, delta, rows, locks>>

\* Mutant: the saga is only marked at the end, nothing is locked here.
MarkSagaLater(w) ==
  /\ pc[w] = "saga"
  /\ pc' = [pc EXCEPT ![w] = "select"]
  /\ UNCHANGED <<committed, deliveries, failures, job, item, list, queue, delta, rows, locks>>

\* The first UPDATE locks the saga: compensations of one order take turns.
MarkSaga(w) ==
  /\ pc[w] = "saga"
  /\ sagaLock[job[w]] \in {NoOne, w}
  /\ sagaLock' = [sagaLock EXCEPT ![job[w]] = w]
  /\ pc' = [pc EXCEPT ![w] = "select"]
  /\ UNCHANGED <<committed, deliveries, failures, job, item, list, queue, delta, rows, stockLock>>

InCart(o) == {Items[o][i].sku : i \in DOMAIN Items[o]}

\* The SELECT orders nothing: the ways its rows may lead through the SKUs.  All
\* that o holds of a SKU is put back where its first row is, since the later
\* ones wait for nothing; rows that cancel out, or hold 0, may be there too.
Walks(o) ==
  {q \in UNION {[1 .. n -> InCart(o)] : n \in 0 .. Len(Items[o])} :
     \A s \in Sku : reserved[o][s] # 0 => \E i \in DOMAIN q : q[i] = s}

\* SELECT sku, quantity FROM inventory_reservations ... 'reserved'
SelectReserved(w) ==
  /\ pc[w] = "select"
  /\ list' = [list EXCEPT ![w] = reserved[job[w]]]
  /\ \E q \in Walks(job[w]) : queue' = [queue EXCEPT ![w] = q]
  /\ pc' = [pc EXCEPT ![w] = "restock"]
  /\ UNCHANGED <<committed, deliveries, failures, job, item, delta, rows, locks>>

\* One UPDATE after the other; it looks at no quantity.
Restock(w) ==
  /\ pc[w] = "restock"
  /\ queue[w] # <<>>
  /\ LET s == Head(queue[w]) IN
       /\ Free(w, s)
       /\ stockLock' = [stockLock EXCEPT ![s] = w]
       /\ delta' = [delta EXCEPT ![w][s] = @ + list[w][s]]
       /\ list' = [list EXCEPT ![w][s] = 0]
  /\ queue' = [queue EXCEPT ![w] = Tail(@)]
  /\ UNCHANGED <<committed, deliveries, failures, pc, job, item, rows, sagaLock>>

\* UPDATE inventory_reservations SET status = 'released': all that are
\* reserved when this statement runs.
ReleaseRows(w) ==
  /\ pc[w] = "restock"
  /\ queue[w] = <<>>
  /\ rows' = [rows EXCEPT ![w] = reserved[job[w]]]
  /\ pc' = [pc EXCEPT ![w] = "done"]
  /\ UNCHANGED <<committed, deliveries, failures, job, item, list, queue, delta, locks>>

\* Mutant: the locks outlive the transaction.
CommitCompensateKeepingLocks(w) ==
  /\ pc[w] = "done"
  /\ stock' = Plus(stock, delta[w])
  /\ reserved' = [reserved EXCEPT ![job[w]] = Minus(@, rows[w])]
  /\ pc' = [pc EXCEPT ![w] = "idle"]
  /\ job' = [job EXCEPT ![w] = NoOne]
  /\ delta' = [delta EXCEPT ![w] = Zero]
  /\ rows' = [rows EXCEPT ![w] = Zero]
  /\ UNCHANGED <<answered, deliveries, failures, item, list, queue, locks>>

\* The saga, the order and the outbox are written and all is committed.
CommitCompensate(w) ==
  /\ pc[w] = "done"
  /\ stock' = Plus(stock, delta[w])
  /\ reserved' = [reserved EXCEPT ![job[w]] = Minus(@, rows[w])]
  /\ EndTx(w)
  /\ UNCHANGED <<answered, deliveries, failures>>

-----------------------------------------------------------------------------
(* Transactions that do not commit                                         *)

\* A statement or COMMIT fails (a connection is lost, an integer is out of
\* range), the context is cancelled or the process ends: nothing stays.
Rollback(w) ==
  /\ pc[w] # "idle"
  /\ EndTx(w)
  /\ UNCHANGED <<committed, deliveries, failures>>

\* v has a statement to run that needs a lock w holds.
WaitsFor(v, w) ==
  /\ v # w
  /\ \/ pc[v] = "take" /\ Fits(v) /\ stockLock[Line(v).sku] = w
     \/ pc[v] = "saga" /\ sagaLock[job[v]] = w
     \/ pc[v] = "restock" /\ queue[v] # <<>> /\ stockLock[Head(queue[v])] = w

\* w is one of a circle of transactions that wait for each other.
Deadlocked(w) ==
  \E S \in SUBSET Worker :
    /\ w \in S
    /\ \A v \in S : (\E u \in S : WaitsFor(v, u)) /\ (\E u \in S : WaitsFor(u, v))

\* The server cancels w: nothing of it stays, and its message is not
\* delivered again.
DeadlockVictim(w) ==
  /\ Deadlocked(w)
  /\ EndTx(w)
  /\ UNCHANGED <<committed, deliveries, failures>>

-----------------------------------------------------------------------------
Reserving(w) == TakeItem(w) \/ MissItem(w) \/ CommitReserve(w)

Compensating(w) ==
  \/ MarkSaga(w) \/ SelectReserved(w) \/ Restock(w)
  \/ ReleaseRows(w) \/ CommitCompensate(w)

Next ==
  \/ \E w \in Reserver : Reserving(w) \/ \E o \in Order : BeginReserve(w, o)
  \/ \E w \in Compensator : Compensating(w) \/ \E o \in Order : BeginCompensate(w, o)
  \/ \E w \in Worker : Rollback(w) \/ DeadlockVictim(w)

Spec == Init /\ [][Next]_vars

\* The server runs every statement that need not wait, hands a lock to who
\* waits for it, and looks for deadlocks.
FairSpec ==
  /\ Spec
  /\ \A w \in Reserver : SF_vars(Reserving(w))
  /\ \A w \in Compensator : SF_vars(Compensating(w))
  /\ \A w \in Worker : WF_vars(DeadlockVictim(w))

-----------------------------------------------------------------------------
\* What all orders hold of a SKU.
HeldOf(s) == MapThenSumSet(LAMBDA o : reserved[o][s], Order)

\* Each transaction takes effect at once: this is what Saga assumes of it.
Shelf == INSTANCE StockShelf
           WITH shelf <- stock, held <- reserved, asked <- deliveries
ShelfSpec == Shelf!Spec

\* No stock is made, although reservations and compensations of several
\* orders run at once and the compensation reads the reservations in one
\* statement and releases them in another: what is on the shelf and what the
\* orders hold is never more than there was.  None is lost either, unless an
\* order.created is delivered twice; and stock is made only if that order
\* lists the SKU with a quantity below 0.
StockIsConserved ==
  \A s \in Sku :
    LET total == stock[s] + HeldOf(s) IN
      /\ (\A o \in Order : Shelf!Negative(o, s) => deliveries[o] <= 1)
           => total <= Stock0[s]
      /\ (\A o \in Order : deliveries[o] <= 1) => total = Stock0[s]

\* Stock is not oversold: a reservation never takes what is not there,
\* whatever the others do between its statements.  Only a compensation can,
\* of an order that listed the SKU with a quantity below 0.
OnlyUndoingOversells ==
  \A s \in Sku :
    stock[s] < 0 => \E o \in Order : Shelf!Negative(o, s) /\ failures[o] > 0

\* No transaction waits for ever.
TransactionsEnd == \A w \in Worker : pc[w] # "idle" ~> pc[w] = "idle"

=============================================================================
