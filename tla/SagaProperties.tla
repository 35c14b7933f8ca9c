--------------------------- MODULE SagaProperties ---------------------------
(***************************************************************************)
(* What is claimed of Saga: what holds under every fault the model has,    *)
(* what needs handlers that do not fail or messages that are not handled   *)
(* twice, and what the documents of the repository say and the code does   *)
(* not do.                                                                 *)
(***************************************************************************)
EXTENDS Saga

\* Nothing of the order is left to be published or handled.
Quiescent(o) ==
  /\ \A e \in EventType : outbox[o][e] # "pending"
  /\ \A c \in Consumer : ~HasNext(c, o)

\* Every message has been handled once at most.
HandledOnce == resets = 0 /\ dups = 0

-----------------------------------------------------------------------------
(* Whatever is lost, duplicated or redelivered                             *)

\* The events one of which must have been recorded before e is.
Causes(e) ==
  CASE e \in {"inventory.reserved", "inventory.reserve_failed"} -> {"order.created"}
    [] e \in {"payment.processed", "payment.failed"} -> {"inventory.reserved"}
    [] e \in {"fulfillment.shipped", "fulfillment.failed"} -> {"payment.processed"}
    [] e = "payment.refunded" -> {"fulfillment.failed"}
    [] e = "inventory.released" -> {"payment.failed", "fulfillment.failed"}
    [] e = "order.completed" -> {"fulfillment.shipped"}
    [] e = "order.failed" ->
         {"inventory.reserve_failed", "payment.failed", "fulfillment.failed"}
    [] e = "order.created" -> {"order.created"}

\* No service acts before the step of the saga it depends on: every recorded
\* event has a recorded cause, so nothing is charged before the stock is
\* reserved, shipped before it is paid, or refunded unless shipping failed.
Causality ==
  \A o \in Order, e \in EventType :
    Recorded(o, e) => \E c \in Causes(e) : Recorded(o, c)

\* Kafka holds no message whose row some transaction did not commit: what a
\* consumer is told has happened.
MessagesAreRecorded ==
  \A t \in Topic, o \in Order :
    \A i \in 1 .. Len(log[t][o]) : Recorded(o, log[t][o][i])

\* The payments row and the payment events never disagree, although two
\* services write the row and one of them (the refund) looks at nothing: an
\* order is charged or declined, not both, and is refunded exactly when the
\* refund is announced.
PaymentsMatchEvents ==
  \A o \in Order :
    /\ payments[o].status = "none" <=>
         ~Recorded(o, "payment.processed") /\ ~Recorded(o, "payment.failed")
    /\ payments[o].status = "failed" <=> Recorded(o, "payment.failed")
    /\ payments[o].status = "refunded" <=> Recorded(o, "payment.refunded")
    /\ ~(Recorded(o, "payment.processed") /\ Recorded(o, "payment.failed"))

\* Stock of an order goes back to the shelf only when its payment or its
\* shipping failed, and never without inventory.released being announced.
StockReturnedOnFailure ==
  [][\A o \in Order :
       reserved'[o] < reserved[o] =>
         /\ Recorded(o, "payment.failed") \/ Recorded(o, "fulfillment.failed")
         /\ Recorded(o, "inventory.released")']_vars

\* The payments table keeps the promise of PaymentLedger.
Ledger == INSTANCE PaymentLedger
            WITH ledger <- [o \in Order |-> payments[o].status]
LedgerSpec == Ledger!Spec

-----------------------------------------------------------------------------
(* While no handler fails                                                  *)

\* An order that was accepted is completed or failed in the end, and the
\* customer hears of it, although consumers restart and rows are published
\* twice.
OrderSettles ==
  \A o \in Order :
    orders[o] = "pending" ~>
      \/ errors > 0
      \/ orders[o] = "completed" /\ "success" \in notified[o]
      \/ orders[o] = "failed" /\ "failure" \in notified[o]

\* Money taken for an order whose shipping failed is given back in the end.
RefundFollows ==
  \A o \in Order :
    Recorded(o, "fulfillment.failed") ~> payments[o].status = "refunded" \/ errors > 0

-----------------------------------------------------------------------------
(* While no message is handled twice                                       *)

\* An order whose handlers fail may be left pending for ever, but what was
\* decided is sound from the step that decided it: a completed order is paid
\* and shipped, a failed one is neither.
StrandedButSound ==
  \A o \in Order :
    HandledOnce =>
      /\ orders[o] = "completed" =>
           payments[o].status = "processed" /\ fulfillments[o] = "shipped"
      /\ orders[o] = "failed" =>
           payments[o].status # "processed" /\ fulfillments[o] # "shipped"

\* The order and the money take the steps of OrderContract: an order is
\* decided once, completed only with its money held, and the money held for
\* it goes back in the very step that fails it.
Contract == INSTANCE OrderContract
              WITH status <- orders,
                   money <- [o \in Order |->
                              CASE payments[o].status = "processed" -> "held"
                                [] payments[o].status = "refunded"  -> "returned"
                                [] OTHER                            -> "none"]
ContractSpec ==
  Contract!Init /\ [][HandledOnce' => Contract!Next]_(Contract!contract)

\* When every handler has done its work and the dust has settled, the tables
\* of all services tell one story: the order is completed, paid, shipped and
\* its stock is held, or it is failed and neither paid nor shipped; the
\* customer was told that and nothing else.
SettlementAgrees ==
  \A o \in Order :
    errors = 0 /\ HandledOnce /\ Quiescent(o) /\ orders[o] # "none" =>
      \/ /\ orders[o] = "completed"
         /\ payments[o].status = "processed"
         /\ fulfillments[o] = "shipped"
         /\ reserved[o] = Lines[o]
         /\ notified[o] = {"success"}
      \/ /\ orders[o] = "failed"
         /\ payments[o].status \in {"none", "failed", "refunded"}
         /\ payments[o].status # "none" => reserved[o] = 0
         /\ fulfillments[o] \in {"none", "failed"}
         /\ notified[o] = {"failure"}

-----------------------------------------------------------------------------
(* What the documents say and the code does not do                         *)

\* README: handlers are idempotent.  An order holds each of its lines at most
\* once, and the warehouse decides on it at most once.
HandlersAreIdempotent(o) ==
  /\ reserved[o] <= Lines[o]
  /\ ~(Recorded(o, "fulfillment.shipped") /\ Recorded(o, "fulfillment.failed"))

\* A failed order of which nothing is left to be done holds no stock.
FailedOrderHoldsNoStock(o) == orders[o] = "failed" => reserved[o] = 0

\* processPayment: the total charged is the one the order service computed.
AmountIsTotal(o) == payments[o].status = "processed" => payments[o].amount = Total[o]

\* README: "zero manual reconciliation on failures".  Once nothing is left to
\* be handled, nobody has to put right what the order holds or has paid.
NothingToReconcile ==
  \A o \in Order :
    Quiescent(o) =>
      HandlersAreIdempotent(o) /\ FailedOrderHoldsNoStock(o) /\ AmountIsTotal(o)

\* README: the saga and the order become completed together.  Once all is
\* handled, the saga of a completed order is completed.
SagaMatchesOrder ==
  \A o \in Order :
    Quiescent(o) /\ orders[o] = "completed" => sagas[o].status = "completed"

\* README: the saga guarantees eventual consistency.  Every accepted order is
\* settled, also when a handler has failed.
EveryOrderSettles ==
  \A o \in Order :
    orders[o] = "pending" ~> orders[o] \in {"completed", "failed"}

=============================================================================
