---------------------------- MODULE Orchestrator ----------------------------
(***************************************************************************)
(* The saga orchestrator (cmd/saga-orchestrator): it follows the events of *)
(* the services, moves the saga and compensates.  Each handler is one      *)
(* transaction (advanceStep: one statement); none of its UPDATEs looks at  *)
(* the state the saga is in.                                               *)
(***************************************************************************)
EXTENDS SagaState

\* advanceStep
AdvanceStep(o, step) ==
  /\ sagas' = [sagas EXCEPT ![o] = [status |-> "in_progress", step |-> step]]
  /\ UNCHANGED <<orders, reserved, payments, fulfillments, outbox>>

\* Mutant: the partial reservations are given back, but silently.
FailSagaReleasing(o) ==
  /\ sagas' = [sagas EXCEPT ![o] = [status |-> "failed", step |-> "reserve_inventory"]]
  /\ orders' = [orders EXCEPT ![o] = "failed"]
  /\ reserved' = [reserved EXCEPT ![o] = 0]
  /\ AppendOutbox(o, {"order.failed"})
  /\ UNCHANGED <<payments, fulfillments>>

\* failSaga: inventory.reserve_failed ends the saga without a compensation.
FailSaga(o) ==
  /\ sagas' = [sagas EXCEPT ![o] = [status |-> "failed", step |-> "reserve_inventory"]]
  /\ orders' = [orders EXCEPT ![o] = "failed"]
  /\ AppendOutbox(o, {"order.failed"})
  /\ UNCHANGED <<reserved, payments, fulfillments>>

\* Mutant: what the request asked for is given back, not what is reserved.
ReleaseRequested(o) == reserved' = [reserved EXCEPT ![o] = @ - Lines[o]]

\* Every reservation row of the order in status 'reserved' is given back to
\* the stock and becomes 'released'.
ReleaseInventory(o) == reserved' = [reserved EXCEPT ![o] = 0]

\* compensatePaymentFailed
CompensatePaymentFailed(o) ==
  /\ ReleaseInventory(o)
  /\ sagas' = [sagas EXCEPT ![o] = [status |-> "compensated", step |-> "release_inventory"]]
  /\ orders' = [orders EXCEPT ![o] = "failed"]
  /\ AppendOutbox(o, {"inventory.released", "order.failed"})
  /\ UNCHANGED <<payments, fulfillments>>

\* Mutant: the refund marks the payment as failed.
RefundAsFailed(o) ==
  payments' = IF payments[o].status = "none" THEN payments
              ELSE [payments EXCEPT ![o].status = "failed"]

\* Mutant: the refund is forgotten.
NoRefund(o) == payments' = payments

\* UPDATE payments SET status = 'refunded' WHERE order_id = ...: it hits
\* the row there is, whatever its status, and does nothing without a row.
RefundPayment(o) ==
  payments' = IF payments[o].status = "none" THEN payments
              ELSE [payments EXCEPT ![o].status = "refunded"]

\* compensateFulfillmentFailed
CompensateFulfillmentFailed(o) ==
  /\ RefundPayment(o)
  /\ ReleaseInventory(o)
  /\ sagas' = [sagas EXCEPT ![o] = [status |-> "compensated", step |-> "refund_payment"]]
  /\ orders' = [orders EXCEPT ![o] = "failed"]
  /\ AppendOutbox(o, {"payment.refunded", "inventory.released", "order.failed"})
  /\ UNCHANGED fulfillments

\* completeSaga
CompleteSaga(o) ==
  /\ sagas' = [sagas EXCEPT ![o] = [status |-> "completed", step |-> "completed"]]
  /\ orders' = [orders EXCEPT ![o] = "completed"]
  /\ AppendOutbox(o, {"order.completed"})
  /\ UNCHANGED <<reserved, payments, fulfillments>>

\* Mutant: the saga is completed as soon as it is paid.
OrchestratorHandlerEager(o, e) ==
  \/ e = "inventory.reserved"       /\ AdvanceStep(o, "process_payment")
  \/ e = "inventory.reserve_failed" /\ FailSaga(o)
  \/ e = "payment.processed"        /\ CompleteSaga(o)
  \/ e = "payment.failed"           /\ CompensatePaymentFailed(o)
  \/ e = "fulfillment.shipped"      /\ CompleteSaga(o)
  \/ e = "fulfillment.failed"       /\ CompensateFulfillmentFailed(o)

\* Handle: the switch on the type of the event; other types are ignored.
OrchestratorHandler(o, e) ==
  \/ e = "inventory.reserved"       /\ AdvanceStep(o, "process_payment")
  \/ e = "inventory.reserve_failed" /\ FailSaga(o)
  \/ e = "payment.processed"        /\ AdvanceStep(o, "fulfill_order")
  \/ e = "payment.failed"           /\ CompensatePaymentFailed(o)
  \/ e = "fulfillment.shipped"      /\ CompleteSaga(o)
  \/ e = "fulfillment.failed"       /\ CompensateFulfillmentFailed(o)

=============================================================================
