--------------------------- MODULE PaymentService ---------------------------
(***************************************************************************)
(* The consumer that charges the customer (cmd/payment-service).           *)
(***************************************************************************)
EXTENDS SagaState

\* Mutant: the handler takes any message of the inventory topic.
PaymentTriggersUnfiltered == {"inventory.reserved", "inventory.reserve_failed"}

\* makeHandler: the event types it does not return early for.
PaymentTriggers == {"inventory.reserved"}

\* The amount charged: payload["total"] of the event being handled, or 0
\* when the payload has no such field (the failed type assertion).
ChargedAmount(o) == IF "total" \in ReservedPayload THEN Total[o] ELSE 0

\* Mutant: no guard and no UNIQUE constraint, each delivery charges.
ProcessPaymentUnguarded(o) ==
  \E outcome \in {"processed", "failed"} :
    /\ payments' = [payments EXCEPT ![o] =
                      [status |-> outcome, amount |-> ChargedAmount(o)]]
    /\ AppendOutbox(o, {IF outcome = "processed" THEN "payment.processed"
                                                 ELSE "payment.failed"})
    /\ UNCHANGED <<orders, sagas, reserved, fulfillments>>

\* processPayment: an order that has a payments row is left as it is, be it
\* found by the SELECT on the idempotency key or by the UNIQUE constraint the
\* INSERT runs into.  Otherwise the charge goes through or is declined.
ProcessPayment(o) ==
  IF payments[o].status # "none"
  THEN UNCHANGED tables
  ELSE \E outcome \in {"processed", "failed"} :
         /\ payments' = [payments EXCEPT ![o] =
                           [status |-> outcome, amount |-> ChargedAmount(o)]]
         /\ AppendOutbox(o, {IF outcome = "processed" THEN "payment.processed"
                                                      ELSE "payment.failed"})
         /\ UNCHANGED <<orders, sagas, reserved, fulfillments>>

PaymentHandler(o, e) ==
  IF e \in PaymentTriggers THEN ProcessPayment(o) ELSE UNCHANGED tables

=============================================================================
