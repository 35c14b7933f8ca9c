------------------------- MODULE FulfillmentService -------------------------
(***************************************************************************)
(* The consumer that ships the order (cmd/fulfillment-service).            *)
(***************************************************************************)
EXTENDS SagaState

\* makeHandler: the event types it does not return early for.
FulfillmentTriggers == {"payment.processed"}

\* startFulfillment: the warehouse is asked again on every delivery of the
\* event; the fulfillments row is overwritten (ON CONFLICT DO UPDATE) and the
\* event of this outcome is recorded beside the one of an earlier outcome.
StartFulfillment(o) ==
  \E outcome \in {"shipped", "failed"} :
    /\ fulfillments' = [fulfillments EXCEPT ![o] = outcome]
    /\ AppendOutbox(o, {IF outcome = "shipped" THEN "fulfillment.shipped"
                                               ELSE "fulfillment.failed"})
    /\ UNCHANGED <<orders, sagas, reserved, payments>>

FulfillmentHandler(o, e) ==
  IF e \in FulfillmentTriggers THEN StartFulfillment(o) ELSE UNCHANGED tables

=============================================================================
