----------------------------- MODULE SagaEvents -----------------------------
(***************************************************************************)
(* The vocabulary every service shares: the events that travel through     *)
(* Kafka, the topic each of them is published to, and the status values of *)
(* the tables.  An event is identified by its type and its order, which is *)
(* what its idempotency key holds; what is left of the payload is the set  *)
(* of fields a consumer looks for.                                         *)
(***************************************************************************)

\* The event types some service really emits.  order.cancelled,
\* fulfillment.started and notification.sent are declared in the source but
\* no code writes them; ai.insight_generated is outside the saga.
EventType ==
  {"order.created", "order.completed", "order.failed",
   "inventory.reserved", "inventory.reserve_failed", "inventory.released",
   "payment.processed", "payment.failed", "payment.refunded",
   "fulfillment.shipped", "fulfillment.failed"}

SagaStatus ==
  {"started", "in_progress", "completed", "failed", "compensating",
   "compensated"}

Topic ==
  {"order-events", "inventory-events", "payment-events",
   "fulfillment-events", "saga-events"}

\* Mutant: the poller's switch lacks the fulfillment services' case.
TopicForWithoutFulfillment(e) ==
  CASE e = "order.created"                                        -> "order-events"
    [] e \in {"inventory.reserved", "inventory.reserve_failed"}   -> "inventory-events"
    [] e \in {"payment.processed", "payment.failed"}              -> "payment-events"
    [] OTHER                                                      -> "saga-events"

\* The topic an outbox row goes to.  The poller switches on the row's
\* aggregate_type; every event of one type is inserted with one aggregate
\* type, and the orchestrator inserts all of its events as 'saga'.
TopicFor(e) ==
  CASE e = "order.created"                                        -> "order-events"
    [] e \in {"inventory.reserved", "inventory.reserve_failed"}   -> "inventory-events"
    [] e \in {"payment.processed", "payment.failed"}              -> "payment-events"
    [] e \in {"fulfillment.shipped", "fulfillment.failed"}        -> "fulfillment-events"
    [] OTHER                                                      -> "saga-events"

\* The payload fields of an inventory.reserved event, the one whose payload
\* another service computes with.
ReservedPayload == {"items"}

=============================================================================
