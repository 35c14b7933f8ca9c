---------------------------- MODULE OrderService ----------------------------
(***************************************************************************)
(* The HTTP API that accepts an order (cmd/order-service).                 *)
(***************************************************************************)
EXTENDS SagaState

\* POST /orders: a request without items is refused; any other one inserts
\* the order, its saga and its order.created row in one transaction.  The
\* order id is fresh, so the request with this id is served once.
CreateOrder(o) ==
  /\ Lines[o] > 0
  /\ orders[o] = "none"
  /\ orders' = [orders EXCEPT ![o] = "pending"]
  /\ sagas' = [sagas EXCEPT ![o] = [status |-> "started", step |-> "reserve_inventory"]]
  /\ AppendOutbox(o, {"order.created"})
  /\ UNCHANGED <<reserved, payments, fulfillments>>

=============================================================================
