-------------------------- MODULE InventoryService --------------------------
(***************************************************************************)
(* The consumer that reserves stock (cmd/inventory-service).  How much     *)
(* stock there is depends on every other order, so which line item is the  *)
(* first that does not fit is left open.                                   *)
(***************************************************************************)
EXTENDS SagaState

\* makeHandler: the event types it does not return early for.
InventoryTriggers == {"order.created"}

\* reserveInventory: the loop reserves the line items one after the other
\* and stops at the first that does not fit.  The rows reserved before it
\* are committed together with the inventory.reserve_failed event.
ReserveInventory(o) ==
  \E n \in 0 .. Lines[o] :
    /\ reserved' = [reserved EXCEPT ![o] = @ + n]
    /\ AppendOutbox(o, {IF n = Lines[o] THEN "inventory.reserved"
                                        ELSE "inventory.reserve_failed"})
    /\ UNCHANGED <<orders, sagas, payments, fulfillments>>

InventoryHandler(o, e) ==
  IF e \in InventoryTriggers THEN ReserveInventory(o) ELSE UNCHANGED tables

=============================================================================
