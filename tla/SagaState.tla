------------------------------ MODULE SagaState ------------------------------
(***************************************************************************)
(* The database all services share: one variable per table, with the       *)
(* columns some handler reads or some property tells apart.  Timestamps,   *)
(* failure reasons and tracking numbers are left out.                      *)
(***************************************************************************)
EXTENDS Integers, Sequences, SagaEvents

CONSTANTS
  Order,   \* order ids
  Lines,   \* Lines[o]: how many line items the request for o carries
  Total    \* Total[o]: what those items cost

ASSUME CartAssumption ==
  /\ Lines \in [Order -> Nat]
  /\ Total \in [Order -> Nat]

VARIABLES
  orders,        \* orders.status, or "none" before the INSERT
  sagas,         \* sagas.status and sagas.current_step
  reserved,      \* number of inventory_reservations rows in status 'reserved'
  payments,      \* payments.status and payments.amount
  fulfillments,  \* fulfillments.status
  outbox         \* outbox_events: state of the row of each event type

tables == <<orders, sagas, reserved, payments, fulfillments, outbox>>

Step ==
  {"none", "reserve_inventory", "process_payment", "fulfill_order",
   "release_inventory", "refund_payment", "completed"}

TablesTypeOK ==
  /\ orders \in [Order -> {"none", "pending", "completed", "failed"}]
  /\ sagas \in [Order -> [status : SagaStatus \cup {"none"}, step : Step]]
  /\ reserved \in [Order -> Nat]
  /\ payments \in [Order -> [status : {"none", "processed", "failed", "refunded"},
                             amount : Nat]]
  /\ fulfillments \in [Order -> {"none", "shipped", "failed"}]
  /\ outbox \in [Order -> [EventType -> {"absent", "pending", "published"}]]

TablesInit ==
  /\ orders = [o \in Order |-> "none"]
  /\ sagas = [o \in Order |-> [status |-> "none", step |-> "none"]]
  /\ reserved = [o \in Order |-> 0]
  /\ payments = [o \in Order |-> [status |-> "none", amount |-> 0]]
  /\ fulfillments = [o \in Order |-> "none"]
  /\ outbox = [o \in Order |-> [e \in EventType |-> "absent"]]

\* The event has an outbox row, published or not.
Recorded(o, e) == outbox[o][e] # "absent"

\* INSERT INTO outbox_events ... ON CONFLICT (idempotency_key) DO NOTHING,
\* for every event of E: an event recorded before keeps its row as it is.
AppendOutbox(o, E) ==
  outbox' = [outbox EXCEPT ![o] =
               [e \in EventType |-> IF e \in E /\ outbox[o][e] = "absent"
                                    THEN "pending" ELSE outbox[o][e]]]

=============================================================================
