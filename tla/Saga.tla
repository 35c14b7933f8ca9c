-------------------------------- MODULE Saga --------------------------------
(***************************************************************************)
(* The whole saga: the services' handlers (instances of their modules) are *)
(* driven by the messages of Kafka, and Kafka is filled from the outbox.   *)
(*                                                                         *)
(* A handler is one database transaction and is one step here; what may    *)
(* happen between the statements of two concurrent transactions is the     *)
(* subject of other modules.  The broker keeps, for every topic and order, *)
(* the messages in the order they were published (one order is one         *)
(* partition), and delivery is at least once: a consumer that stops        *)
(* between the handler and the commit of its offset, or whose commits      *)
(* fail, starts again from an offset it had handled already.               *)
(***************************************************************************)
EXTENDS OrderService, InventoryService, PaymentService, FulfillmentService,
        Orchestrator, NotificationService

CONSTANTS
  MaxResets,  \* how often a consumer falls back to its committed offset
  MaxDups,    \* how often a poller publishes a row without marking it
  MaxErrors   \* how often a handler fails

ASSUME BudgetAssumption ==
  /\ MaxResets \in Nat
  /\ MaxDups \in Nat
  /\ MaxErrors \in Nat

\* One per consumer loop; the orchestrator runs three, one for each topic.
Consumer ==
  {"inventory", "payment", "fulfillment",
   "orch-inventory", "orch-payment", "orch-fulfillment", "notification"}

TopicOf(c) ==
  CASE c = "inventory"        -> "order-events"
    [] c = "payment"          -> "inventory-events"
    [] c = "fulfillment"      -> "payment-events"
    [] c = "orch-inventory"   -> "inventory-events"
    [] c = "orch-payment"     -> "payment-events"
    [] c = "orch-fulfillment" -> "fulfillment-events"
    [] c = "notification"     -> "saga-events"

VARIABLES
  log,        \* log[t][o]: the messages about o published to topic t
  pos,        \* pos[c][o]: how many of them consumer c has been through
  committed,  \* committed[c][o]: a lower bound of its offset at the broker
  resets, dups, errors  \* faults that have happened, bounded by the Max*

broker == <<log, pos, committed>>
faults == <<resets, dups, errors>>
vars == <<tables, notified, broker, faults>>

TypeOK ==
  /\ TablesTypeOK
  /\ NotificationTypeOK
  /\ log \in [Topic -> [Order -> Seq(EventType)]]
  /\ pos \in [Consumer -> [Order -> Nat]]
  /\ committed \in [Consumer -> [Order -> Nat]]
  /\ \A c \in Consumer, o \in Order :
       committed[c][o] <= pos[c][o] /\ pos[c][o] <= Len(log[TopicOf(c)][o])
  /\ resets \in 0 .. MaxResets
  /\ dups \in 0 .. MaxDups
  /\ errors \in 0 .. MaxErrors

Init ==
  /\ TablesInit
  /\ NotificationInit
  /\ log = [t \in Topic |-> [o \in Order |-> <<>>]]
  /\ pos = [c \in Consumer |-> [o \in Order |-> 0]]
  /\ committed = [c \in Consumer |-> [o \in Order |-> 0]]
  /\ resets = 0
  /\ dups = 0
  /\ errors = 0

-----------------------------------------------------------------------------
\* A client places the order o.
Create(o) ==
  /\ CreateOrder(o)
  /\ UNCHANGED <<notified, broker, faults>>

\* Publish to Kafka: the message goes to the end of the order's partition.
Send(o, e) == log' = [log EXCEPT ![TopicFor(e)][o] = Append(@, e)]

\* A poller publishes a row and marks it.  Every service runs a poller over
\* the one outbox table and each skips the rows another one holds or failed
\* to send before, so the rows of an order go out in any order.
Publish(o, e) ==
  /\ outbox[o][e] = "pending"
  /\ Send(o, e)
  /\ outbox' = [outbox EXCEPT ![o][e] = "published"]
  /\ UNCHANGED <<orders, sagas, reserved, payments, fulfillments, notified,
                 pos, committed, faults>>

\* Mutant: the poller sees rows of transactions that are rolled back.
PublishUnmarkedDirty(o, e) ==
  /\ dups < MaxDups
  /\ Send(o, e)
  /\ dups' = dups + 1
  /\ UNCHANGED <<tables, notified, pos, committed, resets, errors>>

\* A poller publishes a row, but the UPDATE that marks it or the COMMIT does
\* not happen: the row will be published again.
PublishUnmarked(o, e) ==
  /\ dups < MaxDups
  /\ outbox[o][e] = "pending"
  /\ Send(o, e)
  /\ dups' = dups + 1
  /\ UNCHANGED <<tables, notified, pos, committed, resets, errors>>

\* The next message consumer c has not been through.
HasNext(c, o) == pos[c][o] < Len(log[TopicOf(c)][o])
NextMessage(c, o) == log[TopicOf(c)][o][pos[c][o] + 1]

Handle(c, o, e) ==
  \/ c = "inventory"   /\ InventoryHandler(o, e)   /\ UNCHANGED notified
  \/ c = "payment"     /\ PaymentHandler(o, e)     /\ UNCHANGED notified
  \/ c = "fulfillment" /\ FulfillmentHandler(o, e) /\ UNCHANGED notified
  \/ /\ c \in {"orch-inventory", "orch-payment", "orch-fulfillment"}
     /\ OrchestratorHandler(o, e)
     /\ UNCHANGED notified
  \/ c = "notification" /\ NotificationHandler(o, e) /\ UNCHANGED tables

\* Consume: fetch the next message and run the handler.
Deliver(c, o) ==
  /\ HasNext(c, o)
  /\ Handle(c, o, NextMessage(c, o))
  /\ pos' = [pos EXCEPT ![c][o] = @ + 1]
  /\ UNCHANGED <<log, committed, faults>>

\* Consume, when the handler returns an error: its transaction is rolled
\* back, and the message is committed and gone all the same.  A query fails
\* also because the service is being stopped: the handler's context is the
\* cancelled one, and the commit may still reach the broker.
HandlerError(c, o) ==
  /\ errors < MaxErrors
  /\ HasNext(c, o)
  /\ pos' = [pos EXCEPT ![c][o] = @ + 1]
  /\ errors' = errors + 1
  /\ UNCHANGED <<tables, notified, log, committed, resets, dups>>

\* The consumer is restarted, or its partition is given to another member of
\* the group: it resumes from the offset at the broker, which lags behind
\* by the messages whose commit did not happen or failed.
Redeliver(c, o) ==
  /\ resets < MaxResets
  /\ \E k \in committed[c][o] .. (pos[c][o] - 1) :
       /\ pos' = [pos EXCEPT ![c][o] = k]
       /\ committed' = [committed EXCEPT ![c][o] = k]
  /\ resets' = resets + 1
  /\ UNCHANGED <<tables, notified, log, dups, errors>>

Next ==
  \E o \in Order :
    \/ Create(o)
    \/ \E e \in EventType : Publish(o, e) \/ PublishUnmarked(o, e)
    \/ \E c \in Consumer : Deliver(c, o) \/ HandlerError(c, o) \/ Redeliver(c, o)

Spec == Init /\ [][Next]_vars

\* The pollers tick for ever, and a consumer that stops is started again
\* (restart: unless-stopped), so a pending row is published in the end and a
\* message that waits is handled.  Nobody has to place an order.
Fairness ==
  \A o \in Order :
    /\ \A e \in EventType : WF_vars(Publish(o, e))
    /\ \A c \in Consumer : WF_vars(Deliver(c, o))

FairSpec == Spec /\ Fairness

=============================================================================
