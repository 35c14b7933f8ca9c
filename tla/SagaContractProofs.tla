------------------------- MODULE SagaContractProofs -------------------------
(***************************************************************************)
(* What Saga keeps while no message is handled twice, for every set of     *)
(* orders and every number of failed handlers: it implements               *)
(* OrderContract, and what it has decided about an order is sound.         *)
(*                                                                         *)
(* The handlers of the inventory and of the fulfillment service draw a new *)
(* outcome on every delivery, so an order has one outcome only because     *)
(* Kafka holds order.created and payment.processed once and a consumer     *)
(* goes through them once.  The invariant has three parts: what Kafka      *)
(* holds, what those two consumers have been through, and the story the    *)
(* tables tell of each order.                                              *)
(*                                                                         *)
(* A second invariant says what every consumer leaves behind of a message  *)
(* it has been through, as long as no handler has failed.  With it the     *)
(* tables of all services agree once nothing is left to be sent or handled.*)
(***************************************************************************)
EXTENDS SagaProofs

\* A message that is in Kafka is not published again: its row is marked.
MessagesArePublished ==
  \A t \in Topic, o \in Order :
    \A i \in 1 .. Len(log[t][o]) : outbox[o][log[t][o][i]] = "published"

NoMessageTwice ==
  \A t \in Topic, o \in Order :
    \A i, j \in 1 .. Len(log[t][o]) : log[t][o][i] = log[t][o][j] => i = j

\* Consumer c has been through a message e about o.
BeenThrough(c, o, e) == \E i \in 1 .. pos[c][o] : log[TopicOf(c)][o][i] = e

\* Who draws an outcome has been through the message that asks for it.
DrawnOnce(o) ==
  /\ Recorded(o, "inventory.reserved") \/ Recorded(o, "inventory.reserve_failed")
       => BeenThrough("inventory", o, "order.created")
  /\ Recorded(o, "fulfillment.shipped") \/ Recorded(o, "fulfillment.failed")
       => BeenThrough("fulfillment", o, "payment.processed")

\* The tables tell one story of o: one outcome of each service, and an order
\* that is decided was decided by one of them.
Story(o) ==
  /\ orders[o] = "none" <=> ~Recorded(o, "order.created")
  /\ ~(Recorded(o, "inventory.reserved") /\ Recorded(o, "inventory.reserve_failed"))
  /\ fulfillments[o] = "shipped" <=> Recorded(o, "fulfillment.shipped")
  /\ fulfillments[o] = "failed" <=> Recorded(o, "fulfillment.failed")
  /\ orders[o] = "completed" => Recorded(o, "fulfillment.shipped")
  /\ orders[o] = "failed" =>
       \/ Recorded(o, "inventory.reserve_failed")
       \/ Recorded(o, "payment.failed")
       \/ payments[o].status = "refunded"
  /\ payments[o].status = "refunded" => orders[o] = "failed"

\* The invariant: inductive together with IInv.
OnceInv ==
  HandledOnce =>
    /\ MessagesArePublished
    /\ NoMessageTwice
    /\ \A o \in Order : DrawnOnce(o) /\ Story(o)

-----------------------------------------------------------------------------
(* The contract, order by order                                            *)

\* The money of every order as the contract sees it.
moneyView ==
  [o \in Order |-> CASE payments[o].status = "processed" -> "held"
                     [] payments[o].status = "refunded"  -> "returned"
                     [] OTHER                            -> "none"]

\* A step that changes no other order than o.
OnlyOf(o) ==
  \A p \in Order \ {o} :
    /\ orders'[p] = orders[p]
    /\ payments'[p] = payments[p]
    /\ fulfillments'[p] = fulfillments[p]
    /\ \A e \in EventType : outbox'[p][e] # "absent" <=> outbox[p][e] # "absent"

\* One of the steps of OrderContract, or none, for o.
ContractStep(o) ==
  \/ orders'[o] = orders[o] /\ moneyView'[o] = moneyView[o]
  \/ /\ orders[o] = "none" /\ orders'[o] = "pending"
     /\ moneyView'[o] = moneyView[o]
  \/ /\ orders[o] = "pending" /\ orders'[o] = "pending"
     /\ moneyView[o] = "none" /\ moneyView'[o] = "held"
  \/ /\ orders[o] = "pending" /\ orders'[o] = "completed"
     /\ moneyView[o] = "held" /\ moneyView'[o] = "held"
  \/ /\ orders[o] = "pending" /\ orders'[o] = "failed"
     /\ moneyView'[o] = IF moneyView[o] = "held" THEN "returned" ELSE moneyView[o]

\* What a handler has to be shown to do.
Tells(o) == OnlyOf(o) /\ Story(o)' /\ ContractStep(o)

LEMMA MoneyIs ==
  ASSUME NEW o \in Order
  PROVE  /\ moneyView[o] = CASE payments[o].status = "processed" -> "held"
                             [] payments[o].status = "refunded"  -> "returned"
                             [] OTHER                            -> "none"
         /\ payments[o].status = "processed" => moneyView[o] = "held"
         /\ payments[o].status = "refunded" => moneyView[o] = "returned"
         /\ payments[o].status \notin {"processed", "refunded"} => moneyView[o] = "none"
BY DEF moneyView

LEMMA ContractSteps ==
  ASSUME TablesTypeOK, TablesTypeOK', NEW o \in Order, OnlyOf(o), ContractStep(o)
  PROVE  [Contract!Next]_<<orders, moneyView>>
<1>1. /\ orders \in [Order -> {"none", "pending", "completed", "failed"}]
      /\ orders' \in [Order -> {"none", "pending", "completed", "failed"}]
  BY DEF TablesTypeOK
<1>2. \A p \in Order \ {o} : orders'[p] = orders[p] /\ moneyView'[p] = moneyView[p]
  BY DEF OnlyOf, moneyView
<1>3. orders' = [orders EXCEPT ![o] = orders'[o]]
  BY <1>1, <1>2
<1>4. moneyView' = [moneyView EXCEPT ![o] = moneyView'[o]]
  <2>1. DOMAIN moneyView = Order /\ DOMAIN moneyView' = Order
    BY DEF moneyView
  <2>2. /\ moneyView = [p \in Order |-> moneyView[p]]
        /\ moneyView' = [p \in Order |-> moneyView'[p]]
    BY DEF moneyView
  <2> QED
    BY <1>2, <2>1, <2>2
<1>5. CASE orders'[o] = orders[o] /\ moneyView'[o] = moneyView[o]
  <2>1. orders' = orders
    BY <1>1, <1>3, <1>5
  <2>2. moneyView' = moneyView
    BY <1>4, <1>5 DEF moneyView
  <2> QED
    BY <2>1, <2>2
<1>6. CASE orders[o] = "none" /\ orders'[o] = "pending" /\ moneyView'[o] = moneyView[o]
  <2>1. moneyView' = moneyView
    BY <1>4, <1>6 DEF moneyView
  <2>2. Contract!Accept(o)
    BY <1>3, <1>6, <2>1 DEF Contract!Accept, moneyView
  <2> QED
    BY <2>2 DEF Contract!Next
<1>7. CASE /\ orders[o] = "pending" /\ orders'[o] = "pending"
           /\ moneyView[o] = "none" /\ moneyView'[o] = "held"
  <2>1. orders' = orders
    BY <1>1, <1>3, <1>7
  <2>2. Contract!Charge(o)
    BY <1>4, <1>7, <2>1 DEF Contract!Charge, moneyView
  <2> QED
    BY <2>2 DEF Contract!Next
<1>8. CASE /\ orders[o] = "pending" /\ orders'[o] = "completed"
           /\ moneyView[o] = "held" /\ moneyView'[o] = "held"
  <2>1. moneyView' = moneyView
    BY <1>4, <1>8 DEF moneyView
  <2>2. Contract!Complete(o)
    BY <1>3, <1>8, <2>1 DEF Contract!Complete, moneyView
  <2> QED
    BY <2>2 DEF Contract!Next
<1>9. CASE /\ orders[o] = "pending" /\ orders'[o] = "failed"
           /\ moneyView'[o] = IF moneyView[o] = "held" THEN "returned" ELSE moneyView[o]
  <2>1. Contract!Fail(o)
    BY <1>3, <1>4, <1>9 DEF Contract!Fail, moneyView
  <2> QED
    BY <2>1 DEF Contract!Next
<1> QED
  BY <1>5, <1>6, <1>7, <1>8, <1>9 DEF ContractStep

-----------------------------------------------------------------------------
(* The handlers: each tells the story on                                   *)

\* What the record of o implies of its past.
LEMMA PastOf ==
  ASSUME TablesInv, NEW o \in Order
  PROVE  /\ Recorded(o, "inventory.reserved") => Recorded(o, "order.created")
         /\ Recorded(o, "inventory.reserve_failed") => Recorded(o, "order.created")
         /\ Recorded(o, "payment.processed") => Recorded(o, "inventory.reserved")
         /\ Recorded(o, "payment.failed") => Recorded(o, "inventory.reserved")
         /\ Recorded(o, "fulfillment.shipped") => Recorded(o, "payment.processed")
         /\ Recorded(o, "fulfillment.failed") => Recorded(o, "payment.processed")
         /\ Recorded(o, "payment.refunded") => Recorded(o, "fulfillment.failed")
         /\ payments[o].status = "none" <=>
              ~Recorded(o, "payment.processed") /\ ~Recorded(o, "payment.failed")
         /\ payments[o].status = "failed" <=> Recorded(o, "payment.failed")
         /\ payments[o].status = "refunded" <=> Recorded(o, "payment.refunded")
         /\ ~(Recorded(o, "payment.processed") /\ Recorded(o, "payment.failed"))
         /\ payments[o].status \in {"none", "processed", "failed", "refunded"}
         /\ orders[o] \in {"none", "pending", "completed", "failed"}
<1>1. \A e \in EventType : Recorded(o, e) => \E c \in Causes(e) : Recorded(o, c)
  BY DEF TablesInv, Causality
<1>2. /\ "inventory.reserved" \in EventType /\ "inventory.reserve_failed" \in EventType
      /\ "payment.processed" \in EventType /\ "payment.failed" \in EventType
      /\ "fulfillment.shipped" \in EventType /\ "fulfillment.failed" \in EventType
      /\ "payment.refunded" \in EventType
  BY DEF EventType
<1>3. /\ Recorded(o, "inventory.reserved") => Recorded(o, "order.created")
      /\ Recorded(o, "inventory.reserve_failed") => Recorded(o, "order.created")
      /\ Recorded(o, "payment.processed") => Recorded(o, "inventory.reserved")
      /\ Recorded(o, "payment.failed") => Recorded(o, "inventory.reserved")
      /\ Recorded(o, "fulfillment.shipped") => Recorded(o, "payment.processed")
      /\ Recorded(o, "fulfillment.failed") => Recorded(o, "payment.processed")
      /\ Recorded(o, "payment.refunded") => Recorded(o, "fulfillment.failed")
  BY <1>1, <1>2, CausesAre
<1> QED
  BY <1>3 DEF TablesInv, TablesTypeOK, PaymentsMatchEvents

\* AppendOutbox as the story sees it.
LEMMA AppendTells ==
  ASSUME TablesInv, NEW o \in Order, NEW E \in SUBSET EventType, AppendOutbox(o, E)
  PROVE  /\ \A p \in Order \ {o}, e \in EventType :
              outbox'[p][e] # "absent" <=> outbox[p][e] # "absent"
         /\ \A e \in EventType : Recorded(o, e)' <=> Recorded(o, e) \/ e \in E
BY AppendOutboxRecords DEF TablesInv, Recorded

LEMMA CreateTells ==
  ASSUME TablesInv, NEW o \in Order, Story(o), CreateOrder(o)
  PROVE  Tells(o)
<1>1. /\ orders[o] = "none" /\ orders' = [orders EXCEPT ![o] = "pending"]
      /\ UNCHANGED <<payments, fulfillments>>
      /\ AppendOutbox(o, {"order.created"})
  BY DEF CreateOrder
<1>2. {"order.created"} \in SUBSET EventType
  BY DEF EventType
<1>3. /\ \A p \in Order \ {o}, e \in EventType :
           outbox'[p][e] # "absent" <=> outbox[p][e] # "absent"
      /\ \A e \in EventType :
           Recorded(o, e)' <=> Recorded(o, e) \/ e \in {"order.created"}
  BY <1>1, <1>2, AppendTells
<1>4. orders \in [Order -> {"none", "pending", "completed", "failed"}]
  BY DEF TablesInv, TablesTypeOK
<1>5. OnlyOf(o)
  BY <1>1, <1>3, <1>4 DEF OnlyOf
<1>6. orders'[o] = "pending"
  BY <1>1, <1>4
<1>7. Story(o)'
  BY <1>1, <1>3, <1>6 DEF Story, EventType
<1>8. moneyView' = moneyView
  BY <1>1 DEF moneyView
<1> QED
  BY <1>1, <1>5, <1>6, <1>7, <1>8 DEF Tells, ContractStep

\* The inventory service, for an order it has not decided on.
LEMMA ReserveInventoryTells ==
  ASSUME TablesInv, NEW o \in Order, Story(o), Recorded(o, "order.created"),
         ~Recorded(o, "inventory.reserved"), ~Recorded(o, "inventory.reserve_failed"),
         ReserveInventory(o)
  PROVE  /\ Tells(o)
         /\ \A e \in EventType \ {"inventory.reserved", "inventory.reserve_failed"} :
              Recorded(o, e)' => Recorded(o, e)
<1>1. PICK f \in {"inventory.reserved", "inventory.reserve_failed"} :
        AppendOutbox(o, {f}) /\ UNCHANGED <<orders, payments, fulfillments>>
  BY DEF ReserveInventory
<1>2. {f} \in SUBSET EventType
  BY DEF EventType
<1>3. /\ \A p \in Order \ {o}, e \in EventType :
           outbox'[p][e] # "absent" <=> outbox[p][e] # "absent"
      /\ \A e \in EventType : Recorded(o, e)' <=> Recorded(o, e) \/ e \in {f}
  BY <1>1, <1>2, AppendTells
<1>4. OnlyOf(o)
  BY <1>1, <1>3 DEF OnlyOf
<1>5. Story(o)'
  BY <1>1, <1>3 DEF Story, EventType
<1>6. moneyView' = moneyView
  BY <1>1 DEF moneyView
<1> QED
  BY <1>1, <1>3, <1>4, <1>5, <1>6 DEF Tells, ContractStep

\* The payment service: an order without a payment is still pending.
LEMMA ProcessPaymentTells ==
  ASSUME TablesInv, NEW o \in Order, Story(o), Recorded(o, "inventory.reserved"),
         ProcessPayment(o)
  PROVE  /\ Tells(o)
         /\ \A e \in EventType \ {"payment.processed", "payment.failed"} :
              Recorded(o, e)' => Recorded(o, e)
<1>1. CASE UNCHANGED tables
  BY <1>1 DEF tables, Tells, OnlyOf, Story, ContractStep, moneyView, Recorded
<1>2. CASE payments[o].status = "none" /\ ~UNCHANGED tables
  <2>1. PICK outcome \in {"processed", "failed"} :
          /\ payments' = [payments EXCEPT ![o] =
                            [status |-> outcome, amount |-> ChargedAmount(o)]]
          /\ AppendOutbox(o, {IF outcome = "processed"
                              THEN "payment.processed" ELSE "payment.failed"})
          /\ UNCHANGED <<orders, sagas, reserved, fulfillments>>
    BY <1>2 DEF ProcessPayment
  <2> DEFINE f == IF outcome = "processed" THEN "payment.processed"
                                           ELSE "payment.failed"
  <2>2. f \in {"payment.processed", "payment.failed"} /\ {f} \in SUBSET EventType
    BY DEF EventType
  <2>3. /\ \A p \in Order \ {o}, e \in EventType :
             outbox'[p][e] # "absent" <=> outbox[p][e] # "absent"
        /\ \A e \in EventType : Recorded(o, e)' <=> Recorded(o, e) \/ e \in {f}
    BY <2>1, <2>2, AppendTells
  <2>4. payments'[o].status = outcome /\ \A p \in Order \ {o} : payments'[p] = payments[p]
    BY <2>1 DEF TablesInv, TablesTypeOK
  <2>5. OnlyOf(o)
    BY <2>1, <2>3, <2>4 DEF OnlyOf
  <2>6. orders[o] = "pending"
    BY <1>2, PastOf DEF Story
  <2>7. Story(o)'
    BY <2>1, <2>2, <2>3, <2>4, <2>6 DEF Story, EventType
  <2>8. moneyView[o] = "none"
    BY <1>2, MoneyIs
  <2>9. moneyView'[o] = IF outcome = "processed" THEN "held" ELSE "none"
    BY <2>4 DEF moneyView
  <2> QED
    BY <2>1, <2>2, <2>3, <2>5, <2>6, <2>7, <2>8, <2>9 DEF Tells, ContractStep
<1> QED
  BY <1>1, <1>2 DEF ProcessPayment

\* The fulfillment service, for an order it has not decided on.
LEMMA StartFulfillmentTells ==
  ASSUME TablesInv, NEW o \in Order, Story(o), Recorded(o, "payment.processed"),
         ~Recorded(o, "fulfillment.shipped"), ~Recorded(o, "fulfillment.failed"),
         StartFulfillment(o)
  PROVE  /\ Tells(o)
         /\ \A e \in EventType \ {"fulfillment.shipped", "fulfillment.failed"} :
              Recorded(o, e)' => Recorded(o, e)
<1>1. PICK outcome \in {"shipped", "failed"} :
        /\ fulfillments' = [fulfillments EXCEPT ![o] = outcome]
        /\ AppendOutbox(o, {IF outcome = "shipped" THEN "fulfillment.shipped"
                                                   ELSE "fulfillment.failed"})
        /\ UNCHANGED <<orders, sagas, reserved, payments>>
  BY DEF StartFulfillment
<1> DEFINE f == IF outcome = "shipped" THEN "fulfillment.shipped"
                                       ELSE "fulfillment.failed"
<1>2. f \in {"fulfillment.shipped", "fulfillment.failed"} /\ {f} \in SUBSET EventType
  BY DEF EventType
<1>3. /\ \A p \in Order \ {o}, e \in EventType :
           outbox'[p][e] # "absent" <=> outbox[p][e] # "absent"
      /\ \A e \in EventType : Recorded(o, e)' <=> Recorded(o, e) \/ e \in {f}
  BY <1>1, <1>2, AppendTells
<1>4. fulfillments'[o] = outcome /\ \A p \in Order \ {o} : fulfillments'[p] = fulfillments[p]
  BY <1>1 DEF TablesInv, TablesTypeOK
<1>5. OnlyOf(o)
  BY <1>1, <1>3, <1>4 DEF OnlyOf
<1>6. Story(o)'
  BY <1>1, <1>2, <1>3, <1>4 DEF Story, EventType
<1>7. moneyView' = moneyView
  BY <1>1 DEF moneyView
<1> QED
  BY <1>1, <1>2, <1>3, <1>5, <1>6, <1>7 DEF Tells, ContractStep

\* The orchestrator.  What its steps record decides nothing.
Outcomes ==
  {"inventory.reserved", "inventory.reserve_failed", "payment.processed",
   "payment.failed", "fulfillment.shipped", "fulfillment.failed", "order.created"}

LEMMA AdvanceStepTells ==
  ASSUME NEW o \in Order, NEW step, Story(o), AdvanceStep(o, step)
  PROVE  Tells(o)
BY DEF AdvanceStep, Tells, OnlyOf, Story, ContractStep, moneyView, Recorded

\* The three steps that fail an order, and the one that completes it: each
\* has a cause that excludes the opposite outcome, and when it comes again
\* it changes nothing.
LEMMA FailSagaTells ==
  ASSUME TablesInv, NEW o \in Order, Story(o), Recorded(o, "inventory.reserve_failed"),
         FailSaga(o)
  PROVE  Tells(o) /\ \A e \in Outcomes : Recorded(o, e)' <=> Recorded(o, e)
<1>1. /\ orders' = [orders EXCEPT ![o] = "failed"]
      /\ AppendOutbox(o, {"order.failed"})
      /\ UNCHANGED <<payments, fulfillments>>
  BY DEF FailSaga
<1>2. {"order.failed"} \in SUBSET EventType
  BY DEF EventType
<1>3. /\ \A p \in Order \ {o}, e \in EventType :
           outbox'[p][e] # "absent" <=> outbox[p][e] # "absent"
      /\ \A e \in EventType : Recorded(o, e)' <=> Recorded(o, e) \/ e \in {"order.failed"}
  BY <1>1, <1>2, AppendTells
<1>4. orders'[o] = "failed" /\ \A p \in Order \ {o} : orders'[p] = orders[p]
  BY <1>1 DEF TablesInv, TablesTypeOK
<1>5. OnlyOf(o)
  BY <1>1, <1>3, <1>4 DEF OnlyOf
<1>6. orders[o] \in {"pending", "failed"} /\ payments[o].status = "none"
  BY PastOf DEF Story
<1>7. \A e \in Outcomes : Recorded(o, e)' <=> Recorded(o, e)
  BY <1>3 DEF Outcomes, EventType
<1>8. Story(o)'
  BY <1>1, <1>4, <1>6, <1>7 DEF Story, Outcomes
<1>9. moneyView' = moneyView /\ moneyView[o] = "none"
  BY <1>1, <1>6, MoneyIs DEF moneyView
<1> QED
  BY <1>4, <1>5, <1>6, <1>7, <1>8, <1>9 DEF Tells, ContractStep

LEMMA CompensatePaymentFailedTells ==
  ASSUME TablesInv, NEW o \in Order, Story(o), Recorded(o, "payment.failed"),
         CompensatePaymentFailed(o)
  PROVE  Tells(o) /\ \A e \in Outcomes : Recorded(o, e)' <=> Recorded(o, e)
<1> DEFINE E == {"inventory.released", "order.failed"}
<1>1. /\ orders' = [orders EXCEPT ![o] = "failed"]
      /\ AppendOutbox(o, E)
      /\ UNCHANGED <<payments, fulfillments>>
  BY DEF CompensatePaymentFailed
<1>2. E \in SUBSET EventType
  BY DEF EventType
<1>3. /\ \A p \in Order \ {o}, e \in EventType :
           outbox'[p][e] # "absent" <=> outbox[p][e] # "absent"
      /\ \A e \in EventType : Recorded(o, e)' <=> Recorded(o, e) \/ e \in E
  <2> HIDE DEF E
  <2> QED
    BY <1>1, <1>2, AppendTells
<1>4. orders'[o] = "failed" /\ \A p \in Order \ {o} : orders'[p] = orders[p]
  BY <1>1 DEF TablesInv, TablesTypeOK
<1>5. OnlyOf(o)
  BY <1>1, <1>3, <1>4 DEF OnlyOf
<1>6. orders[o] \in {"pending", "failed"} /\ payments[o].status = "failed"
  BY PastOf DEF Story
<1>7. \A e \in Outcomes : Recorded(o, e)' <=> Recorded(o, e)
  BY <1>3 DEF Outcomes, EventType
<1>8. Story(o)'
  BY <1>1, <1>4, <1>6, <1>7 DEF Story, Outcomes
<1>9. moneyView' = moneyView /\ moneyView[o] = "none"
  BY <1>1, <1>6, MoneyIs DEF moneyView
<1> QED
  BY <1>4, <1>5, <1>6, <1>7, <1>8, <1>9 DEF Tells, ContractStep

\* The money goes back in the step that fails the order.
LEMMA CompensateFulfillmentFailedTells ==
  ASSUME TablesInv, NEW o \in Order, Story(o), Recorded(o, "fulfillment.failed"),
         CompensateFulfillmentFailed(o)
  PROVE  Tells(o) /\ \A e \in Outcomes : Recorded(o, e)' <=> Recorded(o, e)
<1> DEFINE E == {"payment.refunded", "inventory.released", "order.failed"}
<1>1. /\ orders' = [orders EXCEPT ![o] = "failed"]
      /\ RefundPayment(o)
      /\ AppendOutbox(o, E)
      /\ UNCHANGED fulfillments
  BY DEF CompensateFulfillmentFailed
<1>2. E \in SUBSET EventType
  BY DEF EventType
<1>3. /\ \A p \in Order \ {o}, e \in EventType :
           outbox'[p][e] # "absent" <=> outbox[p][e] # "absent"
      /\ \A e \in EventType : Recorded(o, e)' <=> Recorded(o, e) \/ e \in E
  <2> HIDE DEF E
  <2> QED
    BY <1>1, <1>2, AppendTells
<1>4. orders'[o] = "failed" /\ \A p \in Order \ {o} : orders'[p] = orders[p]
  BY <1>1 DEF TablesInv, TablesTypeOK
<1>5. payments[o].status \in {"processed", "refunded"}
  BY PastOf
<1>6. payments'[o].status = "refunded" /\ \A p \in Order \ {o} : payments'[p] = payments[p]
  BY <1>1, <1>5 DEF RefundPayment, TablesInv, TablesTypeOK
<1>7. OnlyOf(o)
  BY <1>1, <1>3, <1>4, <1>6 DEF OnlyOf
<1>8. \A e \in Outcomes : Recorded(o, e)' <=> Recorded(o, e)
  BY <1>3 DEF Outcomes, EventType
<1>9. Story(o)'
  BY <1>1, <1>4, <1>6, <1>8, PastOf DEF Story, Outcomes
<1>10. moneyView'[o] = "returned"
  BY <1>6 DEF moneyView
<1>11. CASE payments[o].status = "processed"
  <2>1. orders[o] = "pending"
    BY <1>11, PastOf DEF Story
  <2> QED
    BY <1>4, <1>7, <1>8, <1>9, <1>10, <1>11, <2>1, MoneyIs DEF Tells, ContractStep
<1>12. CASE payments[o].status = "refunded"
  <2>1. orders[o] = "failed"
    BY <1>12 DEF Story
  <2> QED
    BY <1>4, <1>7, <1>8, <1>9, <1>10, <1>12, <2>1, MoneyIs DEF Tells, ContractStep
<1> QED
  BY <1>5, <1>11, <1>12

LEMMA CompleteSagaTells ==
  ASSUME TablesInv, NEW o \in Order, Story(o), Recorded(o, "fulfillment.shipped"),
         CompleteSaga(o)
  PROVE  Tells(o) /\ \A e \in Outcomes : Recorded(o, e)' <=> Recorded(o, e)
<1>1. /\ orders' = [orders EXCEPT ![o] = "completed"]
      /\ AppendOutbox(o, {"order.completed"})
      /\ UNCHANGED <<payments, fulfillments>>
  BY DEF CompleteSaga
<1>2. {"order.completed"} \in SUBSET EventType
  BY DEF EventType
<1>3. /\ \A p \in Order \ {o}, e \in EventType :
           outbox'[p][e] # "absent" <=> outbox[p][e] # "absent"
      /\ \A e \in EventType : Recorded(o, e)' <=> Recorded(o, e) \/ e \in {"order.completed"}
  BY <1>1, <1>2, AppendTells
<1>4. orders'[o] = "completed" /\ \A p \in Order \ {o} : orders'[p] = orders[p]
  BY <1>1 DEF TablesInv, TablesTypeOK
<1>5. OnlyOf(o)
  BY <1>1, <1>3, <1>4 DEF OnlyOf
<1>6. payments[o].status = "processed" /\ orders[o] \in {"pending", "completed"}
  BY PastOf DEF Story
<1>7. \A e \in Outcomes : Recorded(o, e)' <=> Recorded(o, e)
  BY <1>3 DEF Outcomes, EventType
<1>8. Story(o)'
  BY <1>1, <1>4, <1>6, <1>7 DEF Story, Outcomes
<1>9. moneyView' = moneyView /\ moneyView[o] = "held"
  BY <1>1, <1>6, MoneyIs DEF moneyView
<1> QED
  BY <1>4, <1>5, <1>6, <1>7, <1>8, <1>9 DEF Tells, ContractStep

-----------------------------------------------------------------------------
(* The messages                                                            *)

\* What is recorded of o that draws an outcome was recorded before, or is
\* drawn by the consumer c that handles the message e.
Draws(c, o, e) ==
  /\ \A f \in {"inventory.reserved", "inventory.reserve_failed"} :
       Recorded(o, f)' => Recorded(o, f) \/ (c = "inventory" /\ e = "order.created")
  /\ \A f \in {"fulfillment.shipped", "fulfillment.failed"} :
       Recorded(o, f)' => Recorded(o, f) \/ (c = "fulfillment" /\ e = "payment.processed")

LEMMA NothingTells ==
  ASSUME NEW c, NEW o \in Order, NEW e, Story(o), UNCHANGED tables
  PROVE  Tells(o) /\ Draws(c, o, e)
BY DEF tables, Tells, OnlyOf, Story, ContractStep, moneyView, Recorded, Draws

\* A message its consumer has not been through tells the story on.
LEMMA HandleTells ==
  ASSUME TablesInv, NEW c \in Consumer, NEW o \in Order, NEW e \in EventType,
         Recorded(o, e), Story(o), DrawnOnce(o), ~BeenThrough(c, o, e), Handle(c, o, e)
  PROVE  Tells(o) /\ Draws(c, o, e)
<1>1. CASE UNCHANGED tables
  BY <1>1, NothingTells
<1>2. CASE c = "inventory" /\ e = "order.created" /\ ReserveInventory(o)
  <2>1. ~Recorded(o, "inventory.reserved") /\ ~Recorded(o, "inventory.reserve_failed")
    BY <1>2 DEF DrawnOnce
  <2>2. /\ Tells(o)
        /\ \A f \in EventType \ {"inventory.reserved", "inventory.reserve_failed"} :
             Recorded(o, f)' => Recorded(o, f)
    BY <1>2, <2>1, ReserveInventoryTells
  <2> QED
    BY <1>2, <2>2 DEF Draws, EventType
<1>3. CASE e = "inventory.reserved" /\ ProcessPayment(o)
  <2>1. /\ Tells(o)
        /\ \A f \in EventType \ {"payment.processed", "payment.failed"} :
             Recorded(o, f)' => Recorded(o, f)
    BY <1>3, ProcessPaymentTells
  <2> QED
    BY <2>1 DEF Draws, EventType
<1>4. CASE c = "fulfillment" /\ e = "payment.processed" /\ StartFulfillment(o)
  <2>1. ~Recorded(o, "fulfillment.shipped") /\ ~Recorded(o, "fulfillment.failed")
    BY <1>4 DEF DrawnOnce
  <2>2. /\ Tells(o)
        /\ \A f \in EventType \ {"fulfillment.shipped", "fulfillment.failed"} :
             Recorded(o, f)' => Recorded(o, f)
    BY <1>4, <2>1, StartFulfillmentTells
  <2> QED
    BY <1>4, <2>2 DEF Draws, EventType
<1>5. CASE OrchestratorHandler(o, e)
  <2>1. ASSUME NEW step, AdvanceStep(o, step)
        PROVE  Tells(o) /\ Draws(c, o, e)
    <3>1. Tells(o)
      BY <2>1, AdvanceStepTells
    <3> QED
      BY <2>1, <3>1 DEF AdvanceStep, Draws, Recorded
  <2>2. ASSUME \A f \in Outcomes : Recorded(o, f)' <=> Recorded(o, f)
        PROVE  Draws(c, o, e)
    BY <2>2 DEF Outcomes, Draws
  <2>3. CASE e = "inventory.reserve_failed" /\ FailSaga(o)
    BY <2>2, <2>3, FailSagaTells
  <2>4. CASE e = "payment.failed" /\ CompensatePaymentFailed(o)
    BY <2>2, <2>4, CompensatePaymentFailedTells
  <2>5. CASE e = "fulfillment.shipped" /\ CompleteSaga(o)
    BY <2>2, <2>5, CompleteSagaTells
  <2>6. CASE e = "fulfillment.failed" /\ CompensateFulfillmentFailed(o)
    BY <2>2, <2>6, CompensateFulfillmentFailedTells
  <2> QED
    BY <1>5, <2>1, <2>3, <2>4, <2>5, <2>6 DEF OrchestratorHandler
<1> QED
  BY <1>1, <1>2, <1>3, <1>4, <1>5
     DEF Handle, InventoryHandler, InventoryTriggers, PaymentHandler,
         PaymentTriggers, FulfillmentHandler, FulfillmentTriggers

\* A published row stays published.
RowsStayPublished ==
  \A p \in Order, f \in EventType :
    outbox[p][f] = "published" => outbox'[p][f] = "published"

\* No handler marks a row.
NothingMarked ==
  \A p \in Order, f \in EventType :
    outbox'[p][f] = "published" => outbox[p][f] = "published"

LEMMA AppendKeepsMarks ==
  ASSUME TablesTypeOK, NEW o \in Order, NEW E, AppendOutbox(o, E)
  PROVE  RowsStayPublished /\ NothingMarked
<1>1. outbox \in [Order -> [EventType -> {"absent", "pending", "published"}]]
  BY DEF TablesTypeOK
<1> DEFINE row == [f \in EventType |-> IF f \in E /\ outbox[o][f] = "absent"
                                       THEN "pending" ELSE outbox[o][f]]
<1>2. outbox' = [outbox EXCEPT ![o] = row]
  BY DEF AppendOutbox
<1>3. \A f \in EventType : outbox[o][f] = "published" <=> row[f] = "published"
  OBVIOUS
<1> HIDE DEF row
<1> QED
  BY <1>1, <1>2, <1>3 DEF RowsStayPublished, NothingMarked

LEMMA HandleKeepsMarks ==
  ASSUME TablesTypeOK, NEW c \in Consumer, NEW o \in Order, NEW e, Handle(c, o, e)
  PROVE  RowsStayPublished /\ NothingMarked
<1>1. CASE UNCHANGED outbox
  BY <1>1 DEF RowsStayPublished, NothingMarked
<1>2. ASSUME NEW E, AppendOutbox(o, E)
      PROVE  RowsStayPublished /\ NothingMarked
  BY <1>2, AppendKeepsMarks
<1>3. CASE InventoryHandler(o, e)
  BY <1>1, <1>2, <1>3 DEF InventoryHandler, ReserveInventory, tables
<1>4. CASE PaymentHandler(o, e)
  BY <1>1, <1>2, <1>4 DEF PaymentHandler, ProcessPayment, tables
<1>5. CASE FulfillmentHandler(o, e)
  BY <1>1, <1>2, <1>5 DEF FulfillmentHandler, StartFulfillment, tables
<1>6. CASE OrchestratorHandler(o, e)
  BY <1>1, <1>2, <1>6
     DEF OrchestratorHandler, AdvanceStep, FailSaga, CompensatePaymentFailed,
         CompleteSaga, CompensateFulfillmentFailed
<1>7. CASE UNCHANGED tables
  BY <1>1, <1>7 DEF tables
<1> QED
  BY <1>3, <1>4, <1>5, <1>6, <1>7 DEF Handle

\* A message its consumer has not handled is one it has not been through: no
\* message is in Kafka twice.
LEMMA FreshMessage ==
  ASSUME IInv, NoMessageTwice, NEW c \in Consumer, NEW o \in Order, HasNext(c, o)
  PROVE  ~BeenThrough(c, o, NextMessage(c, o))
<1> DEFINE s == log[TopicOf(c)][o]
<1>1. TopicOf(c) \in Topic
  BY DEF Consumer, TopicOf, Topic
<1>2. s \in Seq(EventType) /\ pos[c][o] \in Nat /\ Len(s) \in Nat
  BY <1>1 DEF IInv, TypeOK
<1>3. pos[c][o] + 1 \in 1 .. Len(s)
  BY <1>2 DEF HasNext
<1>4. \A i, j \in 1 .. Len(s) : s[i] = s[j] => i = j
  BY <1>1 DEF NoMessageTwice
<1>5. ASSUME NEW i \in 1 .. pos[c][o], s[i] = s[pos[c][o] + 1]
      PROVE  FALSE
  <2>1. i \in 1 .. Len(s) /\ i # pos[c][o] + 1
    BY <1>2, <1>3
  <2> QED
    BY <1>3, <1>4, <1>5, <2>1
<1> QED
  BY <1>5 DEF BeenThrough, NextMessage

\* Nobody is taken back over what it has been through.
NobodyFallsBack ==
  \A d \in Consumer, p \in Order, f \in EventType :
    BeenThrough(d, p, f) => BeenThrough(d, p, f)'

\* Moving on by one message adds that message to what c has been through.
LEMMA MovingOn ==
  ASSUME IInv, NEW c \in Consumer, NEW o \in Order, HasNext(c, o),
         NEW e, e = NextMessage(c, o),
         pos' = [pos EXCEPT ![c][o] = @ + 1], UNCHANGED log
  PROVE  NobodyFallsBack /\ BeenThrough(c, o, e)'
<1>1. pos \in [Consumer -> [Order -> Nat]]
  BY DEF IInv, TypeOK
<1>2. pos'[c][o] = pos[c][o] + 1
  BY <1>1
<1>3. \A d \in Consumer, p \in Order :
        pos[d][p] \in Nat /\ (pos'[d][p] = pos[d][p] \/ pos'[d][p] = pos[d][p] + 1)
  BY <1>1
<1>4. ASSUME NEW d \in Consumer, NEW p \in Order, NEW f \in EventType,
             NEW i \in 1 .. pos[d][p], log[TopicOf(d)][p][i] = f
      PROVE  BeenThrough(d, p, f)'
  <2>1. i \in 1 .. pos'[d][p]
    BY <1>3
  <2> QED
    BY <1>4, <2>1 DEF BeenThrough
<1>5. BeenThrough(c, o, e)'
  <2>1. pos[c][o] + 1 \in 1 .. pos'[c][o]
    BY <1>1, <1>2
  <2> QED
    BY <2>1 DEF BeenThrough, NextMessage
<1> QED
  BY <1>4, <1>5 DEF NobodyFallsBack, BeenThrough

\* What is in Kafka stays as it should be while nothing is published.
LEMMA LogStaysOnce ==
  ASSUME TypeOK, MessagesArePublished, NoMessageTwice, RowsStayPublished,
         UNCHANGED log
  PROVE  MessagesArePublished' /\ NoMessageTwice'
<1>1. ASSUME NEW t \in Topic, NEW p \in Order, NEW i \in 1 .. Len(log[t][p])
      PROVE  outbox'[p][log[t][p][i]] = "published"
  <2>1. log[t][p] \in Seq(EventType)
    BY DEF TypeOK
  <2>2. log[t][p][i] \in EventType
    BY <2>1
  <2> QED
    BY <2>2 DEF MessagesArePublished, RowsStayPublished
<1> QED
  BY <1>1 DEF MessagesArePublished, NoMessageTwice

\* A pending row is not in Kafka yet, and is marked when it goes there.
LEMMA PublishOnce ==
  ASSUME IInv, MessagesArePublished, NoMessageTwice,
         NEW o \in Order, NEW e \in EventType, Publish(o, e)
  PROVE  MessagesArePublished' /\ NoMessageTwice' /\ NobodyFallsBack
<1> DEFINE T == TopicFor(e)
<1>1. T \in Topic
  BY DEF TopicFor, Topic
<1>2. log \in [Topic -> [Order -> Seq(EventType)]]
  BY DEF IInv, TypeOK
<1>3. log' = [log EXCEPT ![T][o] = Append(@, e)]
  BY DEF Publish, Send
<1>4. outbox \in [Order -> [EventType -> {"absent", "pending", "published"}]]
  BY DEF IInv, TypeOK, TablesTypeOK
<1>5. outbox[o][e] = "pending" /\ outbox' = [outbox EXCEPT ![o][e] = "published"]
  BY DEF Publish
<1> HIDE DEF T
<1>6. outbox'[o][e] = "published" /\ RowsStayPublished
  BY <1>4, <1>5 DEF RowsStayPublished
<1>7. ASSUME NEW t \in Topic, NEW p \in Order
      PROVE  \/ t = T /\ p = o /\ log'[t][p] = Append(log[t][p], e)
             \/ log'[t][p] = log[t][p]
  BY <1>1, <1>2, <1>3
<1>8. ASSUME NEW t \in Topic, NEW p \in Order
      PROVE  /\ Len(log[t][p]) \in Nat
             /\ Len(Append(log[t][p], e)) = Len(log[t][p]) + 1
             /\ Append(log[t][p], e)[Len(log[t][p]) + 1] = e
             /\ \A i \in 1 .. Len(log[t][p]) :
                  /\ Append(log[t][p], e)[i] = log[t][p][i]
                  /\ log[t][p][i] \in EventType
  <2>1. log[t][p] \in Seq(EventType)
    BY <1>2
  <2> QED
    BY <2>1, AppendFacts
<1>9. ASSUME NEW t \in Topic, NEW p \in Order
      PROVE  /\ \A i \in 1 .. Len(log'[t][p]) :
                  outbox'[p][log'[t][p][i]] = "published"
             /\ \A i, j \in 1 .. Len(log'[t][p]) :
                  log'[t][p][i] = log'[t][p][j] => i = j
             /\ \A i \in 1 .. Len(log[t][p]) : log'[t][p][i] = log[t][p][i]
  <2> DEFINE s == log[t][p]
  <2>1. \A i \in 1 .. Len(s) : outbox'[p][s[i]] = "published"
    BY <1>6, <1>8 DEF MessagesArePublished, RowsStayPublished
  <2>2. \A i, j \in 1 .. Len(s) : s[i] = s[j] => i = j
    BY DEF NoMessageTwice
  <2>3. CASE log'[t][p] = s
    BY <2>1, <2>2, <2>3
  <2>4. CASE t = T /\ p = o /\ log'[t][p] = Append(s, e)
    <3> DEFINE n == Len(s) + 1
    <3>1. \A i \in 1 .. Len(s) : s[i] # e
      BY <1>5, <2>4 DEF MessagesArePublished
    <3>2. /\ n \in Nat /\ Len(log'[t][p]) = n
          /\ log'[t][p][n] = e
          /\ \A i \in 1 .. Len(s) : log'[t][p][i] = s[i]
      BY <1>8, <2>4
    <3>3. \A i \in 1 .. Len(log'[t][p]) : i \in 1 .. Len(s) \/ i = n
      BY <1>8, <3>2
    <3> HIDE DEF s, n
    <3>4. \A i \in 1 .. Len(log'[t][p]) : outbox'[p][log'[t][p][i]] = "published"
      BY <1>6, <2>1, <2>4, <3>2, <3>3
    <3>5. \A i, j \in 1 .. Len(log'[t][p]) : log'[t][p][i] = log'[t][p][j] => i = j
      BY <2>2, <3>1, <3>2, <3>3
    <3> QED
      BY <3>2, <3>4, <3>5 DEF s
  <2> QED
    BY <1>7, <2>3, <2>4
<1>10. ASSUME NEW d \in Consumer, NEW p \in Order, NEW f \in EventType,
              NEW i \in 1 .. pos[d][p], log[TopicOf(d)][p][i] = f
       PROVE  BeenThrough(d, p, f)'
  <2>1. TopicOf(d) \in Topic
    BY DEF Consumer, TopicOf, Topic
  <2>2. pos[d][p] \in Nat /\ pos[d][p] <= Len(log[TopicOf(d)][p])
    BY DEF IInv, TypeOK
  <2>3. i \in 1 .. Len(log[TopicOf(d)][p])
    BY <1>8, <2>1, <2>2
  <2>4. log'[TopicOf(d)][p][i] = f
    BY <1>9, <1>10, <2>1, <2>3
  <2>5. pos'[d][p] = pos[d][p]
    BY DEF Publish
  <2> QED
    BY <2>4, <2>5 DEF BeenThrough
<1> QED
  BY <1>9, <1>10 DEF MessagesArePublished, NoMessageTwice, NobodyFallsBack, BeenThrough

\* Another order keeps its story.
LEMMA OthersKeep ==
  ASSUME NEW o \in Order, OnlyOf(o), NobodyFallsBack,
         NEW p \in Order, p # o, Story(p), DrawnOnce(p)
  PROVE  Story(p)' /\ DrawnOnce(p)'
<1>1. /\ orders'[p] = orders[p] /\ payments'[p] = payments[p]
      /\ fulfillments'[p] = fulfillments[p]
      /\ \A e \in EventType : Recorded(p, e)' <=> Recorded(p, e)
  BY DEF OnlyOf, Recorded
<1>2. Story(p)'
  BY <1>1 DEF Story, EventType
<1>3. /\ "inventory" \in Consumer /\ "fulfillment" \in Consumer
      /\ BeenThrough("inventory", p, "order.created")
           => BeenThrough("inventory", p, "order.created")'
      /\ BeenThrough("fulfillment", p, "payment.processed")
           => BeenThrough("fulfillment", p, "payment.processed")'
  BY DEF NobodyFallsBack, Consumer, EventType
<1>4. DrawnOnce(p)'
  BY <1>1, <1>3 DEF DrawnOnce, EventType
<1> QED
  BY <1>2, <1>4

-----------------------------------------------------------------------------
(* The steps of Saga                                                       *)

\* What a step has to be shown to do for the order o it is about.
LEMMA StepTells ==
  ASSUME IInv, IInv', OnceInv, HandledOnce, NEW o \in Order, Tells(o), DrawnOnce(o)',
         NobodyFallsBack, MessagesArePublished', NoMessageTwice'
  PROVE  OnceInv' /\ [Contract!Next]_<<orders, moneyView>>
<1>1. \A p \in Order : Story(p)' /\ DrawnOnce(p)'
  BY OthersKeep DEF Tells, OnceInv
<1>2. TablesTypeOK /\ TablesTypeOK'
  BY DEF IInv, TypeOK
<1> QED
  BY <1>1, <1>2, ContractSteps DEF Tells, OnceInv

\* A step that leaves the tables alone, but for marking rows.
LEMMA QuietStep ==
  ASSUME IInv, IInv', OnceInv, HandledOnce, NobodyFallsBack,
         MessagesArePublished', NoMessageTwice',
         UNCHANGED <<orders, payments, fulfillments>>,
         \A p \in Order, e \in EventType :
           outbox'[p][e] # "absent" <=> outbox[p][e] # "absent"
  PROVE  OnceInv' /\ [Contract!Next]_<<orders, moneyView>>
<1>1. ASSUME NEW p \in Order
      PROVE  Story(p)' /\ DrawnOnce(p)'
  <2>1. Story(p)'
    BY DEF Story, Recorded, OnceInv, EventType
  <2>2. /\ "inventory" \in Consumer /\ "fulfillment" \in Consumer
        /\ BeenThrough("inventory", p, "order.created")
             => BeenThrough("inventory", p, "order.created")'
        /\ BeenThrough("fulfillment", p, "payment.processed")
             => BeenThrough("fulfillment", p, "payment.processed")'
    BY DEF NobodyFallsBack, Consumer, EventType
  <2>3. DrawnOnce(p)'
    BY <2>2 DEF DrawnOnce, Recorded, OnceInv, EventType
  <2> QED
    BY <2>1, <2>3
<1>2. UNCHANGED <<orders, moneyView>>
  BY DEF moneyView
<1> QED
  BY <1>1, <1>2 DEF OnceInv

LEMMA CreateIsOnce ==
  ASSUME IInv, IInv', OnceInv, HandledOnce, NEW o \in Order, Create(o)
  PROVE  OnceInv' /\ [Contract!Next]_<<orders, moneyView>>
<1>1. CreateOrder(o) /\ UNCHANGED <<log, pos>>
  BY DEF Create, broker
<1>2. TablesInv /\ TablesTypeOK
  BY DEF IInv, TypeOK, TablesInv
<1>3. Tells(o)
  BY <1>1, <1>2, CreateTells DEF OnceInv
<1>4. AppendOutbox(o, {"order.created"}) /\ {"order.created"} \in SUBSET EventType
  BY <1>1 DEF CreateOrder, EventType
<1>5. \A e \in EventType : Recorded(o, e)' <=> Recorded(o, e) \/ e \in {"order.created"}
  BY <1>2, <1>4, AppendTells
<1>6. MessagesArePublished' /\ NoMessageTwice'
  BY <1>1, <1>2, <1>4, AppendKeepsMarks, LogStaysOnce DEF OnceInv, IInv
<1>7. NobodyFallsBack
  BY <1>1 DEF NobodyFallsBack, BeenThrough
<1>8. DrawnOnce(o)'
  BY <1>1, <1>5 DEF DrawnOnce, BeenThrough, OnceInv, EventType
<1> QED
  BY <1>3, <1>6, <1>7, <1>8, StepTells

LEMMA DeliverIsOnce ==
  ASSUME IInv, IInv', OnceInv, HandledOnce, NEW c \in Consumer, NEW o \in Order,
         Deliver(c, o)
  PROVE  OnceInv' /\ [Contract!Next]_<<orders, moneyView>>
<1>1. PICK e \in EventType :
        /\ e = NextMessage(c, o)
        /\ Recorded(o, e) /\ ~BeenThrough(c, o, e)
  BY NextMessageIsRecorded, FreshMessage DEF Deliver, OnceInv
<1>2. Handle(c, o, e) /\ UNCHANGED log
  BY <1>1 DEF Deliver
<1>3. TablesInv /\ TablesTypeOK
  BY DEF IInv, TypeOK, TablesInv
<1>4. Tells(o) /\ Draws(c, o, e)
  BY <1>1, <1>2, <1>3, HandleTells DEF OnceInv
<1>5. NobodyFallsBack /\ BeenThrough(c, o, e)'
  BY <1>1, MovingOn DEF Deliver
<1>6. MessagesArePublished' /\ NoMessageTwice'
  BY <1>2, <1>3, HandleKeepsMarks, LogStaysOnce DEF OnceInv, IInv
<1>7. DrawnOnce(o)'
  <2>1. /\ "inventory" \in Consumer /\ "fulfillment" \in Consumer
        /\ "order.created" \in EventType /\ "payment.processed" \in EventType
    BY DEF Consumer, EventType
  <2>2. ASSUME Recorded(o, "inventory.reserved")' \/ Recorded(o, "inventory.reserve_failed")'
        PROVE  BeenThrough("inventory", o, "order.created")'
    <3>1. CASE c = "inventory" /\ e = "order.created"
      BY <1>5, <3>1
    <3>2. CASE BeenThrough("inventory", o, "order.created")
      BY <1>5, <2>1, <3>2 DEF NobodyFallsBack
    <3> QED
      BY <1>4, <2>2, <3>1, <3>2 DEF Draws, DrawnOnce, OnceInv
  <2>3. ASSUME Recorded(o, "fulfillment.shipped")' \/ Recorded(o, "fulfillment.failed")'
        PROVE  BeenThrough("fulfillment", o, "payment.processed")'
    <3>1. CASE c = "fulfillment" /\ e = "payment.processed"
      BY <1>5, <3>1
    <3>2. CASE BeenThrough("fulfillment", o, "payment.processed")
      BY <1>5, <2>1, <3>2 DEF NobodyFallsBack
    <3> QED
      BY <1>4, <2>3, <3>1, <3>2 DEF Draws, DrawnOnce, OnceInv
  <2> QED
    BY <2>2, <2>3 DEF DrawnOnce
<1> QED
  BY <1>4, <1>5, <1>6, <1>7, StepTells

LEMMA HandlerErrorIsOnce ==
  ASSUME IInv, IInv', OnceInv, HandledOnce, NEW c \in Consumer, NEW o \in Order,
         HandlerError(c, o)
  PROVE  OnceInv' /\ [Contract!Next]_<<orders, moneyView>>
<1>1. /\ HasNext(c, o) /\ pos' = [pos EXCEPT ![c][o] = @ + 1]
      /\ UNCHANGED <<tables, log>>
  BY DEF HandlerError
<1>2. NobodyFallsBack
  BY <1>1, MovingOn
<1>3. RowsStayPublished
  BY <1>1 DEF RowsStayPublished, tables
<1>4. MessagesArePublished' /\ NoMessageTwice'
  BY <1>1, <1>3, LogStaysOnce DEF OnceInv, IInv
<1> QED
  BY <1>1, <1>2, <1>4, QuietStep DEF tables

LEMMA PublishIsOnce ==
  ASSUME IInv, IInv', OnceInv, HandledOnce, NEW o \in Order, NEW e \in EventType,
         Publish(o, e)
  PROVE  OnceInv' /\ [Contract!Next]_<<orders, moneyView>>
<1>1. MessagesArePublished' /\ NoMessageTwice' /\ NobodyFallsBack
  BY PublishOnce DEF OnceInv
<1>2. outbox \in [Order -> [EventType -> {"absent", "pending", "published"}]]
  BY DEF IInv, TypeOK, TablesTypeOK
<1>3. \A p \in Order, f \in EventType : outbox'[p][f] # "absent" <=> outbox[p][f] # "absent"
  BY <1>2 DEF Publish
<1> QED
  BY <1>1, <1>3, QuietStep DEF Publish

\* A step after which every message has still been handled once.
LEMMA OnceStep ==
  ASSUME IInv, OnceInv, [Next]_vars
  PROVE  OnceInv' /\ (HandledOnce' => [Contract!Next]_<<orders, moneyView>>)
<1>1. IInv'
  BY NextKeeps
<1>2. SUFFICES ASSUME HandledOnce'
               PROVE  OnceInv' /\ [Contract!Next]_<<orders, moneyView>>
  BY DEF OnceInv
<1>3. resets \in Nat /\ dups \in Nat
  BY BudgetAssumption DEF IInv, TypeOK
<1>4. CASE UNCHANGED vars
  BY <1>2, <1>4
     DEF vars, tables, broker, faults, HandledOnce, OnceInv, MessagesArePublished,
         NoMessageTwice, DrawnOnce, Story, BeenThrough, Recorded, moneyView
<1>5. ASSUME NEW o \in Order, Create(o)
      PROVE  OnceInv' /\ [Contract!Next]_<<orders, moneyView>>
  <2>1. HandledOnce
    BY <1>2, <1>5 DEF Create, faults, HandledOnce
  <2> QED
    BY <1>1, <1>5, <2>1, CreateIsOnce
<1>6. ASSUME NEW o \in Order, NEW e \in EventType, Publish(o, e)
      PROVE  OnceInv' /\ [Contract!Next]_<<orders, moneyView>>
  <2>1. HandledOnce
    BY <1>2, <1>6 DEF Publish, faults, HandledOnce
  <2> QED
    BY <1>1, <1>6, <2>1, PublishIsOnce
<1>7. ASSUME NEW o \in Order, NEW c \in Consumer, Deliver(c, o)
      PROVE  OnceInv' /\ [Contract!Next]_<<orders, moneyView>>
  <2>1. HandledOnce
    BY <1>2, <1>7 DEF Deliver, faults, HandledOnce
  <2> QED
    BY <1>1, <1>7, <2>1, DeliverIsOnce
<1>8. ASSUME NEW o \in Order, NEW c \in Consumer, HandlerError(c, o)
      PROVE  OnceInv' /\ [Contract!Next]_<<orders, moneyView>>
  <2>1. HandledOnce
    BY <1>2, <1>8 DEF HandlerError, HandledOnce
  <2> QED
    BY <1>1, <1>8, <2>1, HandlerErrorIsOnce
<1>9. ASSUME NEW o \in Order, NEW e \in EventType, PublishUnmarked(o, e)
      PROVE  FALSE
  BY <1>2, <1>3, <1>9 DEF PublishUnmarked, HandledOnce
<1>10. ASSUME NEW o \in Order, NEW c \in Consumer, Redeliver(c, o)
       PROVE  FALSE
  BY <1>2, <1>3, <1>10 DEF Redeliver, HandledOnce
<1> QED
  BY <1>4, <1>5, <1>6, <1>7, <1>8, <1>9, <1>10 DEF Next

LEMMA OnceInit == Init => OnceInv /\ Contract!Init
<1> SUFFICES ASSUME Init
             PROVE  OnceInv /\ Contract!Init
  OBVIOUS
<1>1. Contract!Init
  BY DEF Init, TablesInit, Contract!Init
<1>2. \A t \in Topic, o \in Order : log[t][o] = <<>> /\ Len(log[t][o]) = 0
  BY DEF Init
<1>3. MessagesArePublished /\ NoMessageTwice
  BY <1>2 DEF MessagesArePublished, NoMessageTwice
<1>4. \A o \in Order : DrawnOnce(o) /\ Story(o)
  BY DEF Init, TablesInit, DrawnOnce, Story, Recorded, EventType
<1> QED
  BY <1>1, <1>3, <1>4 DEF OnceInv

-----------------------------------------------------------------------------
(* The theorems                                                            *)

\* While no message is handled twice, Kafka holds every message once and the
\* tables of the services tell one story of each order.
THEOREM OneStory == Spec => []OnceInv
<1>1. Init => OnceInv
  BY OnceInit
<1>2. IInv /\ OnceInv /\ [Next]_vars => OnceInv'
  BY OnceStep
<1> QED
  BY <1>1, <1>2, InvariantHolds, PTL DEF Spec

\* However many handlers fail, an order that was decided was decided soundly:
\* a completed one is paid and shipped, a failed one neither.
THEOREM DecisionsAreSound == Spec => []StrandedButSound
<1>1. IInv /\ OnceInv => StrandedButSound
  <2>1. SUFFICES ASSUME IInv, OnceInv, HandledOnce, NEW o \in Order
                 PROVE  /\ orders[o] = "completed" =>
                             payments[o].status = "processed" /\ fulfillments[o] = "shipped"
                        /\ orders[o] = "failed" =>
                             payments[o].status # "processed" /\ fulfillments[o] # "shipped"
    BY DEF StrandedButSound
  <2>2. Story(o) /\ TablesInv
    BY <2>1 DEF OnceInv, IInv, TypeOK, TablesInv
  <2> QED
    BY <2>2, PastOf DEF Story
<1> QED
  BY <1>1, OneStory, InvariantHolds, PTL

\* Saga implements OrderContract as long as no message is handled twice: an
\* order is decided once, completed only with its money held, and the money
\* goes back in the step that fails it.
THEOREM OrdersImplementContract == Spec => ContractSpec
<1>1. Init => Contract!Init
  BY OnceInit
<1>2. IInv /\ OnceInv /\ [Next]_vars
        => [HandledOnce' => Contract!Next]_<<orders, moneyView>>
  BY OnceStep
<1> QED
  BY <1>1, <1>2, OneStory, InvariantHolds, PTL
     DEF Spec, ContractSpec, Contract!contract, moneyView

-----------------------------------------------------------------------------
(* Where an order ends                                                     *)

\* A row that is marked is in Kafka.
MarkedIsSent ==
  \A o \in Order, e \in EventType :
    outbox[o][e] = "published" =>
      \E i \in 1 .. Len(log[TopicFor(e)][o]) : log[TopicFor(e)][o][i] = e

\* What consumer c leaves behind when its handler of e has done its work.
Done(c, o, e) ==
  /\ c = "inventory" /\ e = "order.created" =>
       Recorded(o, "inventory.reserved") \/ Recorded(o, "inventory.reserve_failed")
  /\ c = "payment" /\ e = "inventory.reserved" =>
       Recorded(o, "payment.processed") \/ Recorded(o, "payment.failed")
  /\ c = "fulfillment" /\ e = "payment.processed" =>
       Recorded(o, "fulfillment.shipped") \/ Recorded(o, "fulfillment.failed")
  /\ c = "orch-inventory" /\ e = "inventory.reserve_failed" =>
       Recorded(o, "order.failed")
  /\ c = "orch-payment" /\ e = "payment.failed" =>
       Recorded(o, "order.failed") /\ Recorded(o, "inventory.released")
  /\ c = "orch-fulfillment" /\ e = "fulfillment.failed" =>
       /\ Recorded(o, "order.failed") /\ Recorded(o, "inventory.released")
       /\ Recorded(o, "payment.refunded")
  /\ c = "orch-fulfillment" /\ e = "fulfillment.shipped" =>
       Recorded(o, "order.completed")
  /\ c = "notification" /\ e = "order.completed" => "success" \in notified[o]
  /\ c = "notification" /\ e = "order.failed" => "failure" \in notified[o]

\* A consumer has done its work on every message it has been through.
WorkIsDone ==
  \A c \in Consumer, o \in Order, e \in EventType :
    BeenThrough(c, o, e) => Done(c, o, e)

\* A notice is sent of what has happened.
NoticesAreTrue ==
  \A o \in Order :
    /\ "success" \in notified[o] => Recorded(o, "order.completed")
    /\ "failure" \in notified[o] => Recorded(o, "order.failed")

\* What the tables hold of o for the events that are recorded of it.
Books(o) ==
  /\ Recorded(o, "order.completed") => orders[o] = "completed"
  /\ Recorded(o, "order.failed") => orders[o] = "failed"
  /\ ~Recorded(o, "inventory.reserved") /\ ~Recorded(o, "inventory.reserve_failed")
       => reserved[o] = 0
  /\ Recorded(o, "inventory.reserved") /\ ~Recorded(o, "inventory.released")
       => reserved[o] = Lines[o]
  /\ Recorded(o, "inventory.released") => reserved[o] = 0
  /\ Recorded(o, "inventory.reserve_failed") => reserved[o] < Lines[o]
  /\ orders[o] = "failed" =>
       Recorded(o, "inventory.reserve_failed") \/ Recorded(o, "inventory.released")

\* The second invariant: inductive together with IInv and OnceInv.
SettleInv ==
  /\ MarkedIsSent
  /\ NoticesAreTrue
  /\ errors = 0 => WorkIsDone
  /\ HandledOnce => \A o \in Order : Books(o)

-----------------------------------------------------------------------------
(* The work of the handlers                                                *)

\* Work that is done stays done: no event is taken off the record and no
\* notice is called back.
LEMMA DoneStays ==
  ASSUME NEW c \in Consumer, NEW o \in Order, NEW e \in EventType, Done(c, o, e),
         StillRecorded, notified[o] \subseteq notified'[o]
  PROVE  Done(c, o, e)'
<1>1. \A f \in EventType : Recorded(o, f) => Recorded(o, f)'
  BY DEF StillRecorded, Recorded
<1> QED
  BY <1>1 DEF Done, EventType

\* A handler that does not fail does its work.
LEMMA HandleDoes ==
  ASSUME TablesInv, NotificationTypeOK, NEW c \in Consumer, NEW o \in Order,
         NEW e \in EventType, Handle(c, o, e)
  PROVE  Done(c, o, e)'
<1>0. ASSUME NEW E \in SUBSET EventType, AppendOutbox(o, E), NEW f \in E
      PROVE  Recorded(o, f)'
  BY <1>0, AppendTells
<1>1. CASE c = "inventory" /\ e = "order.created"
  <2>1. PICK f \in {"inventory.reserved", "inventory.reserve_failed"} : AppendOutbox(o, {f})
    BY <1>1 DEF Handle, InventoryHandler, InventoryTriggers, ReserveInventory
  <2>2. Recorded(o, f)'
    BY <1>0, <2>1 DEF EventType
  <2> QED
    BY <1>1, <2>2 DEF Done
<1>2. CASE c = "payment" /\ e = "inventory.reserved"
  <2>1. ProcessPayment(o)
    BY <1>2 DEF Handle, PaymentHandler, PaymentTriggers
  <2>2. CASE payments[o].status # "none"
    <3>1. Recorded(o, "payment.processed") \/ Recorded(o, "payment.failed")
      BY <2>2, PastOf
    <3>2. UNCHANGED outbox
      BY <2>1, <2>2 DEF ProcessPayment, tables
    <3> QED
      BY <1>2, <3>1, <3>2 DEF Done, Recorded
  <2>3. CASE payments[o].status = "none"
    <3>1. PICK f \in {"payment.processed", "payment.failed"} : AppendOutbox(o, {f})
      BY <2>1, <2>3 DEF ProcessPayment
    <3>2. Recorded(o, f)'
      BY <1>0, <3>1 DEF EventType
    <3> QED
      BY <1>2, <3>2 DEF Done
  <2> QED
    BY <2>2, <2>3
<1>3. CASE c = "fulfillment" /\ e = "payment.processed"
  <2>1. PICK f \in {"fulfillment.shipped", "fulfillment.failed"} : AppendOutbox(o, {f})
    BY <1>3 DEF Handle, FulfillmentHandler, FulfillmentTriggers, StartFulfillment
  <2>2. Recorded(o, f)'
    BY <1>0, <2>1 DEF EventType
  <2> QED
    BY <1>3, <2>2 DEF Done
<1>4. CASE c = "orch-inventory" /\ e = "inventory.reserve_failed"
  <2>1. AppendOutbox(o, {"order.failed"})
    BY <1>4 DEF Handle, OrchestratorHandler, FailSaga
  <2>2. Recorded(o, "order.failed")'
    BY <1>0, <2>1 DEF EventType
  <2> QED
    BY <1>4, <2>2 DEF Done
<1>5. CASE c = "orch-payment" /\ e = "payment.failed"
  <2>1. AppendOutbox(o, {"inventory.released", "order.failed"})
    BY <1>5 DEF Handle, OrchestratorHandler, CompensatePaymentFailed
  <2>2. Recorded(o, "order.failed")' /\ Recorded(o, "inventory.released")'
    BY <1>0, <2>1 DEF EventType
  <2> QED
    BY <1>5, <2>2 DEF Done
<1>6. CASE c = "orch-fulfillment" /\ e = "fulfillment.failed"
  <2>1. AppendOutbox(o, {"payment.refunded", "inventory.released", "order.failed"})
    BY <1>6 DEF Handle, OrchestratorHandler, CompensateFulfillmentFailed
  <2>2. /\ Recorded(o, "order.failed")' /\ Recorded(o, "inventory.released")'
        /\ Recorded(o, "payment.refunded")'
    BY <1>0, <2>1 DEF EventType
  <2> QED
    BY <1>6, <2>2 DEF Done
<1>7. CASE c = "orch-fulfillment" /\ e = "fulfillment.shipped"
  <2>1. AppendOutbox(o, {"order.completed"})
    BY <1>7 DEF Handle, OrchestratorHandler, CompleteSaga
  <2>2. Recorded(o, "order.completed")'
    BY <1>0, <2>1 DEF EventType
  <2> QED
    BY <1>7, <2>2 DEF Done
<1>8. CASE c = "notification" /\ e \in {"order.completed", "order.failed"}
  <2>1. NotificationHandler(o, e)
    BY <1>8 DEF Handle
  <2> QED
    BY <1>8, <2>1 DEF Done, NotificationHandler, NotificationTypeOK
<1> QED
  BY <1>1, <1>2, <1>3, <1>4, <1>5, <1>6, <1>7, <1>8 DEF Done

\* The messages a consumer has been through after a step are those it had
\* been through and those it has done its work on.
LEMMA WorkStays ==
  ASSUME WorkIsDone, StillRecorded, \A p \in Order : notified[p] \subseteq notified'[p],
         \A d \in Consumer, p \in Order, f \in EventType :
           BeenThrough(d, p, f)' => BeenThrough(d, p, f) \/ Done(d, p, f)'
  PROVE  WorkIsDone'
BY DoneStays DEF WorkIsDone

\* What the events that end an order imply of its past.
LEMMA EndingsHaveCauses ==
  ASSUME TablesInv, NEW o \in Order
  PROVE  /\ Recorded(o, "order.completed") => Recorded(o, "fulfillment.shipped")
         /\ Recorded(o, "order.failed") =>
              \/ Recorded(o, "inventory.reserve_failed")
              \/ Recorded(o, "payment.failed")
              \/ Recorded(o, "fulfillment.failed")
         /\ Recorded(o, "inventory.released") =>
              Recorded(o, "payment.failed") \/ Recorded(o, "fulfillment.failed")
<1>1. \A e \in EventType : Recorded(o, e) => \E c \in Causes(e) : Recorded(o, c)
  BY DEF TablesInv, Causality
<1>2. /\ "order.completed" \in EventType /\ "order.failed" \in EventType
      /\ "inventory.released" \in EventType
  BY DEF EventType
<1> QED
  BY <1>1, <1>2, CausesAre

-----------------------------------------------------------------------------
(* The books                                                               *)

\* A step that touches the stock and the notices of no other order than o.
ElsewhereAsBefore(o) ==
  \A p \in Order \ {o} : reserved'[p] = reserved[p]

LEMMA OtherBooks ==
  ASSUME NEW o \in Order, OnlyOf(o), ElsewhereAsBefore(o),
         NEW p \in Order, p # o, Books(p)
  PROVE  Books(p)'
<1>1. /\ orders'[p] = orders[p] /\ reserved'[p] = reserved[p]
      /\ \A e \in EventType : Recorded(p, e)' <=> Recorded(p, e)
  BY DEF OnlyOf, ElsewhereAsBefore, Recorded
<1> QED
  BY <1>1 DEF Books, EventType

LEMMA CreateBooks ==
  ASSUME TablesInv, NEW o \in Order, Story(o), Books(o), CreateOrder(o)
  PROVE  Books(o)' /\ ElsewhereAsBefore(o)
<1>1. /\ orders[o] = "none" /\ orders' = [orders EXCEPT ![o] = "pending"]
      /\ UNCHANGED reserved
      /\ AppendOutbox(o, {"order.created"})
  BY DEF CreateOrder
<1>2. \A e \in EventType : Recorded(o, e)' <=> Recorded(o, e) \/ e \in {"order.created"}
  BY <1>1, AppendTells DEF EventType
<1> QED
  BY <1>1, <1>2 DEF Books, EventType, ElsewhereAsBefore

LEMMA ReserveInventoryBooks ==
  ASSUME TablesInv, NEW o \in Order, Story(o), Books(o), Recorded(o, "order.created"),
         ~Recorded(o, "inventory.reserved"), ~Recorded(o, "inventory.reserve_failed"),
         ReserveInventory(o)
  PROVE  Books(o)' /\ ElsewhereAsBefore(o)
<1>1. PICK n \in 0 .. Lines[o] :
        /\ reserved' = [reserved EXCEPT ![o] = @ + n]
        /\ AppendOutbox(o, {IF n = Lines[o] THEN "inventory.reserved"
                                            ELSE "inventory.reserve_failed"})
        /\ UNCHANGED orders
  BY DEF ReserveInventory
<1> DEFINE f == IF n = Lines[o] THEN "inventory.reserved" ELSE "inventory.reserve_failed"
<1>2. f \in EventType
  BY DEF EventType
<1>3. \A e \in EventType : Recorded(o, e)' <=> Recorded(o, e) \/ e \in {f}
  BY <1>1, <1>2, AppendTells
<1>4. reserved \in [Order -> Nat] /\ Lines[o] \in Nat
  BY CartAssumption DEF TablesInv, TablesTypeOK
<1>5. reserved[o] = 0
  BY DEF Books
<1>6. ElsewhereAsBefore(o) /\ reserved'[o] = n
  BY <1>1, <1>4, <1>5 DEF ElsewhereAsBefore
<1>7. /\ ~Recorded(o, "inventory.released")
      /\ ~Recorded(o, "order.completed") /\ ~Recorded(o, "order.failed")
  BY PastOf, EndingsHaveCauses
<1>8. n # Lines[o] => n < Lines[o]
  BY <1>4
<1>9. orders'[o] # "failed"
  BY <1>1, <1>7 DEF Books
<1> QED
  BY <1>1, <1>3, <1>6, <1>7, <1>8, <1>9 DEF Books, EventType

\* The other services touch no stock and end no order.
LEMMA BooksUntouched ==
  ASSUME NEW o \in Order, Books(o), UNCHANGED <<orders, reserved>>,
         \A e \in {"order.completed", "order.failed", "inventory.reserved",
                   "inventory.reserve_failed", "inventory.released"} :
           Recorded(o, e)' <=> Recorded(o, e)
  PROVE  Books(o)' /\ ElsewhereAsBefore(o)
BY DEF Books, ElsewhereAsBefore

\* The orchestrator ends an order: what it records agrees with the tables,
\* and it gives back what it says it gives back.
LEMMA EndingBooks ==
  ASSUME TablesInv, NEW o \in Order, Story(o), Books(o),
         NEW E \in SUBSET EventType, AppendOutbox(o, E),
         NEW k \in {"completed", "failed"}, orders' = [orders EXCEPT ![o] = k],
         "order.completed" \in E => k = "completed",
         "order.failed" \in E => k = "failed",
         k = "completed" => Recorded(o, "fulfillment.shipped"),
         k = "failed" => ~Recorded(o, "fulfillment.shipped"),
         k = "failed" =>
           Recorded(o, "inventory.reserve_failed") \/ "inventory.released" \in E,
         "inventory.released" \in E => ~Recorded(o, "inventory.reserve_failed"),
         "inventory.reserved" \notin E, "inventory.reserve_failed" \notin E,
         \/ "inventory.released" \notin E /\ UNCHANGED reserved
         \/ /\ "inventory.released" \in E /\ reserved' = [reserved EXCEPT ![o] = 0]
  PROVE  Books(o)' /\ ElsewhereAsBefore(o)
<1>1. \A e \in EventType : Recorded(o, e)' <=> Recorded(o, e) \/ e \in E
  BY AppendTells
<1>2. /\ orders \in [Order -> {"none", "pending", "completed", "failed"}]
      /\ reserved \in [Order -> Nat]
  BY DEF TablesInv, TablesTypeOK
<1>3. orders'[o] = k /\ ElsewhereAsBefore(o)
  BY <1>2 DEF ElsewhereAsBefore
<1>4. /\ Recorded(o, "order.completed") => k = "completed"
      /\ Recorded(o, "order.failed") => k = "failed"
  BY EndingsHaveCauses, PastOf DEF Story, Books
<1>5. /\ "inventory.released" \in E => reserved'[o] = 0
      /\ "inventory.released" \notin E => reserved'[o] = reserved[o]
  BY <1>2
<1> QED
  BY <1>1, <1>3, <1>4, <1>5 DEF Books, EventType

\* A message its consumer has not been through keeps the books.
LEMMA HandleBooks ==
  ASSUME TablesInv, NEW c \in Consumer, NEW o \in Order, NEW e \in EventType,
         Recorded(o, e), Story(o), DrawnOnce(o), Books(o), ~BeenThrough(c, o, e),
         Handle(c, o, e)
  PROVE  Books(o)' /\ ElsewhereAsBefore(o)
<1> DEFINE Kept == {"order.completed", "order.failed", "inventory.reserved",
                    "inventory.reserve_failed", "inventory.released"}
<1>1. CASE UNCHANGED tables
  BY <1>1, BooksUntouched DEF tables, Recorded
<1>2. CASE c = "inventory" /\ e = "order.created" /\ ReserveInventory(o)
  BY <1>2, ReserveInventoryBooks DEF DrawnOnce
<1>3. CASE e = "inventory.reserved" /\ ProcessPayment(o) /\ ~UNCHANGED tables
  <2>1. PICK f \in {"payment.processed", "payment.failed"} :
          AppendOutbox(o, {f}) /\ UNCHANGED <<orders, reserved>>
    BY <1>3 DEF ProcessPayment
  <2>2. {f} \in SUBSET EventType /\ Kept \subseteq EventType
    BY DEF EventType
  <2>3. \A g \in EventType : Recorded(o, g)' <=> Recorded(o, g) \/ g \in {f}
    BY <2>1, <2>2, AppendTells
  <2>4. \A g \in Kept : Recorded(o, g)' <=> Recorded(o, g)
    BY <2>2, <2>3
  <2> QED
    BY <2>1, <2>4, BooksUntouched
<1>4. CASE e = "payment.processed" /\ StartFulfillment(o)
  <2>1. PICK f \in {"fulfillment.shipped", "fulfillment.failed"} :
          AppendOutbox(o, {f}) /\ UNCHANGED <<orders, reserved>>
    BY <1>4 DEF StartFulfillment
  <2>2. {f} \in SUBSET EventType /\ Kept \subseteq EventType
    BY DEF EventType
  <2>3. \A g \in EventType : Recorded(o, g)' <=> Recorded(o, g) \/ g \in {f}
    BY <2>1, <2>2, AppendTells
  <2>4. \A g \in Kept : Recorded(o, g)' <=> Recorded(o, g)
    BY <2>2, <2>3
  <2> QED
    BY <2>1, <2>4, BooksUntouched
<1>5. ASSUME NEW step, AdvanceStep(o, step)
      PROVE  Books(o)' /\ ElsewhereAsBefore(o)
  BY <1>5, BooksUntouched DEF AdvanceStep, Recorded
<1>6. CASE e = "inventory.reserve_failed" /\ FailSaga(o)
  <2> DEFINE E == {"order.failed"}
  <2>1. ~Recorded(o, "fulfillment.shipped")
    BY <1>6, PastOf DEF Story
  <2>2. /\ orders' = [orders EXCEPT ![o] = "failed"] /\ UNCHANGED reserved
        /\ AppendOutbox(o, E)
    BY <1>6 DEF FailSaga
  <2>3. /\ E \in SUBSET EventType
        /\ "inventory.reserved" \notin E /\ "inventory.reserve_failed" \notin E
        /\ "order.completed" \notin E
        /\ "inventory.released" \notin E
    BY DEF EventType
  <2> HIDE DEF E
  <2> QED
    BY <1>6, <2>1, <2>2, <2>3, EndingBooks
<1>7. CASE e = "payment.failed" /\ CompensatePaymentFailed(o)
  <2> DEFINE E == {"inventory.released", "order.failed"}
  <2>1. /\ ~Recorded(o, "fulfillment.shipped")
        /\ ~Recorded(o, "inventory.reserve_failed")
    BY <1>7, PastOf DEF Story
  <2>2. /\ orders' = [orders EXCEPT ![o] = "failed"]
        /\ reserved' = [reserved EXCEPT ![o] = 0]
        /\ AppendOutbox(o, E)
    BY <1>7 DEF CompensatePaymentFailed, ReleaseInventory
  <2>3. /\ E \in SUBSET EventType
        /\ "inventory.reserved" \notin E /\ "inventory.reserve_failed" \notin E
        /\ "order.completed" \notin E
        /\ "inventory.released" \in E
    BY DEF EventType
  <2> HIDE DEF E
  <2> QED
    BY <1>7, <2>1, <2>2, <2>3, EndingBooks
<1>8. CASE e = "fulfillment.failed" /\ CompensateFulfillmentFailed(o)
  <2> DEFINE E == {"payment.refunded", "inventory.released", "order.failed"}
  <2>1. /\ ~Recorded(o, "fulfillment.shipped")
        /\ ~Recorded(o, "inventory.reserve_failed")
    BY <1>8, PastOf DEF Story
  <2>2. /\ orders' = [orders EXCEPT ![o] = "failed"]
        /\ reserved' = [reserved EXCEPT ![o] = 0]
        /\ AppendOutbox(o, E)
    BY <1>8 DEF CompensateFulfillmentFailed, ReleaseInventory
  <2>3. /\ E \in SUBSET EventType
        /\ "inventory.reserved" \notin E /\ "inventory.reserve_failed" \notin E
        /\ "order.completed" \notin E
        /\ "inventory.released" \in E
    BY DEF EventType
  <2> HIDE DEF E
  <2> QED
    BY <1>8, <2>1, <2>2, <2>3, EndingBooks
<1>9. CASE e = "fulfillment.shipped" /\ CompleteSaga(o)
  <2> DEFINE E == {"order.completed"}
  <2>1. /\ orders' = [orders EXCEPT ![o] = "completed"] /\ UNCHANGED reserved
        /\ AppendOutbox(o, E)
    BY <1>9 DEF CompleteSaga
  <2>2. /\ E \in SUBSET EventType
        /\ "inventory.reserved" \notin E /\ "inventory.reserve_failed" \notin E
        /\ "order.failed" \notin E
        /\ "inventory.released" \notin E
    BY DEF EventType
  <2> HIDE DEF E
  <2> QED
    BY <1>9, <2>1, <2>2, EndingBooks
<1> QED
  BY <1>1, <1>2, <1>3, <1>4, <1>5, <1>6, <1>7, <1>8, <1>9
     DEF Handle, InventoryHandler, InventoryTriggers, PaymentHandler, PaymentTriggers,
         FulfillmentHandler, FulfillmentTriggers, OrchestratorHandler

\* The customer is sent a notice of what the message tells.
LEMMA HandleNotices ==
  ASSUME NotificationTypeOK, NoticesAreTrue, StillRecorded,
         NEW c \in Consumer, NEW o \in Order, NEW e \in EventType, Recorded(o, e),
         Handle(c, o, e)
  PROVE  NoticesAreTrue' /\ \A p \in Order : notified[p] \subseteq notified'[p]
<1>1. \A p \in Order, f \in EventType : Recorded(p, f) => Recorded(p, f)'
  BY DEF StillRecorded, Recorded
<1>2. "order.completed" \in EventType /\ "order.failed" \in EventType
  BY DEF EventType
<1>3. CASE UNCHANGED notified
  BY <1>1, <1>2, <1>3 DEF NoticesAreTrue
<1>4. CASE NotificationHandler(o, e)
  <2>1. /\ \A p \in Order \ {o} : notified'[p] = notified[p]
        /\ notified[o] \subseteq notified'[o]
        /\ "success" \in notified'[o] => "success" \in notified[o] \/ e = "order.completed"
        /\ "failure" \in notified'[o] => "failure" \in notified[o] \/ e = "order.failed"
    BY <1>4 DEF NotificationHandler, NotificationTypeOK
  <2> QED
    BY <1>1, <1>2, <2>1 DEF NoticesAreTrue
<1> QED
  BY <1>3, <1>4 DEF Handle

\* What is sent goes to the end of its topic, and what was there stays.
LEMMA SendAppends ==
  ASSUME TypeOK, NEW o \in Order, NEW e \in EventType, Send(o, e)
  PROVE  /\ \A t \in Topic, p \in Order :
              /\ Len(log[t][p]) \in Nat /\ Len(log'[t][p]) \in Nat
              /\ Len(log[t][p]) <= Len(log'[t][p])
              /\ \A i \in 1 .. Len(log[t][p]) : log'[t][p][i] = log[t][p][i]
         /\ \E i \in 1 .. Len(log'[TopicFor(e)][o]) : log'[TopicFor(e)][o][i] = e
<1> DEFINE T == TopicFor(e)
<1>1. T \in Topic
  BY DEF TopicFor, Topic
<1>2. log \in [Topic -> [Order -> Seq(EventType)]]
  BY DEF TypeOK
<1>3. log' = [log EXCEPT ![T][o] = Append(@, e)]
  BY DEF Send
<1> HIDE DEF T
<1>4. ASSUME NEW t \in Topic, NEW p \in Order
      PROVE  /\ Len(log[t][p]) \in Nat
             /\ Len(Append(log[t][p], e)) = Len(log[t][p]) + 1
             /\ Append(log[t][p], e)[Len(log[t][p]) + 1] = e
             /\ \A i \in 1 .. Len(log[t][p]) : Append(log[t][p], e)[i] = log[t][p][i]
  <2>1. log[t][p] \in Seq(EventType)
    BY <1>2
  <2> QED
    BY <2>1, AppendFacts
<1>5. log'[T][o] = Append(log[T][o], e)
  BY <1>1, <1>2, <1>3
<1>6. ASSUME NEW t \in Topic, NEW p \in Order
      PROVE  /\ Len(log[t][p]) \in Nat /\ Len(log'[t][p]) \in Nat
             /\ Len(log[t][p]) <= Len(log'[t][p])
             /\ \A i \in 1 .. Len(log[t][p]) : log'[t][p][i] = log[t][p][i]
  <2>1. CASE t = T /\ p = o
    <3>1. Len(log'[t][p]) = Len(log[t][p]) + 1
      BY <1>4, <1>5, <2>1
    <3>2. \A i \in 1 .. Len(log[t][p]) : log'[t][p][i] = log[t][p][i]
      BY <1>4, <1>5, <2>1
    <3> QED
      BY <1>4, <3>1, <3>2
  <2>2. CASE ~(t = T /\ p = o)
    <3>1. log'[t][p] = log[t][p]
      BY <1>2, <1>3, <2>2
    <3> QED
      BY <1>4, <3>1
  <2> QED
    BY <2>1, <2>2
<1>7. \E i \in 1 .. Len(log'[T][o]) : log'[T][o][i] = e
  <2>1. Len(log[T][o]) + 1 \in 1 .. Len(log'[T][o])
    BY <1>1, <1>4, <1>5
  <2> QED
    BY <1>1, <1>4, <1>5, <2>1
<1> QED
  BY <1>6, <1>7 DEF T

-----------------------------------------------------------------------------
(* The steps of Saga, for the second invariant                             *)

\* A step that sends nothing leaves what is marked in Kafka.
LEMMA SentStays ==
  ASSUME MarkedIsSent, NothingMarked, UNCHANGED log
  PROVE  MarkedIsSent'
BY DEF MarkedIsSent, NothingMarked

\* A step that neither records an event nor moves stock or notices.
LEMMA QuietBooks ==
  ASSUME NoticesAreTrue, UNCHANGED <<orders, reserved, notified>>,
         \A p \in Order, f \in EventType : outbox'[p][f] # "absent" <=> outbox[p][f] # "absent"
  PROVE  /\ NoticesAreTrue'
         /\ StillRecorded
         /\ \A p \in Order : notified[p] \subseteq notified'[p]
         /\ \A p \in Order : Books(p) => Books(p)'
BY DEF NoticesAreTrue, StillRecorded, Books, Recorded, EventType

LEMMA CreateSettles ==
  ASSUME IInv, OnceInv, SettleInv, NEW o \in Order, Create(o)
  PROVE  SettleInv'
<1>1. CreateOrder(o) /\ UNCHANGED <<notified, log, pos, resets, dups, errors>>
  BY DEF Create, broker, faults
<1>2. TablesInv /\ TablesTypeOK
  BY DEF IInv, TypeOK, TablesInv
<1>3. StillRecorded
  BY <1>1, <1>2, CreateOrderKeeps
<1>4. MarkedIsSent'
  <2>1. NothingMarked
    BY <1>1, <1>2, AppendKeepsMarks DEF CreateOrder
  <2> QED
    BY <1>1, <2>1, SentStays DEF SettleInv
<1>5. NoticesAreTrue'
  BY <1>1, <1>3 DEF SettleInv, NoticesAreTrue, StillRecorded, Recorded, EventType
<1>6. errors' = 0 => WorkIsDone'
  <2>1. \A d \in Consumer, p \in Order, f \in EventType :
          BeenThrough(d, p, f)' => BeenThrough(d, p, f)
    BY <1>1 DEF BeenThrough
  <2> QED
    BY <1>1, <1>3, <2>1, WorkStays DEF SettleInv
<1>7. ASSUME HandledOnce', NEW p \in Order
      PROVE  Books(p)'
  <2>1. HandledOnce
    BY <1>1, <1>7 DEF HandledOnce
  <2>2. Story(o) /\ Books(o) /\ Books(p)
    BY <2>1 DEF OnceInv, SettleInv
  <2>3. Books(o)' /\ ElsewhereAsBefore(o)
    BY <1>1, <1>2, <2>2, CreateBooks
  <2>4. OnlyOf(o)
    BY <1>1, <1>2, <2>2, CreateTells DEF Tells
  <2> QED
    BY <2>2, <2>3, <2>4, OtherBooks
<1> QED
  BY <1>4, <1>5, <1>6, <1>7 DEF SettleInv

\* Publishing, be the row marked or not.
LEMMA PublishSettles ==
  ASSUME IInv, SettleInv, NEW o \in Order, NEW e \in EventType,
         Publish(o, e) \/ PublishUnmarked(o, e)
  PROVE  SettleInv'
<1>1. /\ Send(o, e)
      /\ UNCHANGED <<orders, reserved, notified, pos, resets, errors>>
      /\ outbox[o][e] = "pending"
      /\ outbox' = outbox \/ outbox' = [outbox EXCEPT ![o][e] = "published"]
      /\ dups' = dups \/ dups' = dups + 1
  BY DEF Publish, PublishUnmarked, tables, faults
<1>2. /\ outbox \in [Order -> [EventType -> {"absent", "pending", "published"}]]
      /\ dups \in Nat
  BY BudgetAssumption DEF IInv, TypeOK, TablesTypeOK
<1>3. /\ \A p \in Order, f \in EventType :
           outbox'[p][f] # "absent" <=> outbox[p][f] # "absent"
      /\ \A p \in Order, f \in EventType :
           outbox'[p][f] = "published" => outbox[p][f] = "published" \/ (p = o /\ f = e)
  BY <1>1, <1>2
<1>4. /\ \A t \in Topic, p \in Order :
           /\ Len(log[t][p]) \in Nat /\ Len(log'[t][p]) \in Nat
           /\ Len(log[t][p]) <= Len(log'[t][p])
           /\ \A i \in 1 .. Len(log[t][p]) : log'[t][p][i] = log[t][p][i]
      /\ \E i \in 1 .. Len(log'[TopicFor(e)][o]) : log'[TopicFor(e)][o][i] = e
  BY <1>1, SendAppends DEF IInv
<1>5. MarkedIsSent'
  <2> SUFFICES ASSUME NEW p \in Order, NEW f \in EventType, outbox'[p][f] = "published"
               PROVE  \E i \in 1 .. Len(log'[TopicFor(f)][p]) : log'[TopicFor(f)][p][i] = f
    BY DEF MarkedIsSent
  <2>1. CASE outbox[p][f] = "published"
    <3>1. PICK i \in 1 .. Len(log[TopicFor(f)][p]) : log[TopicFor(f)][p][i] = f
      BY <2>1 DEF SettleInv, MarkedIsSent
    <3>2. TopicFor(f) \in Topic
      BY DEF TopicFor, Topic
    <3>3. i \in 1 .. Len(log'[TopicFor(f)][p]) /\ log'[TopicFor(f)][p][i] = f
      BY <1>4, <3>1, <3>2
    <3> QED
      BY <3>3
  <2>2. CASE p = o /\ f = e
    BY <1>4, <2>2
  <2> QED
    BY <1>3, <2>1, <2>2
<1>6. /\ NoticesAreTrue' /\ StillRecorded
      /\ \A p \in Order : notified[p] \subseteq notified'[p]
      /\ \A p \in Order : Books(p) => Books(p)'
  BY <1>1, <1>3, QuietBooks DEF SettleInv
<1>7. errors' = 0 => WorkIsDone'
  <2>1. ASSUME NEW d \in Consumer, NEW p \in Order, NEW f \in EventType,
               BeenThrough(d, p, f)'
        PROVE  BeenThrough(d, p, f)
    <3>1. PICK i \in 1 .. pos[d][p] : log'[TopicOf(d)][p][i] = f
      BY <1>1, <2>1 DEF BeenThrough
    <3>2. pos[d][p] \in Nat /\ pos[d][p] <= Len(log[TopicOf(d)][p])
      BY DEF IInv, TypeOK
    <3>3. TopicOf(d) \in Topic
      BY DEF Consumer, TopicOf, Topic
    <3>4. i \in 1 .. Len(log[TopicOf(d)][p])
      BY <1>4, <3>2, <3>3
    <3>5. log[TopicOf(d)][p][i] = f
      BY <1>4, <3>1, <3>3, <3>4
    <3> QED
      BY <3>5 DEF BeenThrough
  <2> QED
    BY <1>1, <1>6, <2>1, WorkStays DEF SettleInv
<1>8. HandledOnce' => HandledOnce
  BY <1>1, <1>2 DEF HandledOnce
<1> QED
  BY <1>5, <1>6, <1>7, <1>8 DEF SettleInv

\* What the consumers have been through after a step is what they had been
\* through, and the message e of o for c.
OneMoreAtMost(c, o, e) ==
  \A d \in Consumer, p \in Order, f \in EventType :
    BeenThrough(d, p, f)' => BeenThrough(d, p, f) \/ (d = c /\ p = o /\ f = e)

LEMMA MovingOnByOne ==
  ASSUME IInv, NEW c \in Consumer, NEW o \in Order,
         NEW e, e = NextMessage(c, o),
         pos' = [pos EXCEPT ![c][o] = @ + 1], UNCHANGED log
  PROVE  OneMoreAtMost(c, o, e)
<1> SUFFICES ASSUME NEW d \in Consumer, NEW p \in Order, NEW f \in EventType,
                    BeenThrough(d, p, f)'
             PROVE  BeenThrough(d, p, f) \/ (d = c /\ p = o /\ f = e)
  BY DEF OneMoreAtMost
<1>1. pos \in [Consumer -> [Order -> Nat]]
  BY DEF IInv, TypeOK
<1>2. PICK i \in 1 .. pos'[d][p] : log[TopicOf(d)][p][i] = f
  BY DEF BeenThrough
<1>3. CASE d = c /\ p = o
  <2>1. pos'[d][p] = pos[d][p] + 1 /\ pos[d][p] \in Nat
    BY <1>1, <1>3
  <2>2. CASE i = pos[d][p] + 1
    BY <1>2, <1>3, <2>2 DEF NextMessage
  <2>3. CASE i \in 1 .. pos[d][p]
    BY <1>2, <2>3 DEF BeenThrough
  <2> QED
    BY <2>1, <2>2, <2>3
<1>4. CASE ~(d = c /\ p = o)
  <2>1. pos'[d][p] = pos[d][p]
    BY <1>1, <1>4
  <2> QED
    BY <1>2, <2>1 DEF BeenThrough
<1> QED
  BY <1>3, <1>4

LEMMA DeliverSettles ==
  ASSUME IInv, OnceInv, SettleInv, NEW c \in Consumer, NEW o \in Order, Deliver(c, o)
  PROVE  SettleInv'
<1>1. PICK e \in EventType : e = NextMessage(c, o) /\ Recorded(o, e)
  BY NextMessageIsRecorded DEF Deliver
<1>2. /\ Handle(c, o, e) /\ HasNext(c, o)
      /\ pos' = [pos EXCEPT ![c][o] = @ + 1]
      /\ UNCHANGED <<log, resets, dups, errors>>
  BY <1>1 DEF Deliver, faults
<1>3. TablesInv /\ TablesTypeOK /\ NotificationTypeOK
  BY DEF IInv, TypeOK, TablesInv
<1>4. StillRecorded
  BY <1>1, <1>2, <1>3, HandleKeeps
<1>5. MarkedIsSent'
  <2>1. NothingMarked
    BY <1>2, <1>3, HandleKeepsMarks
  <2> QED
    BY <1>2, <2>1, SentStays DEF SettleInv
<1>6. NoticesAreTrue' /\ \A p \in Order : notified[p] \subseteq notified'[p]
  BY <1>1, <1>2, <1>3, <1>4, HandleNotices DEF SettleInv
<1>7. errors' = 0 => WorkIsDone'
  <2>1. Done(c, o, e)'
    BY <1>2, <1>3, HandleDoes
  <2>2. OneMoreAtMost(c, o, e)
    <3>1. e = NextMessage(c, o) /\ pos' = [pos EXCEPT ![c][o] = @ + 1] /\ UNCHANGED log
      BY <1>1, <1>2
    <3> QED
      BY <3>1, MovingOnByOne
  <2>3. \A d \in Consumer, p \in Order, f \in EventType :
          BeenThrough(d, p, f)' => BeenThrough(d, p, f) \/ Done(d, p, f)'
    BY <2>1, <2>2 DEF OneMoreAtMost
  <2> QED
    BY <1>2, <1>4, <1>6, <2>3, WorkStays DEF SettleInv
<1>8. ASSUME HandledOnce', NEW p \in Order
      PROVE  Books(p)'
  <2>1. HandledOnce
    BY <1>2, <1>8 DEF HandledOnce
  <2>2. /\ Story(o) /\ DrawnOnce(o) /\ Books(o) /\ Books(p)
        /\ ~BeenThrough(c, o, e)
    BY <1>1, <1>2, <2>1, FreshMessage DEF OnceInv, SettleInv
  <2>3. Books(o)' /\ ElsewhereAsBefore(o)
    BY <1>1, <1>2, <1>3, <2>2, HandleBooks
  <2>4. OnlyOf(o)
    BY <1>1, <1>2, <1>3, <2>2, HandleTells DEF Tells
  <2> QED
    BY <2>2, <2>3, <2>4, OtherBooks
<1> QED
  BY <1>5, <1>6, <1>7, <1>8 DEF SettleInv

\* A handler that fails does not do its work: from then on nothing is said.
LEMMA HandlerErrorSettles ==
  ASSUME IInv, SettleInv, NEW c \in Consumer, NEW o \in Order, HandlerError(c, o)
  PROVE  SettleInv'
<1>1. errors \in Nat /\ errors' = errors + 1 /\ UNCHANGED <<tables, notified, log, resets, dups>>
  BY BudgetAssumption DEF IInv, TypeOK, HandlerError
<1>2. errors' # 0
  BY <1>1
<1>3. MarkedIsSent' /\ NoticesAreTrue'
  BY <1>1 DEF SettleInv, MarkedIsSent, NoticesAreTrue, Recorded, tables
<1>4. HandledOnce' => \A p \in Order : Books(p)'
  BY <1>1 DEF SettleInv, HandledOnce, Books, Recorded, tables
<1> QED
  BY <1>2, <1>3, <1>4 DEF SettleInv

\* A consumer that falls back has been through fewer messages.
LEMMA RedeliverSettles ==
  ASSUME IInv, SettleInv, NEW c \in Consumer, NEW o \in Order, Redeliver(c, o)
  PROVE  SettleInv'
<1>1. /\ resets \in Nat /\ resets' = resets + 1
      /\ UNCHANGED <<tables, notified, log, dups, errors>>
  BY BudgetAssumption DEF IInv, TypeOK, Redeliver
<1>2. ~HandledOnce'
  BY <1>1 DEF HandledOnce
<1>3. UNCHANGED <<orders, reserved, notified, outbox>>
  BY <1>1 DEF tables
<1>4. MarkedIsSent'
  BY <1>1, <1>3 DEF SettleInv, MarkedIsSent
<1>5. /\ NoticesAreTrue' /\ StillRecorded
      /\ \A p \in Order : notified[p] \subseteq notified'[p]
  BY <1>3, QuietBooks DEF SettleInv
<1>6. ASSUME NEW d \in Consumer, NEW p \in Order, NEW f \in EventType,
             BeenThrough(d, p, f)'
      PROVE  BeenThrough(d, p, f)
  <2>1. /\ pos \in [Consumer -> [Order -> Nat]]
        /\ committed \in [Consumer -> [Order -> Nat]]
    BY DEF IInv, TypeOK
  <2>2. PICK k \in committed[c][o] .. (pos[c][o] - 1) : pos' = [pos EXCEPT ![c][o] = k]
    BY DEF Redeliver
  <2>3. pos'[d][p] \in Int /\ pos'[d][p] <= pos[d][p] /\ pos[d][p] \in Nat
    BY <2>1, <2>2
  <2>4. PICK i \in 1 .. pos'[d][p] : log[TopicOf(d)][p][i] = f
    BY <1>1, <1>6 DEF BeenThrough
  <2>5. i \in 1 .. pos[d][p]
    BY <2>3
  <2> QED
    BY <2>4, <2>5 DEF BeenThrough
<1>7. errors' = 0 => WorkIsDone'
  BY <1>1, <1>5, <1>6, WorkStays DEF SettleInv
<1> QED
  BY <1>2, <1>4, <1>5, <1>7 DEF SettleInv

LEMMA SettleStep ==
  ASSUME IInv, OnceInv, SettleInv, [Next]_vars
  PROVE  SettleInv'
<1>1. CASE UNCHANGED vars
  <2>1. UNCHANGED <<tables, notified, log, pos, resets, dups, errors>>
    BY <1>1 DEF vars, broker, faults
  <2>2. MarkedIsSent' /\ NoticesAreTrue'
    BY <2>1 DEF SettleInv, MarkedIsSent, NoticesAreTrue, Recorded, tables
  <2>3. errors' = 0 => WorkIsDone'
    BY <2>1 DEF SettleInv, WorkIsDone, BeenThrough, Done, Recorded, tables
  <2>4. HandledOnce' => \A p \in Order : Books(p)'
    BY <2>1 DEF SettleInv, HandledOnce, Books, Recorded, tables
  <2> QED
    BY <2>2, <2>3, <2>4 DEF SettleInv
<1> QED
  BY <1>1, CreateSettles, PublishSettles, DeliverSettles, HandlerErrorSettles,
     RedeliverSettles DEF Next

LEMMA SettleInit == Init => SettleInv
<1> SUFFICES ASSUME Init
             PROVE  SettleInv
  OBVIOUS
<1>1. MarkedIsSent /\ NoticesAreTrue
  BY DEF Init, TablesInit, NotificationInit, MarkedIsSent, NoticesAreTrue
<1>2. WorkIsDone
  BY DEF Init, WorkIsDone, BeenThrough
<1>3. \A o \in Order : Books(o)
  BY DEF Init, TablesInit, Books, Recorded, EventType
<1> QED
  BY <1>1, <1>2, <1>3 DEF SettleInv

-----------------------------------------------------------------------------
(* When the dust has settled                                               *)

\* Nothing is left to be published: what is recorded is in Kafka.  Nothing is
\* left to be handled: who listens has done its work on it.
LEMMA NewsIsHandled ==
  ASSUME IInv, SettleInv, errors = 0, NEW o \in Order, Quiescent(o),
         NEW e \in EventType, Recorded(o, e),
         NEW c \in Consumer, TopicOf(c) = TopicFor(e)
  PROVE  Done(c, o, e)
<1>1. outbox[o][e] = "published"
  BY DEF Quiescent, Recorded, IInv, TypeOK, TablesTypeOK
<1>2. PICK i \in 1 .. Len(log[TopicOf(c)][o]) : log[TopicOf(c)][o][i] = e
  BY <1>1 DEF SettleInv, MarkedIsSent
<1>3. TopicOf(c) \in Topic
  BY DEF Consumer, TopicOf, Topic
<1>4. log[TopicOf(c)][o] \in Seq(EventType)
  BY <1>3 DEF IInv, TypeOK
<1>5. Len(log[TopicOf(c)][o]) \in Nat /\ pos[c][o] \in Nat
  BY <1>4 DEF IInv, TypeOK
<1>6. i \in 1 .. pos[c][o]
  BY <1>2, <1>5 DEF Quiescent, HasNext
<1>7. BeenThrough(c, o, e)
  BY <1>2, <1>6 DEF BeenThrough
<1> QED
  BY <1>7 DEF SettleInv, WorkIsDone

\* Who listens to what.
LEMMA Listeners ==
  /\ {"inventory", "payment", "fulfillment", "orch-inventory", "orch-payment",
      "orch-fulfillment", "notification"} \subseteq Consumer
  /\ TopicOf("inventory") = TopicFor("order.created")
  /\ TopicOf("payment") = TopicFor("inventory.reserved")
  /\ TopicOf("fulfillment") = TopicFor("payment.processed")
  /\ TopicOf("orch-inventory") = TopicFor("inventory.reserve_failed")
  /\ TopicOf("orch-payment") = TopicFor("payment.failed")
  /\ TopicOf("orch-fulfillment") = TopicFor("fulfillment.failed")
  /\ TopicOf("orch-fulfillment") = TopicFor("fulfillment.shipped")
  /\ TopicOf("notification") = TopicFor("order.completed")
  /\ TopicOf("notification") = TopicFor("order.failed")
BY DEF Consumer, TopicOf, TopicFor

\* The end of an order that was accepted, when all of it is handled.
LEMMA DustSettles ==
  ASSUME IInv, OnceInv, SettleInv, errors = 0, HandledOnce,
         NEW o \in Order, Quiescent(o), orders[o] # "none"
  PROVE  \/ /\ orders[o] = "completed"
            /\ payments[o].status = "processed"
            /\ fulfillments[o] = "shipped"
            /\ reserved[o] = Lines[o]
            /\ notified[o] = {"success"}
         \/ /\ orders[o] = "failed"
            /\ payments[o].status \in {"none", "failed", "refunded"}
            /\ payments[o].status # "none" => reserved[o] = 0
            /\ fulfillments[o] \in {"none", "failed"}
            /\ notified[o] = {"failure"}
<1>1. TablesInv /\ Story(o) /\ Books(o)
  BY DEF IInv, TypeOK, TablesInv, OnceInv, SettleInv
<1>2. /\ "order.created" \in EventType /\ "inventory.reserved" \in EventType
      /\ "inventory.reserve_failed" \in EventType
      /\ "payment.processed" \in EventType /\ "payment.failed" \in EventType
      /\ "fulfillment.shipped" \in EventType /\ "fulfillment.failed" \in EventType
      /\ "order.completed" \in EventType /\ "order.failed" \in EventType
  BY DEF EventType
<1>3. /\ notified[o] \subseteq {"success", "failure"}
      /\ fulfillments[o] \in {"none", "shipped", "failed"}
      /\ "success" \in notified[o] => Recorded(o, "order.completed")
      /\ "failure" \in notified[o] => Recorded(o, "order.failed")
  BY DEF IInv, TypeOK, TablesTypeOK, NotificationTypeOK, SettleInv, NoticesAreTrue
<1>4. ASSUME Recorded(o, "order.completed")
      PROVE  orders[o] = "completed" /\ notified[o] = {"success"}
  <2>1. Done("notification", o, "order.completed")
    BY <1>2, <1>4, NewsIsHandled, Listeners
  <2>2. ~Recorded(o, "order.failed")
    BY <1>1, <1>4 DEF Books
  <2> QED
    BY <1>1, <1>3, <1>4, <2>1, <2>2 DEF Done, Books
<1>5. ASSUME Recorded(o, "order.failed")
      PROVE  orders[o] = "failed" /\ notified[o] = {"failure"}
  <2>1. Done("notification", o, "order.failed")
    BY <1>2, <1>5, NewsIsHandled, Listeners
  <2>2. ~Recorded(o, "order.completed")
    BY <1>1, <1>5 DEF Books
  <2> QED
    BY <1>1, <1>3, <1>5, <2>1, <2>2 DEF Done, Books
<1>6. Recorded(o, "inventory.reserved") \/ Recorded(o, "inventory.reserve_failed")
  <2>1. Recorded(o, "order.created")
    BY <1>1 DEF Story
  <2>2. Done("inventory", o, "order.created")
    BY <1>2, <2>1, NewsIsHandled, Listeners
  <2> QED
    BY <2>2 DEF Done
<1>7. CASE Recorded(o, "inventory.reserve_failed")
  <2>1. Done("orch-inventory", o, "inventory.reserve_failed")
    BY <1>2, <1>7, NewsIsHandled, Listeners
  <2>2. Recorded(o, "order.failed")
    BY <2>1 DEF Done
  <2>3. payments[o].status = "none" /\ fulfillments[o] = "none"
    BY <1>1, <1>3, <1>7, PastOf DEF Story
  <2> QED
    BY <1>5, <2>2, <2>3
<1>8. CASE Recorded(o, "inventory.reserved")
  <2>1. Recorded(o, "payment.processed") \/ Recorded(o, "payment.failed")
    <3>1. Done("payment", o, "inventory.reserved")
      BY <1>2, <1>8, NewsIsHandled, Listeners
    <3> QED
      BY <3>1 DEF Done
  <2>2. CASE Recorded(o, "payment.failed")
    <3>1. Done("orch-payment", o, "payment.failed")
      BY <1>2, <2>2, NewsIsHandled, Listeners
    <3>2. Recorded(o, "order.failed") /\ Recorded(o, "inventory.released")
      BY <3>1 DEF Done
    <3>3. payments[o].status = "failed" /\ fulfillments[o] = "none"
      BY <1>1, <1>3, <2>2, PastOf DEF Story
    <3>4. reserved[o] = 0
      BY <1>1, <3>2 DEF Books
    <3> QED
      BY <1>5, <3>2, <3>3, <3>4
  <2>3. CASE Recorded(o, "payment.processed")
    <3>1. Recorded(o, "fulfillment.shipped") \/ Recorded(o, "fulfillment.failed")
      <4>1. Done("fulfillment", o, "payment.processed")
        BY <1>2, <2>3, NewsIsHandled, Listeners
      <4> QED
        BY <4>1 DEF Done
    <3>2. CASE Recorded(o, "fulfillment.shipped")
      <4>1. Done("orch-fulfillment", o, "fulfillment.shipped")
        BY <1>2, <3>2, NewsIsHandled, Listeners
      <4>2. Recorded(o, "order.completed")
        BY <4>1 DEF Done
      <4>3. fulfillments[o] = "shipped" /\ ~Recorded(o, "fulfillment.failed")
        BY <1>1, <3>2 DEF Story
      <4>4. payments[o].status = "processed"
        BY <1>1, <2>3, <4>3, PastOf
      <4>5. reserved[o] = Lines[o]
        BY <1>1, <1>8, <2>3, <4>3, EndingsHaveCauses, PastOf DEF Books
      <4> QED
        BY <1>4, <4>2, <4>3, <4>4, <4>5
    <3>3. CASE Recorded(o, "fulfillment.failed")
      <4>1. Done("orch-fulfillment", o, "fulfillment.failed")
        BY <1>2, <3>3, NewsIsHandled, Listeners
      <4>2. /\ Recorded(o, "order.failed") /\ Recorded(o, "inventory.released")
            /\ Recorded(o, "payment.refunded")
        BY <4>1 DEF Done
      <4>3. fulfillments[o] = "failed" /\ payments[o].status = "refunded"
        BY <1>1, <3>3, <4>2, PastOf DEF Story
      <4>4. reserved[o] = 0
        BY <1>1, <4>2 DEF Books
      <4> QED
        BY <1>5, <4>2, <4>3, <4>4
    <3> QED
      BY <3>1, <3>2, <3>3
  <2> QED
    BY <2>1, <2>2, <2>3
<1> QED
  BY <1>6, <1>7, <1>8

\* While no message is handled twice and no handler has failed, the tables of
\* all services agree as soon as nothing is left to be published or handled:
\* the order is completed, paid, shipped and its stock held, or failed and
\* neither paid nor shipped, and the customer was told that and nothing else.
THEOREM SettlementsAgree == Spec => []SettlementAgrees
<1>1. IInv /\ OnceInv /\ SettleInv => SettlementAgrees
  BY DustSettles DEF SettlementAgrees
<1>2. Init => SettleInv
  BY SettleInit
<1>3. IInv /\ OnceInv /\ SettleInv /\ [Next]_vars => SettleInv'
  BY SettleStep
<1> QED
  BY <1>1, <1>2, <1>3, OneStory, InvariantHolds, PTL DEF Spec

-----------------------------------------------------------------------------
(* What a failed order leaves behind                                       *)

\* However many handlers fail, the stock an order holds is what its own story
\* says: a completed order holds all of its lines; a failed one holds none,
\* unless it failed for want of stock, and then it keeps less than all: the
\* rows reserveInventory committed together with inventory.reserve_failed,
\* which failSaga does not give back.
StockFollowsStory ==
  HandledOnce =>
    \A o \in Order :
      /\ reserved[o] <= Lines[o]
      /\ orders[o] = "completed" => reserved[o] = Lines[o]
      /\ orders[o] = "failed" =>
           \/ reserved[o] = 0
           \/ /\ Recorded(o, "inventory.reserve_failed")
              /\ reserved[o] < Lines[o]

\* The early exit of reserveInventory is the only leak of stock: every other
\* way an order can fail leaves nothing reserved.
THEOREM OnlyShortOrdersKeepStock == Spec => []StockFollowsStory
<1>1. ASSUME IInv, OnceInv, SettleInv, HandledOnce, NEW o \in Order
      PROVE  /\ reserved[o] <= Lines[o]
             /\ orders[o] = "completed" => reserved[o] = Lines[o]
             /\ orders[o] = "failed" =>
                  \/ reserved[o] = 0
                  \/ /\ Recorded(o, "inventory.reserve_failed")
                     /\ reserved[o] < Lines[o]
  <2>1. Books(o) /\ Story(o)
    BY <1>1 DEF SettleInv, OnceInv
  <2>2. TablesInv
    BY <1>1 DEF IInv, TypeOK, TablesInv
  <2>3. reserved[o] \in Nat /\ Lines[o] \in Nat
    BY <2>2, CartAssumption DEF TablesInv, TablesTypeOK
  <2>4. reserved[o] <= Lines[o]
    BY <2>1, <2>3 DEF Books
  <2>5. ASSUME orders[o] = "completed"
        PROVE  reserved[o] = Lines[o]
    <3>1. Recorded(o, "inventory.reserved") /\ ~Recorded(o, "inventory.released")
      BY <2>1, <2>2, <2>5, PastOf, EndingsHaveCauses DEF Story
    <3> QED
      BY <2>1, <3>1 DEF Books
  <2> QED
    BY <2>1, <2>4, <2>5 DEF Books
<1>2. IInv /\ OnceInv /\ SettleInv => StockFollowsStory
  BY <1>1 DEF StockFollowsStory
<1>3. Init => SettleInv
  BY SettleInit
<1>4. IInv /\ OnceInv /\ SettleInv /\ [Next]_vars => SettleInv'
  BY SettleStep
<1> QED
  BY <1>2, <1>3, <1>4, OneStory, InvariantHolds, PTL DEF Spec

=============================================================================
