----------------------------- MODULE SagaProofs -----------------------------
(***************************************************************************)
(* Safety of Saga for every set of orders and every number of faults.      *)
(*                                                                         *)
(* The inductive invariant speaks of the tables (TablesInv) and of Kafka   *)
(* (MessagesAreRecorded).  The handlers look at nothing but the message    *)
(* they are given, so what makes them right is that the message tells of   *)
(* something that happened, and that it happened in the order of the saga. *)
(***************************************************************************)
EXTENDS SagaProperties, TLAPS

\* The part of the invariant that the handlers alone must keep.
TablesInv == TablesTypeOK /\ Causality /\ PaymentsMatchEvents

\* The inductive invariant.
IInv == TypeOK /\ MessagesAreRecorded /\ Causality /\ PaymentsMatchEvents

\* No event is ever taken off the record.
StillRecorded ==
  \A p \in Order, f \in EventType :
    outbox[p][f] # "absent" => outbox'[p][f] # "absent"

-----------------------------------------------------------------------------
(* The outbox                                                              *)

\* AppendOutbox records the events it is given and forgets none.
LEMMA AppendOutboxRecords ==
  ASSUME TablesTypeOK, NEW o \in Order, NEW E, AppendOutbox(o, E)
  PROVE  /\ outbox' \in [Order -> [EventType -> {"absent", "pending", "published"}]]
         /\ \A p \in Order, f \in EventType :
              outbox'[p][f] # "absent" <=>
                outbox[p][f] # "absent" \/ (p = o /\ f \in E)
<1>1. outbox \in [Order -> [EventType -> {"absent", "pending", "published"}]]
  BY DEF TablesTypeOK
<1>2. DEFINE row == [f \in EventType |-> IF f \in E /\ outbox[o][f] = "absent"
                                         THEN "pending" ELSE outbox[o][f]]
<1>3. outbox' = [outbox EXCEPT ![o] = row]
  BY DEF AppendOutbox
<1>4. row \in [EventType -> {"absent", "pending", "published"}]
  BY <1>1
<1>5. \A f \in EventType :
        row[f] # "absent" <=> outbox[o][f] # "absent" \/ f \in E
  OBVIOUS
<1> HIDE DEF row
<1> QED
  BY <1>1, <1>3, <1>4, <1>5

\* Which events are causes, spelled out.
LEMMA CausesAre ==
  /\ Causes("order.created") = {"order.created"}
  /\ Causes("inventory.reserved") = {"order.created"}
  /\ Causes("inventory.reserve_failed") = {"order.created"}
  /\ Causes("payment.processed") = {"inventory.reserved"}
  /\ Causes("payment.failed") = {"inventory.reserved"}
  /\ Causes("fulfillment.shipped") = {"payment.processed"}
  /\ Causes("fulfillment.failed") = {"payment.processed"}
  /\ Causes("payment.refunded") = {"fulfillment.failed"}
  /\ Causes("inventory.released") = {"payment.failed", "fulfillment.failed"}
  /\ Causes("order.completed") = {"fulfillment.shipped"}
  /\ Causes("order.failed") =
       {"inventory.reserve_failed", "payment.failed", "fulfillment.failed"}
BY DEF Causes

\* Recording events whose causes are recorded keeps Causality.
LEMMA AppendKeepsCausality ==
  ASSUME TablesTypeOK, Causality, NEW o \in Order, NEW E \in SUBSET EventType,
         AppendOutbox(o, E),
         \A f \in E : \E c \in Causes(f) :
            outbox[o][c] # "absent" \/ c \in E
  PROVE  Causality' /\ StillRecorded
<1>1. \A f \in EventType : Causes(f) \in SUBSET EventType
  BY DEF Causes, EventType
<1>2. \A p \in Order, f \in EventType :
        outbox'[p][f] # "absent" <=>
          outbox[p][f] # "absent" \/ (p = o /\ f \in E)
  BY AppendOutboxRecords
<1>3. ASSUME NEW p \in Order, NEW f \in EventType, outbox'[p][f] # "absent"
      PROVE  \E c \in Causes(f) : outbox'[p][c] # "absent"
  <2>1. CASE outbox[p][f] # "absent"
    <3>1. PICK c \in Causes(f) : outbox[p][c] # "absent"
      BY <2>1 DEF Causality, Recorded
    <3> QED
      BY <3>1, <1>1, <1>2
  <2>2. CASE p = o /\ f \in E
    <3>1. PICK c \in Causes(f) : outbox[o][c] # "absent" \/ c \in E
      BY <2>2
    <3> QED
      BY <3>1, <2>2, <1>1, <1>2
  <2> QED
    BY <2>1, <2>2, <1>2, <1>3
<1> QED
  BY <1>2, <1>3 DEF Causality, Recorded, StillRecorded

-----------------------------------------------------------------------------
(* The handlers: each keeps TablesInv when the event it reacts to is       *)
(* recorded.                                                               *)

\* A client's request.
LEMMA CreateOrderKeeps ==
  ASSUME TablesInv, NEW o \in Order, CreateOrder(o)
  PROVE  TablesInv' /\ StillRecorded
<1> USE DEF TablesInv
<1>1. AppendOutbox(o, {"order.created"})
  BY DEF CreateOrder
<1>2. {"order.created"} \in SUBSET EventType
  BY DEF EventType
<1>3. Causality' /\ StillRecorded
  BY <1>1, <1>2, CausesAre, AppendKeepsCausality
<1>4. /\ outbox' \in [Order -> [EventType -> {"absent", "pending", "published"}]]
      /\ \A p \in Order, f \in EventType :
           outbox'[p][f] # "absent" <=>
             outbox[p][f] # "absent" \/ (p = o /\ f \in {"order.created"})
  BY <1>1, AppendOutboxRecords
<1>5. TablesTypeOK'
  BY <1>4 DEF CreateOrder, TablesTypeOK, SagaStatus, Step
<1>6. PaymentsMatchEvents'
  BY <1>4 DEF CreateOrder, PaymentsMatchEvents, Recorded, EventType
<1> QED
  BY <1>3, <1>5, <1>6

\* The inventory service.
LEMMA ReserveInventoryKeeps ==
  ASSUME TablesInv, NEW o \in Order, Recorded(o, "order.created"),
         ReserveInventory(o)
  PROVE  TablesInv' /\ StillRecorded
<1> USE DEF TablesInv
<1>1. PICK n \in 0 .. Lines[o] :
        /\ reserved' = [reserved EXCEPT ![o] = @ + n]
        /\ AppendOutbox(o, {IF n = Lines[o] THEN "inventory.reserved"
                                            ELSE "inventory.reserve_failed"})
        /\ UNCHANGED <<orders, sagas, payments, fulfillments>>
  BY DEF ReserveInventory
<1>2. PICK f \in {"inventory.reserved", "inventory.reserve_failed"} :
        AppendOutbox(o, {f})
  BY <1>1
<1>3. {f} \in SUBSET EventType
  BY DEF EventType
<1>4. Causality' /\ StillRecorded
  BY <1>2, <1>3, CausesAre, AppendKeepsCausality DEF Recorded
<1>5. /\ outbox' \in [Order -> [EventType -> {"absent", "pending", "published"}]]
      /\ \A p \in Order, g \in EventType :
           outbox'[p][g] # "absent" <=>
             outbox[p][g] # "absent" \/ (p = o /\ g \in {f})
  BY <1>2, AppendOutboxRecords
<1>6. TablesTypeOK'
  <2>1. reserved \in [Order -> Nat] /\ Lines[o] \in Nat
    BY CartAssumption DEF TablesTypeOK
  <2>2. reserved' \in [Order -> Nat]
    BY <1>1, <2>1
  <2> QED
    BY <1>1, <1>5, <2>2 DEF TablesTypeOK
<1>7. PaymentsMatchEvents'
  BY <1>1, <1>2, <1>5 DEF PaymentsMatchEvents, Recorded, EventType
<1> QED
  BY <1>4, <1>6, <1>7

\* The payment service: the guard on the payments row is what keeps an order
\* from being both charged and declined.
LEMMA ProcessPaymentKeeps ==
  ASSUME TablesInv, NEW o \in Order, Recorded(o, "inventory.reserved"),
         ProcessPayment(o)
  PROVE  TablesInv' /\ StillRecorded
<1> USE DEF TablesInv
<1>1. CASE UNCHANGED tables
  BY <1>1 DEF tables, TablesTypeOK, Causality, PaymentsMatchEvents, Recorded,
              StillRecorded
<1>2. CASE /\ payments[o].status = "none"
           /\ \E outcome \in {"processed", "failed"} :
                /\ payments' = [payments EXCEPT ![o] =
                                  [status |-> outcome, amount |-> ChargedAmount(o)]]
                /\ AppendOutbox(o, {IF outcome = "processed"
                                    THEN "payment.processed" ELSE "payment.failed"})
                /\ UNCHANGED <<orders, sagas, reserved, fulfillments>>
  <2>1. PICK outcome \in {"processed", "failed"} :
          /\ payments' = [payments EXCEPT ![o] =
                            [status |-> outcome, amount |-> ChargedAmount(o)]]
          /\ AppendOutbox(o, {IF outcome = "processed"
                              THEN "payment.processed" ELSE "payment.failed"})
          /\ UNCHANGED <<orders, sagas, reserved, fulfillments>>
    BY <1>2
  <2> DEFINE f == IF outcome = "processed" THEN "payment.processed"
                                           ELSE "payment.failed"
  <2>2. f \in {"payment.processed", "payment.failed"} /\ {f} \in SUBSET EventType
    BY DEF EventType
  <2>3. AppendOutbox(o, {f})
    BY <2>1
  <2>4. Causality' /\ StillRecorded
    BY <2>2, <2>3, CausesAre, AppendKeepsCausality DEF Recorded
  <2>5. /\ outbox' \in [Order -> [EventType -> {"absent", "pending", "published"}]]
        /\ \A p \in Order, g \in EventType :
             outbox'[p][g] # "absent" <=>
               outbox[p][g] # "absent" \/ (p = o /\ g \in {f})
    BY <2>3, AppendOutboxRecords
  <2>6. ChargedAmount(o) \in Nat
    BY CartAssumption DEF ChargedAmount
  <2>7. TablesTypeOK'
    BY <2>1, <2>5, <2>6 DEF TablesTypeOK
  <2>8. PaymentsMatchEvents'
    BY <1>2, <2>1, <2>5 DEF PaymentsMatchEvents, Recorded, EventType, TablesTypeOK
  <2> QED
    BY <2>4, <2>7, <2>8
<1> QED
  BY <1>1, <1>2 DEF ProcessPayment

\* The fulfillment service.
LEMMA StartFulfillmentKeeps ==
  ASSUME TablesInv, NEW o \in Order, Recorded(o, "payment.processed"),
         StartFulfillment(o)
  PROVE  TablesInv' /\ StillRecorded
<1> USE DEF TablesInv
<1>1. PICK outcome \in {"shipped", "failed"} :
        /\ fulfillments' = [fulfillments EXCEPT ![o] = outcome]
        /\ AppendOutbox(o, {IF outcome = "shipped" THEN "fulfillment.shipped"
                                                   ELSE "fulfillment.failed"})
        /\ UNCHANGED <<orders, sagas, reserved, payments>>
  BY DEF StartFulfillment
<1>2. PICK f \in {"fulfillment.shipped", "fulfillment.failed"} :
        AppendOutbox(o, {f})
  BY <1>1
<1>3. {f} \in SUBSET EventType
  BY DEF EventType
<1>4. Causality' /\ StillRecorded
  BY <1>2, <1>3, CausesAre, AppendKeepsCausality DEF Recorded
<1>5. /\ outbox' \in [Order -> [EventType -> {"absent", "pending", "published"}]]
      /\ \A p \in Order, g \in EventType :
           outbox'[p][g] # "absent" <=>
             outbox[p][g] # "absent" \/ (p = o /\ g \in {f})
  BY <1>2, AppendOutboxRecords
<1>6. TablesTypeOK'
  BY <1>1, <1>5 DEF TablesTypeOK
<1>7. PaymentsMatchEvents'
  BY <1>1, <1>2, <1>5 DEF PaymentsMatchEvents, Recorded, EventType
<1> QED
  BY <1>4, <1>6, <1>7

\* The orchestrator, without a compensation.
LEMMA AdvanceStepKeeps ==
  ASSUME TablesInv, NEW o \in Order, NEW step \in Step, AdvanceStep(o, step)
  PROVE  TablesInv' /\ StillRecorded
<1> USE DEF TablesInv
<1>1. TablesTypeOK'
  BY DEF AdvanceStep, TablesTypeOK, SagaStatus
<1> QED
  BY <1>1 DEF AdvanceStep, Causality, PaymentsMatchEvents, Recorded, StillRecorded

LEMMA FailSagaKeeps ==
  ASSUME TablesInv, NEW o \in Order, Recorded(o, "inventory.reserve_failed"),
         FailSaga(o)
  PROVE  TablesInv' /\ StillRecorded
<1> USE DEF TablesInv
<1>1. AppendOutbox(o, {"order.failed"})
  BY DEF FailSaga
<1>2. {"order.failed"} \in SUBSET EventType
  BY DEF EventType
<1>3. Causality' /\ StillRecorded
  BY <1>1, <1>2, CausesAre, AppendKeepsCausality DEF Recorded
<1>4. /\ outbox' \in [Order -> [EventType -> {"absent", "pending", "published"}]]
      /\ \A p \in Order, f \in EventType :
           outbox'[p][f] # "absent" <=>
             outbox[p][f] # "absent" \/ (p = o /\ f \in {"order.failed"})
  BY <1>1, AppendOutboxRecords
<1>5. TablesTypeOK'
  BY <1>4 DEF FailSaga, TablesTypeOK, SagaStatus, Step
<1>6. PaymentsMatchEvents'
  BY <1>4 DEF FailSaga, PaymentsMatchEvents, Recorded, EventType
<1> QED
  BY <1>3, <1>5, <1>6

LEMMA CompleteSagaKeeps ==
  ASSUME TablesInv, NEW o \in Order, Recorded(o, "fulfillment.shipped"),
         CompleteSaga(o)
  PROVE  TablesInv' /\ StillRecorded
<1> USE DEF TablesInv
<1>1. AppendOutbox(o, {"order.completed"})
  BY DEF CompleteSaga
<1>2. {"order.completed"} \in SUBSET EventType
  BY DEF EventType
<1>3. Causality' /\ StillRecorded
  BY <1>1, <1>2, CausesAre, AppendKeepsCausality DEF Recorded
<1>4. /\ outbox' \in [Order -> [EventType -> {"absent", "pending", "published"}]]
      /\ \A p \in Order, f \in EventType :
           outbox'[p][f] # "absent" <=>
             outbox[p][f] # "absent" \/ (p = o /\ f \in {"order.completed"})
  BY <1>1, AppendOutboxRecords
<1>5. TablesTypeOK'
  BY <1>4 DEF CompleteSaga, TablesTypeOK, SagaStatus, Step
<1>6. PaymentsMatchEvents'
  BY <1>4 DEF CompleteSaga, PaymentsMatchEvents, Recorded, EventType
<1> QED
  BY <1>3, <1>5, <1>6

\* The orchestrator's compensations.
LEMMA CompensatePaymentFailedKeeps ==
  ASSUME TablesInv, NEW o \in Order, Recorded(o, "payment.failed"),
         CompensatePaymentFailed(o)
  PROVE  TablesInv' /\ StillRecorded
<1> USE DEF TablesInv
<1> DEFINE E == {"inventory.released", "order.failed"}
<1>1. AppendOutbox(o, E)
  BY DEF CompensatePaymentFailed
<1>2. E \in SUBSET EventType
  BY DEF EventType
<1>3. \A f \in E : "payment.failed" \in Causes(f)
  BY CausesAre
<1>4. \A f \in E : \E c \in Causes(f) : outbox[o][c] # "absent" \/ c \in E
  BY <1>3 DEF Recorded
<1>5. Causality' /\ StillRecorded
  <2> HIDE DEF E
  <2> QED
    BY <1>1, <1>2, <1>4, AppendKeepsCausality
<1>6. /\ outbox' \in [Order -> [EventType -> {"absent", "pending", "published"}]]
      /\ \A p \in Order, f \in EventType :
           outbox'[p][f] # "absent" <=>
             outbox[p][f] # "absent" \/ (p = o /\ f \in E)
  BY <1>1, AppendOutboxRecords
<1>7. TablesTypeOK'
  BY <1>6 DEF CompensatePaymentFailed, ReleaseInventory, TablesTypeOK,
              SagaStatus, Step
<1>8. PaymentsMatchEvents'
  BY <1>6 DEF CompensatePaymentFailed, PaymentsMatchEvents, Recorded, EventType
<1> QED
  BY <1>5, <1>7, <1>8

\* The refund looks at nothing, but it can only hit a payment that went
\* through: shipping has failed, so by Causality the order was charged.
LEMMA CompensateFulfillmentFailedKeeps ==
  ASSUME TablesInv, NEW o \in Order, Recorded(o, "fulfillment.failed"),
         CompensateFulfillmentFailed(o)
  PROVE  TablesInv' /\ StillRecorded
<1> USE DEF TablesInv
<1> DEFINE E == {"payment.refunded", "inventory.released", "order.failed"}
<1>1. AppendOutbox(o, E)
  BY DEF CompensateFulfillmentFailed
<1>2. E \in SUBSET EventType
  BY DEF EventType
<1>3. \A f \in E : "fulfillment.failed" \in Causes(f)
  BY CausesAre
<1>4. \A f \in E : \E c \in Causes(f) : outbox[o][c] # "absent" \/ c \in E
  BY <1>3 DEF Recorded
<1>5. Causality' /\ StillRecorded
  <2> HIDE DEF E
  <2> QED
    BY <1>1, <1>2, <1>4, AppendKeepsCausality
<1>6. /\ outbox' \in [Order -> [EventType -> {"absent", "pending", "published"}]]
      /\ \A p \in Order, f \in EventType :
           outbox'[p][f] # "absent" <=>
             outbox[p][f] # "absent" \/ (p = o /\ f \in E)
  BY <1>1, AppendOutboxRecords
<1>7. payments[o].status \in {"processed", "refunded"}
  <2>1. Recorded(o, "payment.processed")
    BY CausesAre DEF Causality, EventType
  <2> QED
    BY <2>1 DEF PaymentsMatchEvents, TablesTypeOK
<1>8. payments' = [payments EXCEPT ![o].status = "refunded"]
  BY <1>7 DEF CompensateFulfillmentFailed, RefundPayment
<1>9. TablesTypeOK'
  <2>1. payments' \in [Order -> [status : {"none", "processed", "failed", "refunded"},
                                amount : Nat]]
    BY <1>8 DEF TablesTypeOK
  <2>2. reserved' \in [Order -> Nat]
    BY DEF CompensateFulfillmentFailed, ReleaseInventory, TablesTypeOK
  <2>3. sagas' \in [Order -> [status : SagaStatus \cup {"none"}, step : Step]]
    BY DEF CompensateFulfillmentFailed, TablesTypeOK, SagaStatus, Step
  <2>4. orders' \in [Order -> {"none", "pending", "completed", "failed"}]
    BY DEF CompensateFulfillmentFailed, TablesTypeOK
  <2>5. fulfillments' \in [Order -> {"none", "shipped", "failed"}]
    BY DEF CompensateFulfillmentFailed, TablesTypeOK
  <2> QED
    BY <1>6, <2>1, <2>2, <2>3, <2>4, <2>5 DEF TablesTypeOK
<1>10. PaymentsMatchEvents'
  BY <1>6, <1>7, <1>8
     DEF PaymentsMatchEvents, Recorded, EventType, TablesTypeOK
<1> QED
  BY <1>5, <1>9, <1>10

-----------------------------------------------------------------------------
(* The steps of Saga                                                       *)

\* Whatever consumer it is handed to, a message of the record keeps
\* TablesInv.
LEMMA HandleKeeps ==
  ASSUME TablesInv, NotificationTypeOK, NEW c \in Consumer, NEW o \in Order,
         NEW e \in EventType, Recorded(o, e), Handle(c, o, e)
  PROVE  TablesInv' /\ StillRecorded /\ NotificationTypeOK'
<1>1. ASSUME UNCHANGED tables
      PROVE  TablesInv' /\ StillRecorded
  BY <1>1 DEF tables, TablesInv, TablesTypeOK, Causality, PaymentsMatchEvents,
              Recorded, StillRecorded
<1>2. ASSUME UNCHANGED notified
      PROVE  NotificationTypeOK'
  BY <1>2 DEF NotificationTypeOK
<1>3. CASE InventoryHandler(o, e) /\ UNCHANGED notified
  BY <1>1, <1>2, <1>3, ReserveInventoryKeeps
     DEF InventoryHandler, InventoryTriggers
<1>4. CASE PaymentHandler(o, e) /\ UNCHANGED notified
  BY <1>1, <1>2, <1>4, ProcessPaymentKeeps DEF PaymentHandler, PaymentTriggers
<1>5. CASE FulfillmentHandler(o, e) /\ UNCHANGED notified
  BY <1>1, <1>2, <1>5, StartFulfillmentKeeps
     DEF FulfillmentHandler, FulfillmentTriggers
<1>6. CASE OrchestratorHandler(o, e) /\ UNCHANGED notified
  <2>1. "process_payment" \in Step /\ "fulfill_order" \in Step
    BY DEF Step
  <2> QED
    BY <1>2, <1>6, <2>1, AdvanceStepKeeps, FailSagaKeeps, CompleteSagaKeeps,
       CompensatePaymentFailedKeeps, CompensateFulfillmentFailedKeeps
       DEF OrchestratorHandler
<1>7. CASE NotificationHandler(o, e) /\ UNCHANGED tables
  <2>1. NotificationTypeOK'
    BY <1>7 DEF NotificationHandler, NotificationTypeOK
  <2> QED
    BY <1>1, <1>7, <2>1
<1> QED
  BY <1>3, <1>4, <1>5, <1>6, <1>7 DEF Handle

\* What Kafka holds stays recorded when the log stays as it is.
LEMMA LogStaysRecorded ==
  ASSUME TypeOK, MessagesAreRecorded, StillRecorded, UNCHANGED log
  PROVE  MessagesAreRecorded'
<1>1. \A t \in Topic, p \in Order : \A i \in 1 .. Len(log[t][p]) :
        log[t][p][i] \in EventType
  BY DEF TypeOK
<1> QED
  BY <1>1 DEF MessagesAreRecorded, StillRecorded, Recorded

\* A message that is appended is the last one; the others keep their place.
LEMMA AppendFacts ==
  ASSUME NEW S, NEW s \in Seq(S), NEW x \in S
  PROVE  /\ Append(s, x) \in Seq(S)
         /\ Len(Append(s, x)) = Len(s) + 1
         /\ Append(s, x)[Len(s) + 1] = x
         /\ \A i \in 1 .. Len(s) : Append(s, x)[i] = s[i] /\ s[i] \in S
         /\ Len(s) \in Nat
OBVIOUS

\* Publishing an event that has a row.
LEMMA SendKeeps ==
  ASSUME TypeOK, MessagesAreRecorded, StillRecorded,
         NEW o \in Order, NEW e \in EventType, outbox[o][e] # "absent",
         Send(o, e)
  PROVE  /\ log' \in [Topic -> [Order -> Seq(EventType)]]
         /\ \A t \in Topic, p \in Order : Len(log[t][p]) <= Len(log'[t][p])
         /\ MessagesAreRecorded'
<1> DEFINE T == TopicFor(e)
<1>1. T \in Topic
  BY DEF TopicFor, Topic
<1>2. log \in [Topic -> [Order -> Seq(EventType)]]
  BY DEF TypeOK
<1>3. log' = [log EXCEPT ![T][o] = Append(@, e)]
  BY DEF Send
<1> HIDE DEF T
<1>4. ASSUME NEW t \in Topic, NEW p \in Order
      PROVE  \/ t = T /\ p = o /\ log'[t][p] = Append(log[t][p], e)
             \/ ~(t = T /\ p = o) /\ log'[t][p] = log[t][p]
  BY <1>1, <1>2, <1>3
<1>5. \A t \in Topic, p \in Order : log[t][p] \in Seq(EventType)
  BY <1>2
<1>6. log' \in [Topic -> [Order -> Seq(EventType)]]
  BY <1>1, <1>2, <1>3
<1>7. ASSUME NEW t \in Topic, NEW p \in Order
      PROVE  Len(log[t][p]) <= Len(log'[t][p])
  <2>1. Len(log[t][p]) \in Nat /\ Len(Append(log[t][p], e)) = Len(log[t][p]) + 1
    BY <1>5, AppendFacts
  <2>2. Len(log'[t][p]) \in {Len(log[t][p]), Len(log[t][p]) + 1}
    BY <1>4, <2>1
  <2> QED
    BY <2>1, <2>2
<1>8. ASSUME NEW t \in Topic, NEW p \in Order, NEW i \in 1 .. Len(log'[t][p])
      PROVE  outbox'[p][log'[t][p][i]] # "absent"
  <2> DEFINE s == log[t][p]
  <2>1. /\ Len(s) \in Nat
        /\ Len(Append(s, e)) = Len(s) + 1
        /\ Append(s, e)[Len(s) + 1] = e
        /\ \A k \in 1 .. Len(s) : Append(s, e)[k] = s[k] /\ s[k] \in EventType
    BY <1>5, AppendFacts
  <2>2. \A k \in 1 .. Len(s) : outbox'[p][s[k]] # "absent"
    BY <2>1 DEF MessagesAreRecorded, Recorded, StillRecorded
  <2>3. CASE t = T /\ p = o /\ log'[t][p] = Append(s, e)
    <3>1. i \in 1 .. Len(s) \/ i = Len(s) + 1
      <4>1. i \in 1 .. Len(s) + 1
        BY <2>1, <2>3
      <4> QED
        BY <2>1, <4>1
    <3>2. outbox'[o][e] # "absent"
      BY DEF StillRecorded
    <3>3. CASE i \in 1 .. Len(s)
      <4>1. log'[t][p][i] = s[i]
        BY <2>1, <2>3, <3>3
      <4> QED
        BY <2>2, <3>3, <4>1
    <3>4. CASE i = Len(s) + 1
      <4>1. log'[t][p][i] = e
        BY <2>1, <2>3, <3>4
      <4> QED
        BY <2>3, <3>2, <4>1
    <3> QED
      BY <3>1, <3>3, <3>4
  <2>4. CASE log'[t][p] = s
    BY <2>2, <2>4
  <2> QED
    BY <1>4, <2>3, <2>4
<1> QED
  BY <1>6, <1>7, <1>8 DEF MessagesAreRecorded, Recorded

LEMMA CreateKeeps ==
  ASSUME IInv, NEW o \in Order, Create(o)
  PROVE  IInv'
<1>1. TablesInv' /\ StillRecorded
  BY CreateOrderKeeps DEF IInv, TypeOK, TablesInv, Create
<1>2. MessagesAreRecorded'
  BY <1>1, LogStaysRecorded DEF IInv, Create, broker
<1>3. TypeOK'
  BY <1>1 DEF IInv, TypeOK, TablesInv, NotificationTypeOK, Create, broker, faults
<1> QED
  BY <1>1, <1>2, <1>3 DEF IInv, TablesInv

LEMMA PublishKeeps ==
  ASSUME IInv, NEW o \in Order, NEW e \in EventType, Publish(o, e)
  PROVE  IInv'
<1> USE DEF IInv
<1>1. outbox \in [Order -> [EventType -> {"absent", "pending", "published"}]]
  BY DEF TypeOK, TablesTypeOK
<1>2. outbox' = [outbox EXCEPT ![o][e] = "published"] /\ outbox[o][e] = "pending"
  BY DEF Publish
<1>3. /\ outbox' \in [Order -> [EventType -> {"absent", "pending", "published"}]]
      /\ \A p \in Order, f \in EventType :
           outbox'[p][f] # "absent" <=> outbox[p][f] # "absent"
  BY <1>1, <1>2
<1>4. StillRecorded
  BY <1>3 DEF StillRecorded
<1>5. /\ log' \in [Topic -> [Order -> Seq(EventType)]]
      /\ \A t \in Topic, p \in Order : Len(log[t][p]) <= Len(log'[t][p])
      /\ MessagesAreRecorded'
  BY <1>2, <1>4, SendKeeps DEF Publish
<1>6. TablesTypeOK'
  BY <1>3 DEF TypeOK, TablesTypeOK, Publish
<1>7. \A c \in Consumer : TopicOf(c) \in Topic
  BY DEF Consumer, TopicOf, Topic
<1>8. TypeOK'
  <2>1. UNCHANGED <<pos, committed, notified, resets, dups, errors>>
    BY DEF Publish, faults
  <2>2. ASSUME NEW c \in Consumer, NEW p \in Order
        PROVE  committed[c][p] <= pos[c][p] /\ pos[c][p] <= Len(log'[TopicOf(c)][p])
    <3>1. TopicOf(c) \in Topic
      BY <1>7
    <3>2. Len(log[TopicOf(c)][p]) <= Len(log'[TopicOf(c)][p])
      BY <1>5, <3>1
    <3>3. log[TopicOf(c)][p] \in Seq(EventType) /\ log'[TopicOf(c)][p] \in Seq(EventType)
      BY <1>5, <3>1 DEF TypeOK
    <3> QED
      BY <3>2, <3>3 DEF TypeOK
  <2> QED
    BY <1>5, <1>6, <2>1, <2>2 DEF TypeOK, NotificationTypeOK
<1>9. Causality'
  <2>1. \A f \in EventType : Causes(f) \in SUBSET EventType
    BY DEF Causes, EventType
  <2> QED
    BY <1>3, <2>1 DEF Causality, Recorded
<1>10. PaymentsMatchEvents'
  <2>1. UNCHANGED payments
    BY DEF Publish
  <2> QED
    BY <1>3, <2>1 DEF PaymentsMatchEvents, Recorded, EventType
<1> QED
  BY <1>5, <1>8, <1>9, <1>10

LEMMA PublishUnmarkedKeeps ==
  ASSUME IInv, NEW o \in Order, NEW e \in EventType, PublishUnmarked(o, e)
  PROVE  IInv'
<1> USE DEF IInv
<1>1. UNCHANGED <<tables, notified, pos, committed, resets, errors>>
  BY DEF PublishUnmarked
<1>2. StillRecorded
  BY <1>1 DEF StillRecorded, tables
<1>3. /\ log' \in [Topic -> [Order -> Seq(EventType)]]
      /\ \A t \in Topic, p \in Order : Len(log[t][p]) <= Len(log'[t][p])
      /\ MessagesAreRecorded'
  BY <1>2, SendKeeps DEF PublishUnmarked
<1>4. ASSUME NEW c \in Consumer, NEW p \in Order
      PROVE  committed[c][p] <= pos[c][p] /\ pos[c][p] <= Len(log'[TopicOf(c)][p])
  <2>1. TopicOf(c) \in Topic
    BY DEF Consumer, TopicOf, Topic
  <2>2. Len(log[TopicOf(c)][p]) <= Len(log'[TopicOf(c)][p])
    BY <1>3, <2>1
  <2>3. log[TopicOf(c)][p] \in Seq(EventType) /\ log'[TopicOf(c)][p] \in Seq(EventType)
    BY <1>3, <2>1 DEF TypeOK
  <2> QED
    BY <2>2, <2>3 DEF TypeOK
<1>5. dups' \in 0 .. MaxDups
  BY BudgetAssumption DEF PublishUnmarked, TypeOK
<1>6. TypeOK'
  BY <1>1, <1>3, <1>4, <1>5 DEF TypeOK, TablesTypeOK, NotificationTypeOK, tables
<1>7. Causality' /\ PaymentsMatchEvents'
  BY <1>1 DEF Causality, PaymentsMatchEvents, Recorded, tables
<1> QED
  BY <1>3, <1>6, <1>7

\* The message a consumer is about to handle is one of its topic, and is
\* recorded.
LEMMA NextMessageIsRecorded ==
  ASSUME IInv, NEW c \in Consumer, NEW o \in Order, HasNext(c, o)
  PROVE  /\ NextMessage(c, o) \in EventType
         /\ Recorded(o, NextMessage(c, o))
         /\ pos[c][o] + 1 \in Nat
         /\ pos[c][o] + 1 <= Len(log[TopicOf(c)][o])
<1>1. TopicOf(c) \in Topic
  BY DEF Consumer, TopicOf, Topic
<1> DEFINE s == log[TopicOf(c)][o]
<1>2. s \in Seq(EventType) /\ pos[c][o] \in Nat /\ Len(s) \in Nat
  BY <1>1 DEF IInv, TypeOK
<1>3. pos[c][o] + 1 \in 1 .. Len(s)
  BY <1>2 DEF HasNext
<1>4. s[pos[c][o] + 1] \in EventType
  BY <1>2, <1>3
<1>5. Recorded(o, s[pos[c][o] + 1])
  BY <1>1, <1>3 DEF IInv, MessagesAreRecorded
<1> QED
  BY <1>2, <1>3, <1>4, <1>5 DEF NextMessage

\* A consumer that moves on by one message stays within its topic.
LEMMA MoveOn ==
  ASSUME IInv, NEW c \in Consumer, NEW o \in Order, HasNext(c, o),
         pos' = [pos EXCEPT ![c][o] = @ + 1], UNCHANGED <<log, committed>>
  PROVE  /\ pos' \in [Consumer -> [Order -> Nat]]
         /\ \A d \in Consumer, p \in Order :
              committed'[d][p] <= pos'[d][p] /\ pos'[d][p] <= Len(log'[TopicOf(d)][p])
<1>1. /\ pos \in [Consumer -> [Order -> Nat]]
      /\ committed \in [Consumer -> [Order -> Nat]]
      /\ \A d \in Consumer, p \in Order :
           committed[d][p] <= pos[d][p] /\ pos[d][p] <= Len(log[TopicOf(d)][p])
  BY DEF IInv, TypeOK
<1>2. pos[c][o] + 1 \in Nat /\ pos[c][o] + 1 <= Len(log[TopicOf(c)][o])
  BY NextMessageIsRecorded
<1>3. pos' \in [Consumer -> [Order -> Nat]]
  BY <1>1, <1>2
<1>4. ASSUME NEW d \in Consumer, NEW p \in Order
      PROVE  committed[d][p] <= pos'[d][p] /\ pos'[d][p] <= Len(log[TopicOf(d)][p])
  <2>1. CASE d = c /\ p = o
    <3>1. pos'[d][p] = pos[c][o] + 1
      BY <1>1, <2>1
    <3>2. committed[d][p] \in Nat /\ pos[c][o] \in Nat
      BY <1>1
    <3>3. committed[d][p] <= pos[c][o]
      BY <1>1, <2>1
    <3> QED
      BY <1>2, <2>1, <3>1, <3>2, <3>3
  <2>2. CASE ~(d = c /\ p = o)
    <3>1. pos'[d][p] = pos[d][p]
      BY <1>1, <2>2
    <3> QED
      BY <1>1, <3>1
  <2> QED
    BY <2>1, <2>2
<1> QED
  BY <1>3, <1>4

LEMMA DeliverKeeps ==
  ASSUME IInv, NEW c \in Consumer, NEW o \in Order, Deliver(c, o)
  PROVE  IInv'
<1>1. HasNext(c, o)
  BY DEF Deliver
<1>2. TablesInv' /\ StillRecorded /\ NotificationTypeOK'
  BY <1>1, NextMessageIsRecorded, HandleKeeps
     DEF IInv, TypeOK, TablesInv, Deliver
<1>3. MessagesAreRecorded'
  BY <1>2, LogStaysRecorded DEF IInv, Deliver
<1>4. TypeOK'
  BY <1>1, <1>2, MoveOn DEF IInv, TypeOK, TablesInv, Deliver, faults
<1> QED
  BY <1>2, <1>3, <1>4 DEF IInv, TablesInv

LEMMA HandlerErrorKeeps ==
  ASSUME IInv, NEW c \in Consumer, NEW o \in Order, HandlerError(c, o)
  PROVE  IInv'
<1>1. HasNext(c, o) /\ UNCHANGED <<tables, notified, log, committed, resets, dups>>
  BY DEF HandlerError
<1>2. errors' \in 0 .. MaxErrors
  BY BudgetAssumption DEF HandlerError, IInv, TypeOK
<1>3. TypeOK'
  BY <1>1, <1>2, MoveOn
     DEF IInv, TypeOK, TablesTypeOK, NotificationTypeOK, HandlerError, tables
<1>4. Causality' /\ PaymentsMatchEvents' /\ MessagesAreRecorded'
  BY <1>1 DEF IInv, Causality, PaymentsMatchEvents, MessagesAreRecorded,
              Recorded, tables
<1> QED
  BY <1>3, <1>4 DEF IInv

LEMMA RedeliverKeeps ==
  ASSUME IInv, NEW c \in Consumer, NEW o \in Order, Redeliver(c, o)
  PROVE  IInv'
<1>1. UNCHANGED <<tables, notified, log, dups, errors>>
  BY DEF Redeliver
<1>2. /\ pos \in [Consumer -> [Order -> Nat]]
      /\ committed \in [Consumer -> [Order -> Nat]]
      /\ \A d \in Consumer, p \in Order :
           committed[d][p] <= pos[d][p] /\ pos[d][p] <= Len(log[TopicOf(d)][p])
  BY DEF IInv, TypeOK
<1>3. PICK k \in committed[c][o] .. (pos[c][o] - 1) :
        /\ pos' = [pos EXCEPT ![c][o] = k]
        /\ committed' = [committed EXCEPT ![c][o] = k]
  BY DEF Redeliver
<1>4. k \in Nat /\ k <= pos[c][o]
  <2>1. committed[c][o] \in Nat /\ pos[c][o] \in Nat
    BY <1>2
  <2> QED
    BY <1>3, <2>1
<1>5. /\ pos' \in [Consumer -> [Order -> Nat]]
      /\ committed' \in [Consumer -> [Order -> Nat]]
  BY <1>2, <1>3, <1>4
<1>6. ASSUME NEW d \in Consumer, NEW p \in Order
      PROVE  committed'[d][p] <= pos'[d][p] /\ pos'[d][p] <= Len(log[TopicOf(d)][p])
  <2>1. CASE d = c /\ p = o
    <3>1. pos'[d][p] = k /\ committed'[d][p] = k
      BY <1>2, <1>3, <2>1
    <3>2. Len(log[TopicOf(d)][p]) \in Nat
      <4>1. TopicOf(d) \in Topic
        BY DEF Consumer, TopicOf, Topic
      <4>2. log[TopicOf(d)][p] \in Seq(EventType)
        BY <4>1 DEF IInv, TypeOK
      <4> QED
        BY <4>2
    <3>3. pos[c][o] \in Nat /\ pos[c][o] <= Len(log[TopicOf(d)][p])
      BY <1>2, <2>1
    <3> QED
      BY <1>4, <3>1, <3>2, <3>3
  <2>2. CASE ~(d = c /\ p = o)
    <3>1. pos'[d][p] = pos[d][p] /\ committed'[d][p] = committed[d][p]
      BY <1>2, <1>3, <2>2
    <3> QED
      BY <1>2, <3>1
  <2> QED
    BY <2>1, <2>2
<1>7. resets' \in 0 .. MaxResets
  BY BudgetAssumption DEF Redeliver, IInv, TypeOK
<1>8. TypeOK'
  BY <1>1, <1>5, <1>6, <1>7
     DEF IInv, TypeOK, TablesTypeOK, NotificationTypeOK, tables
<1>9. Causality' /\ PaymentsMatchEvents' /\ MessagesAreRecorded'
  BY <1>1 DEF IInv, Causality, PaymentsMatchEvents, MessagesAreRecorded,
              Recorded, tables
<1> QED
  BY <1>8, <1>9 DEF IInv

-----------------------------------------------------------------------------
(* The theorems                                                            *)

LEMMA InitEstablishes == Init => IInv
<1> SUFFICES ASSUME Init
             PROVE  IInv
  OBVIOUS
<1>1. TablesTypeOK
  BY DEF Init, TablesInit, TablesTypeOK, SagaStatus, Step
<1>2. NotificationTypeOK
  BY DEF Init, NotificationInit, NotificationTypeOK
<1>3. log \in [Topic -> [Order -> Seq(EventType)]]
  <2>1. <<>> \in Seq(EventType)
    OBVIOUS
  <2> QED
    BY <2>1 DEF Init
<1>4. \A c \in Consumer, o \in Order :
        committed[c][o] <= pos[c][o] /\ pos[c][o] <= Len(log[TopicOf(c)][o])
  <2>1. \A c \in Consumer : TopicOf(c) \in Topic
    BY DEF Consumer, TopicOf, Topic
  <2>2. \A c \in Consumer, o \in Order : log[TopicOf(c)][o] = <<>>
    BY <2>1 DEF Init
  <2> QED
    BY <2>2 DEF Init
<1>5. TypeOK
  BY <1>1, <1>2, <1>3, <1>4, BudgetAssumption DEF TypeOK, Init
<1>6. MessagesAreRecorded
  BY DEF Init, MessagesAreRecorded
<1>7. Causality /\ PaymentsMatchEvents
  BY DEF Init, TablesInit, Causality, PaymentsMatchEvents, Recorded, EventType
<1> QED
  BY <1>5, <1>6, <1>7 DEF IInv

LEMMA NextKeeps == IInv /\ [Next]_vars => IInv'
<1> SUFFICES ASSUME IInv, [Next]_vars
             PROVE  IInv'
  OBVIOUS
<1>1. ASSUME NEW o \in Order, Create(o)
      PROVE  IInv'
  BY <1>1, CreateKeeps
<1>2. ASSUME NEW o \in Order, NEW e \in EventType, Publish(o, e)
      PROVE  IInv'
  BY <1>2, PublishKeeps
<1>3. ASSUME NEW o \in Order, NEW e \in EventType, PublishUnmarked(o, e)
      PROVE  IInv'
  BY <1>3, PublishUnmarkedKeeps
<1>4. ASSUME NEW o \in Order, NEW c \in Consumer, Deliver(c, o)
      PROVE  IInv'
  BY <1>4, DeliverKeeps
<1>5. ASSUME NEW o \in Order, NEW c \in Consumer, HandlerError(c, o)
      PROVE  IInv'
  BY <1>5, HandlerErrorKeeps
<1>6. ASSUME NEW o \in Order, NEW c \in Consumer, Redeliver(c, o)
      PROVE  IInv'
  BY <1>6, RedeliverKeeps
<1>7. CASE UNCHANGED vars
  BY <1>7 DEF vars, tables, broker, faults, IInv, TypeOK, TablesTypeOK,
              NotificationTypeOK, MessagesAreRecorded, Causality,
              PaymentsMatchEvents, Recorded
<1> QED
  BY <1>1, <1>2, <1>3, <1>4, <1>5, <1>6, <1>7 DEF Next

\* The inductive invariant holds, for every set of orders and all bounds.
THEOREM InvariantHolds == Spec => []IInv
BY InitEstablishes, NextKeeps, PTL DEF Spec

\* Every variable of Saga keeps its type, and no consumer runs ahead of its
\* topic or falls behind its committed offset.
THEOREM TypeCorrect == Spec => []TypeOK
<1>1. IInv => TypeOK
  BY DEF IInv
<1> QED
  BY <1>1, InvariantHolds, PTL

\* No service ever acts on a message that nobody recorded.
THEOREM MessagesAreTrue == Spec => []MessagesAreRecorded
<1>1. IInv => MessagesAreRecorded
  BY DEF IInv
<1> QED
  BY <1>1, InvariantHolds, PTL

\* Nothing is charged before it is reserved, shipped before it is charged or
\* refunded before its shipping failed, whatever is lost or redelivered.
THEOREM CausalityHolds == Spec => []Causality
<1>1. IInv => Causality
  BY DEF IInv
<1> QED
  BY <1>1, InvariantHolds, PTL

\* The payments row says what the payment events say, although the refund
\* does not look at the row it changes.
THEOREM PaymentsAreAnnounced == Spec => []PaymentsMatchEvents
<1>1. IInv => PaymentsMatchEvents
  BY DEF IInv
<1> QED
  BY <1>1, InvariantHolds, PTL

-----------------------------------------------------------------------------
(* What a step does to the payments and to the stock                       *)

\* The payments row of every order as the abstract ledger sees it.
ledgerView == [o \in Order |-> payments[o].status]

\* The payment service charges or declines; the guard makes it do so once.
LEMMA ProcessPaymentMoves ==
  ASSUME TablesTypeOK, NEW o \in Order, ProcessPayment(o)
  PROVE  UNCHANGED ledgerView \/ Ledger!Charge(o) \/ Ledger!Decline(o)
<1>1. CASE UNCHANGED tables
  BY <1>1 DEF tables, ledgerView
<1>2. CASE payments[o].status = "none" /\ ~UNCHANGED tables
  <2>1. PICK outcome \in {"processed", "failed"} :
          payments' = [payments EXCEPT ![o] =
                         [status |-> outcome, amount |-> ChargedAmount(o)]]
    BY <1>2 DEF ProcessPayment
  <2>2. ledgerView' = [ledgerView EXCEPT ![o] = outcome]
    BY <2>1 DEF ledgerView, TablesTypeOK
  <2> QED
    BY <1>2, <2>2 DEF ledgerView, Ledger!Charge, Ledger!Decline, Ledger!Move
<1> QED
  BY <1>1, <1>2 DEF ProcessPayment

\* The refund hits a charge, or an order that is refunded already.
LEMMA RefundMoves ==
  ASSUME TablesInv, NEW o \in Order, Recorded(o, "fulfillment.failed"),
         RefundPayment(o)
  PROVE  UNCHANGED ledgerView \/ Ledger!Refund(o)
<1>1. payments[o].status \in {"processed", "refunded"}
  <2>1. Recorded(o, "payment.processed")
    BY CausesAre DEF TablesInv, Causality, EventType
  <2> QED
    BY <2>1 DEF TablesInv, PaymentsMatchEvents, TablesTypeOK
<1>2. payments' = [payments EXCEPT ![o].status = "refunded"]
  BY <1>1 DEF RefundPayment
<1>3. ledgerView' = [ledgerView EXCEPT ![o] = "refunded"]
  BY <1>2 DEF ledgerView, TablesInv, TablesTypeOK
<1>4. CASE payments[o].status = "refunded"
  BY <1>3, <1>4 DEF ledgerView
<1>5. CASE payments[o].status = "processed"
  BY <1>3, <1>5 DEF ledgerView, Ledger!Refund, Ledger!Move
<1> QED
  BY <1>1, <1>4, <1>5

\* The only handlers that write the payments table are those two.
LEMMA HandleMoves ==
  ASSUME TablesInv, NEW c \in Consumer, NEW o \in Order, NEW e \in EventType,
         Recorded(o, e), Handle(c, o, e)
  PROVE  \/ UNCHANGED ledgerView
         \/ Ledger!Charge(o) \/ Ledger!Decline(o) \/ Ledger!Refund(o)
<1>1. ASSUME UNCHANGED payments
      PROVE  UNCHANGED ledgerView
  BY <1>1 DEF ledgerView
<1>2. CASE InventoryHandler(o, e)
  BY <1>1, <1>2 DEF InventoryHandler, ReserveInventory, tables
<1>3. CASE PaymentHandler(o, e)
  <2>1. CASE e \in PaymentTriggers
    BY <1>3, <2>1, ProcessPaymentMoves DEF PaymentHandler, TablesInv
  <2>2. CASE UNCHANGED tables
    BY <1>1, <2>2 DEF tables
  <2> QED
    BY <1>3, <2>1, <2>2 DEF PaymentHandler
<1>4. CASE FulfillmentHandler(o, e)
  BY <1>1, <1>4 DEF FulfillmentHandler, StartFulfillment, tables
<1>5. CASE OrchestratorHandler(o, e)
  <2>1. CASE e = "fulfillment.failed" /\ CompensateFulfillmentFailed(o)
    BY <2>1, RefundMoves DEF CompensateFulfillmentFailed
  <2>2. CASE ~(e = "fulfillment.failed" /\ CompensateFulfillmentFailed(o))
    BY <1>1, <1>5, <2>2
       DEF OrchestratorHandler, AdvanceStep, FailSaga, CompensatePaymentFailed,
           CompleteSaga
  <2> QED
    BY <2>1, <2>2
<1>6. CASE UNCHANGED tables
  BY <1>1, <1>6 DEF tables
<1> QED
  BY <1>2, <1>3, <1>4, <1>5, <1>6 DEF Handle

LEMMA StepMoves ==
  ASSUME IInv, [Next]_vars
  PROVE  [Ledger!Next]_ledgerView
<1>1. ASSUME UNCHANGED payments
      PROVE  UNCHANGED ledgerView
  BY <1>1 DEF ledgerView
<1>2. ASSUME NEW o \in Order, NEW c \in Consumer, Deliver(c, o)
      PROVE  [Ledger!Next]_ledgerView
  <2>1. HasNext(c, o) /\ Handle(c, o, NextMessage(c, o))
    BY <1>2 DEF Deliver
  <2>2. NextMessage(c, o) \in EventType /\ Recorded(o, NextMessage(c, o))
    BY <2>1, NextMessageIsRecorded
  <2>3. TablesInv
    BY DEF IInv, TypeOK, TablesInv
  <2> QED
    BY <2>1, <2>2, <2>3, HandleMoves DEF Ledger!Next
<1>3. ASSUME NEW o \in Order, NEW e \in EventType, NEW c \in Consumer,
             \/ Create(o) \/ Publish(o, e) \/ PublishUnmarked(o, e)
             \/ HandlerError(c, o) \/ Redeliver(c, o)
      PROVE  UNCHANGED payments
  BY <1>3 DEF Create, CreateOrder, Publish, PublishUnmarked, HandlerError,
              Redeliver, tables
<1>4. CASE UNCHANGED vars
  BY <1>1, <1>4 DEF vars, tables
<1>5. "order.created" \in EventType /\ "payment" \in Consumer
  BY DEF EventType, Consumer
<1> QED
  BY <1>1, <1>2, <1>3, <1>4, <1>5 DEF Next

\* Saga implements PaymentLedger: an order is charged or declined once, and
\* only a charge is refunded, once and for good, although deliveries repeat
\* and no UPDATE looks at the state it changes.
THEOREM PaymentsImplementLedger == Spec => LedgerSpec
<1>1. Init => Ledger!Init
  BY DEF Init, TablesInit, Ledger!Init
<1>2. IInv /\ [Next]_vars => [Ledger!Next]_ledgerView
  BY StepMoves
<1> QED
  BY <1>1, <1>2, InvariantHolds, PTL DEF Spec, LedgerSpec, Ledger!Spec, ledgerView

\* What StockReturnedOnFailure says of one step.
StockStep ==
  \A o \in Order :
    reserved'[o] < reserved[o] =>
      /\ Recorded(o, "payment.failed") \/ Recorded(o, "fulfillment.failed")
      /\ Recorded(o, "inventory.released")'

\* A step that leaves the reservations alone, or adds to them.
LEMMA NothingReturned ==
  ASSUME TablesTypeOK, \A p \in Order : reserved'[p] \in Nat /\ reserved[p] <= reserved'[p]
  PROVE  StockStep
<1>1. \A p \in Order : reserved[p] \in Nat
  BY DEF TablesTypeOK
<1>2. \A p \in Order : ~(reserved'[p] < reserved[p])
  BY <1>1
<1> QED
  BY <1>2 DEF StockStep

LEMMA ReservationsUnchanged ==
  ASSUME TablesTypeOK, UNCHANGED reserved
  PROVE  StockStep
<1>1. \A p \in Order : reserved'[p] \in Nat /\ reserved[p] <= reserved'[p]
  BY DEF TablesTypeOK
<1> QED
  BY <1>1, NothingReturned

\* A compensation gives the stock back and announces it.
LEMMA CompensationReturns ==
  ASSUME TablesTypeOK, NEW o \in Order, NEW E, AppendOutbox(o, E),
         "inventory.released" \in E, ReleaseInventory(o),
         Recorded(o, "payment.failed") \/ Recorded(o, "fulfillment.failed")
  PROVE  StockStep
<1>1. outbox'[o]["inventory.released"] # "absent"
  BY AppendOutboxRecords DEF EventType
<1>2. ASSUME NEW p \in Order, reserved'[p] < reserved[p]
      PROVE  p = o
  <2>1. SUFFICES ASSUME p # o
                 PROVE  FALSE
    OBVIOUS
  <2>2. reserved'[p] = reserved[p] /\ reserved[p] \in Nat
    BY <2>1 DEF ReleaseInventory, TablesTypeOK
  <2> QED
    BY <1>2, <2>2
<1> QED
  BY <1>1, <1>2 DEF StockStep, Recorded

LEMMA HandleReturns ==
  ASSUME TablesInv, NEW c \in Consumer, NEW o \in Order, NEW e \in EventType,
         Recorded(o, e), Handle(c, o, e)
  PROVE  StockStep
<1> USE DEF TablesInv
<1>1. CASE InventoryHandler(o, e)
  <2>1. CASE UNCHANGED tables
    BY <2>1, ReservationsUnchanged DEF tables
  <2>2. CASE ReserveInventory(o)
    <3>1. PICK n \in 0 .. Lines[o] : reserved' = [reserved EXCEPT ![o] = @ + n]
      BY <2>2 DEF ReserveInventory
    <3>2. n \in Nat /\ reserved \in [Order -> Nat]
      BY CartAssumption DEF TablesTypeOK
    <3>3. ASSUME NEW p \in Order
          PROVE  reserved'[p] \in Nat /\ reserved[p] <= reserved'[p]
      <4>1. reserved[p] \in Nat
        BY <3>2
      <4>2. reserved'[p] = IF p = o THEN reserved[p] + n ELSE reserved[p]
        BY <3>1, <3>2
      <4> QED
        BY <3>2, <4>1, <4>2
    <3> QED
      BY <3>3, NothingReturned
  <2> QED
    BY <1>1, <2>1, <2>2 DEF InventoryHandler
<1>2. CASE PaymentHandler(o, e)
  BY <1>2, ReservationsUnchanged DEF PaymentHandler, ProcessPayment, tables
<1>3. CASE FulfillmentHandler(o, e)
  BY <1>3, ReservationsUnchanged DEF FulfillmentHandler, StartFulfillment, tables
<1>4. CASE OrchestratorHandler(o, e)
  <2>1. CASE e = "payment.failed" /\ CompensatePaymentFailed(o)
    BY <2>1, CompensationReturns DEF CompensatePaymentFailed
  <2>2. CASE e = "fulfillment.failed" /\ CompensateFulfillmentFailed(o)
    BY <2>2, CompensationReturns DEF CompensateFulfillmentFailed
  <2>3. CASE UNCHANGED reserved
    BY <2>3, ReservationsUnchanged
  <2> QED
    BY <1>4, <2>1, <2>2, <2>3
       DEF OrchestratorHandler, AdvanceStep, FailSaga, CompleteSaga
<1>5. CASE UNCHANGED tables
  BY <1>5, ReservationsUnchanged DEF tables
<1> QED
  BY <1>1, <1>2, <1>3, <1>4, <1>5 DEF Handle

LEMMA StepReturns ==
  ASSUME IInv, [Next]_vars
  PROVE  StockStep
<1>1. TablesInv
  BY DEF IInv, TypeOK, TablesInv
<1>2. ASSUME NEW o \in Order, NEW c \in Consumer, Deliver(c, o)
      PROVE  StockStep
  <2>1. HasNext(c, o) /\ Handle(c, o, NextMessage(c, o))
    BY <1>2 DEF Deliver
  <2>2. NextMessage(c, o) \in EventType /\ Recorded(o, NextMessage(c, o))
    BY <2>1, NextMessageIsRecorded
  <2> QED
    BY <1>1, <2>1, <2>2, HandleReturns
<1>3. CASE UNCHANGED reserved
  BY <1>1, <1>3, ReservationsUnchanged DEF TablesInv
<1> QED
  BY <1>2, <1>3 DEF Next, Create, CreateOrder, Publish, PublishUnmarked,
                    HandlerError, Redeliver, tables, vars

\* Stock goes back to the shelf only after a failed payment or shipment, and
\* every time it does inventory.released is on record.
THEOREM StockReturnedOnlyOnFailure == Spec => StockReturnedOnFailure
<1>1. IInv /\ [Next]_vars => [StockStep]_vars
  BY StepReturns
<1> QED
  BY <1>1, InvariantHolds, PTL DEF Spec, StockReturnedOnFailure, StockStep

=============================================================================
