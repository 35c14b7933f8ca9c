--------------------------- MODULE PaymentTxProofs ---------------------------
(***************************************************************************)
(* Safety of the payment transactions for any orders, instances and bounds *)
(* on deliveries and faults.                                               *)
(***************************************************************************)
EXTENDS PaymentTx, TLAPS

\* The key keeps the transactions apart: who has inserted the payment of an
\* order is alone with it, and will find the order undecided at its COMMIT.
InsertedIsAlone ==
  \A i \in Instance :
    pc[i] = "commit" =>
      /\ payments[job[i]] = "none"
      /\ \A j \in Instance : HasInserted(j, job[i]) => j = i

\* The inductive invariant.
IInv ==
  /\ TypeOK
  /\ EventsMatchPayments
  /\ InsertedIsAlone

-----------------------------------------------------------------------------
LEMMA InitEstablishes == Init => IInv
BY PaymentAssumption
   DEF Init, IInv, TypeOK, EventsMatchPayments, InsertedIsAlone

\* An instance that is at work works on an order.
LEMMA BusyHasJob ==
  ASSUME TypeOK, NEW i \in Instance, pc[i] # "idle"
  PROVE  job[i] \in Order
BY DEF TypeOK

\* The steps that change neither the tables nor the set of those who have
\* inserted a payment keep what is said about them.
LEMMA NoInsertKeeps ==
  ASSUME IInv, TypeOK', UNCHANGED committed,
         \A j \in Instance : pc'[j] = "commit" => pc[j] = "commit" /\ job'[j] = job[j]
  PROVE  IInv'
<1>1. EventsMatchPayments'
  BY DEF IInv, EventsMatchPayments, committed
<1>2. InsertedIsAlone'
  BY DEF IInv, InsertedIsAlone, HasInserted, committed
<1> QED
  BY <1>1, <1>2 DEF IInv

\* A handler that returns without COMMIT keeps the invariant.
LEMMA EndKeeps ==
  ASSUME IInv, NEW i \in Instance, pc[i] # "idle", End(i),
         UNCHANGED <<committed, deliveries>>, faults' \in 0 .. MaxFaults
  PROVE  IInv'
<1>1. TypeOK'
  BY PaymentAssumption DEF IInv, TypeOK, End, committed
<1>2. \A j \in Instance : pc'[j] = "commit" => pc[j] = "commit" /\ job'[j] = job[j]
  BY DEF IInv, TypeOK, End
<1> QED
  BY <1>1, <1>2, NoInsertKeeps

LEMMA BeginKeeps ==
  ASSUME IInv, NEW i \in Instance, NEW o \in Order, Begin(i, o)
  PROVE  IInv'
<1>1. TypeOK'
  BY PaymentAssumption DEF IInv, TypeOK, Begin, committed
<1>2. \A j \in Instance : pc'[j] = "commit" => pc[j] = "commit" /\ job'[j] = job[j]
  BY DEF IInv, TypeOK, Begin
<1> QED
  BY <1>1, <1>2, NoInsertKeeps DEF Begin

LEMMA DrawKeeps ==
  ASSUME IInv, NEW i \in Instance, pc[i] = "guard", Draw(i),
         faults' \in 0 .. MaxFaults
  PROVE  IInv'
<1>1. PICK d \in {"processed", "failed"} : outcome' = [outcome EXCEPT ![i] = d]
  BY DEF Draw
<1>2. TypeOK'
  BY <1>1, PaymentAssumption DEF IInv, TypeOK, Draw, committed
<1>3. \A j \in Instance : pc'[j] = "commit" => pc[j] = "commit" /\ job'[j] = job[j]
  BY DEF IInv, TypeOK, Draw
<1> QED
  BY <1>2, <1>3, NoInsertKeeps DEF Draw

LEMMA InsertKeeps ==
  ASSUME IInv, NEW i \in Instance, Insert(i)
  PROVE  IInv'
<1>1. TypeOK'
  BY DEF IInv, TypeOK, Insert, committed
<1>2. EventsMatchPayments'
  BY DEF IInv, EventsMatchPayments, Insert, committed
<1>3. InsertedIsAlone'
  BY DEF IInv, TypeOK, InsertedIsAlone, Insert, KeyFree, HasInserted, committed
<1> QED
  BY <1>1, <1>2, <1>3 DEF IInv

LEMMA CommitKeeps ==
  ASSUME IInv, NEW i \in Instance, Commit(i)
  PROVE  IInv'
<1>0. job[i] \in Order /\ outcome[i] \in {"processed", "failed"}
  BY BusyHasJob DEF IInv, TypeOK, Commit
<1>1. TypeOK'
  BY <1>0, PaymentAssumption DEF IInv, TypeOK, Commit, End, EventOf
<1>2. payments[job[i]] = "none" /\ events[job[i]] = {}
  BY <1>0 DEF IInv, InsertedIsAlone, EventsMatchPayments, Commit
<1>3. EventsMatchPayments'
  BY <1>0, <1>2 DEF IInv, TypeOK, EventsMatchPayments, Commit, EventOf
<1>4. InsertedIsAlone'
  <2> SUFFICES ASSUME NEW j \in Instance, pc'[j] = "commit"
               PROVE  /\ payments'[job'[j]] = "none"
                      /\ \A k \in Instance : HasInserted(k, job[j])' => k = j
    BY DEF InsertedIsAlone, HasInserted
  <2>1. j # i /\ pc[j] = "commit" /\ job'[j] = job[j]
    BY DEF IInv, TypeOK, Commit, End
  <2>2. job[j] # job[i]
    BY <2>1 DEF IInv, InsertedIsAlone, HasInserted, Commit
  <2>3. \A k \in Instance : HasInserted(k, job[j])' => HasInserted(k, job[j])
    BY <2>1 DEF IInv, TypeOK, Commit, End, HasInserted
  <2> QED
    BY <2>1, <2>2, <2>3 DEF IInv, TypeOK, InsertedIsAlone, Commit
<1> QED
  BY <1>1, <1>3, <1>4 DEF IInv

LEMMA RefundKeeps ==
  ASSUME IInv, NEW o \in Order, RefundPayment(o)
  PROVE  IInv'
<1>1. payments[o] \in {"processed", "refunded"}
  BY DEF IInv, TypeOK, EventsMatchPayments, RefundPayment
<1>2. TypeOK'
  BY DEF IInv, TypeOK, RefundPayment
<1>3. EventsMatchPayments'
  BY <1>1 DEF IInv, TypeOK, EventsMatchPayments, RefundPayment
<1>4. InsertedIsAlone'
  BY <1>1 DEF IInv, TypeOK, InsertedIsAlone, HasInserted, RefundPayment
<1> QED
  BY <1>2, <1>3, <1>4 DEF IInv

LEMMA NextKeeps == IInv /\ [Next]_vars => IInv'
<1> SUFFICES ASSUME IInv, [Next]_vars
             PROVE  IInv'
  OBVIOUS
<1>0. faults \in 0 .. MaxFaults
  BY DEF IInv, TypeOK
<1>1. ASSUME NEW i \in Instance, FindPayment(i) \/ Conflict(i)
      PROVE  IInv'
  BY <1>0, <1>1, EndKeeps DEF FindPayment, Conflict
<1>2. ASSUME NEW i \in Instance, PassGuard(i)
      PROVE  IInv'
  BY <1>0, <1>2, DrawKeeps DEF PassGuard
<1>3. ASSUME NEW i \in Instance, GuardFails(i)
      PROVE  IInv'
  BY <1>0, <1>3, DrawKeeps, PaymentAssumption DEF GuardFails
<1>4. ASSUME NEW i \in Instance, Abort(i)
      PROVE  IInv'
  BY <1>0, <1>4, EndKeeps, PaymentAssumption DEF Abort
<1>5. CASE UNCHANGED vars
  BY <1>5 DEF vars, committed, IInv, TypeOK, EventsMatchPayments,
              InsertedIsAlone, HasInserted
<1> QED
  BY <1>1, <1>2, <1>3, <1>4, <1>5, BeginKeeps, InsertKeeps, CommitKeeps, RefundKeeps
     DEF Next, Working

-----------------------------------------------------------------------------
(* The theorems                                                            *)

\* The inductive invariant holds, for all orders, instances and bounds.
THEOREM InvariantHolds == Spec => []IInv
BY InitEstablishes, NextKeeps, PTL DEF Spec

\* The variables keep their types, and who is idle works on no order.
THEOREM TypeCorrect == Spec => []TypeOK
<1>1. IInv => TypeOK
  BY DEF IInv
<1> QED
  BY <1>1, InvariantHolds, PTL

\* What the payment service announces is what it has recorded, however many
\* instances race.
THEOREM EventsAgree == Spec => []EventsMatchPayments
<1>1. IInv => EventsMatchPayments
  BY DEF IInv
<1> QED
  BY <1>1, InvariantHolds, PTL

\* No instance drops the message of an order on the strength of a payment
\* that may not come about.
THEOREM EndedIsDecided == Spec => DeliveryDecides
<1> DEFINE Decides ==
             \A i \in Instance :
               pc[i] # "idle" /\ pc'[i] = "idle" /\ faults' = faults =>
                 payments'[job[i]] # "none"
<1>1. IInv /\ [Next]_vars => [Decides]_vars
  <2> SUFFICES ASSUME IInv, Next, NEW i \in Instance,
                      pc[i] # "idle", pc'[i] = "idle", faults' = faults
               PROVE  payments'[job[i]] # "none"
    BY DEF vars
  <2>0. job[i] \in Order /\ outcome[i] \in {"none", "processed", "failed"}
    BY BusyHasJob DEF IInv, TypeOK
  <2>1. ASSUME NEW j \in Instance, FindPayment(j) \/ Conflict(j)
        PROVE  payments'[job[i]] # "none"
    BY <2>1 DEF FindPayment, Conflict, End, IInv, TypeOK, committed
  <2>2. ASSUME NEW j \in Instance, Commit(j)
        PROVE  payments'[job[i]] # "none"
    BY <2>0, <2>2 DEF Commit, End, IInv, TypeOK
  <2>3. ASSUME NEW j \in Instance, PassGuard(j) \/ Insert(j)
        PROVE  FALSE
    BY <2>3 DEF PassGuard, Draw, Insert, IInv, TypeOK
  <2>4. ASSUME NEW j \in Instance, GuardFails(j) \/ Abort(j)
        PROVE  FALSE
    BY <2>4 DEF GuardFails, Abort, IInv, TypeOK
  <2>5. ASSUME NEW j \in Instance, NEW o \in Order, Begin(j, o) \/ RefundPayment(o)
        PROVE  FALSE
    BY <2>5 DEF Begin, RefundPayment, IInv, TypeOK
  <2> QED
    BY <2>1, <2>2, <2>3, <2>4, <2>5 DEF Next, Working
<1> QED
  BY <1>1, InvariantHolds, PTL DEF Spec, DeliveryDecides

\* The racing instances implement PaymentLedger: one charge or decline for
\* each order, and only a charge is refunded.
THEOREM RaceImplementsLedger == Spec => LedgerSpec
<1>1. Init => Ledger!Init
  BY DEF Init, Ledger!Init
<1>2. IInv /\ [Next]_vars => [Ledger!Next]_payments
  <2> SUFFICES ASSUME IInv, Next, payments' # payments
               PROVE  Ledger!Next
    BY DEF vars, committed
  <2>1. ASSUME NEW i \in Instance, Commit(i)
        PROVE  Ledger!Next
    <3>1. /\ job[i] \in Order /\ outcome[i] \in {"processed", "failed"}
          /\ payments[job[i]] = "none"
      BY <2>1, BusyHasJob DEF IInv, TypeOK, InsertedIsAlone, Commit
    <3>2. Ledger!Charge(job[i]) \/ Ledger!Decline(job[i])
      BY <2>1, <3>1 DEF Commit, Ledger!Charge, Ledger!Decline, Ledger!Move
    <3> QED
      BY <3>1, <3>2 DEF Ledger!Next
  <2>2. ASSUME NEW o \in Order, RefundPayment(o)
        PROVE  Ledger!Next
    <3>1. payments[o] = "processed"
      BY <2>2 DEF IInv, TypeOK, EventsMatchPayments, RefundPayment
    <3>2. Ledger!Refund(o)
      BY <2>2, <3>1 DEF RefundPayment, Ledger!Refund, Ledger!Move
    <3> QED
      BY <3>2 DEF Ledger!Next
  <2> QED
    BY <2>1, <2>2 DEF Next, Working, FindPayment, PassGuard, Insert, Conflict,
                      GuardFails, Abort, Begin, Draw, committed
<1> QED
  BY <1>1, <1>2, InvariantHolds, PTL DEF Spec, LedgerSpec, Ledger!Spec

=============================================================================
