------------------------------ MODULE PaymentTx ------------------------------
(***************************************************************************)
(* processPayment statement by statement, when several instances of the    *)
(* payment service are given the same inventory.reserved: the guard reads  *)
(* the payments table before the transaction begins, so two instances may  *)
(* both find nothing, and each draws an outcome of its own.  What decides  *)
(* is the UNIQUE idempotency key: an INSERT waits while another            *)
(* transaction has inserted the key, and fails when that one commits.  An  *)
(* error of the handler is logged and the message is committed.            *)
(***************************************************************************)
EXTENDS Naturals

CONSTANTS
  Order,
  Instance,       \* payment service instances
  NoOrder,
  MaxDeliveries,  \* how often inventory.reserved is delivered for each order
  MaxFaults       \* queries that fail and instances that stop

ASSUME PaymentAssumption ==
  /\ NoOrder \notin Order
  /\ MaxDeliveries \in Nat /\ MaxFaults \in Nat

VARIABLES
  payments,    \* payments[o]: the status of o's row, "none" without one
  events,      \* events[o]: the payment events in the outbox
  pc,          \* pc[i]: the statement i is at
  job,         \* job[i]: the order i works on
  outcome,     \* outcome[i]: what i has drawn for it
  deliveries,  \* deliveries[o]: payments begun for o
  faults

committed == <<payments, events>>
vars == <<committed, pc, job, outcome, deliveries, faults>>

TypeOK ==
  /\ payments \in [Order -> {"none", "processed", "failed", "refunded"}]
  /\ events \in [Order -> SUBSET {"payment.processed", "payment.failed"}]
  /\ pc \in [Instance -> {"idle", "guard", "insert", "commit"}]
  /\ job \in [Instance -> Order \cup {NoOrder}]
  /\ outcome \in [Instance -> {"none", "processed", "failed"}]
  /\ deliveries \in [Order -> 0 .. MaxDeliveries]
  /\ faults \in 0 .. MaxFaults
  /\ \A i \in Instance :
       /\ pc[i] = "idle" <=> job[i] = NoOrder
       /\ pc[i] \in {"idle", "guard"} <=> outcome[i] = "none"

Init ==
  /\ payments = [o \in Order |-> "none"]
  /\ events = [o \in Order |-> {}]
  /\ pc = [i \in Instance |-> "idle"]
  /\ job = [i \in Instance |-> NoOrder]
  /\ outcome = [i \in Instance |-> "none"]
  /\ deliveries = [o \in Order |-> 0]
  /\ faults = 0

-----------------------------------------------------------------------------
\* inventory.reserved of o is delivered to i.
Begin(i, o) ==
  /\ pc[i] = "idle"
  /\ deliveries[o] < MaxDeliveries
  /\ deliveries' = [deliveries EXCEPT ![o] = @ + 1]
  /\ job' = [job EXCEPT ![i] = o]
  /\ pc' = [pc EXCEPT ![i] = "guard"]
  /\ UNCHANGED <<committed, outcome, faults>>

\* Mutant: the instance goes on with the order it had.
EndKeepingJob(i) ==
  /\ pc' = [pc EXCEPT ![i] = "idle"]
  /\ UNCHANGED job
  /\ outcome' = [outcome EXCEPT ![i] = "none"]

\* The handler returns; what is not committed is rolled back.
End(i) ==
  /\ pc' = [pc EXCEPT ![i] = "idle"]
  /\ job' = [job EXCEPT ![i] = NoOrder]
  /\ outcome' = [outcome EXCEPT ![i] = "none"]

\* The guard's SELECT finds a committed payment: nothing is left to do.
FindPayment(i) ==
  /\ pc[i] = "guard"
  /\ payments[job[i]] # "none"
  /\ End(i)
  /\ UNCHANGED <<committed, deliveries, faults>>

\* rand.Float32() < 0.10, then Begin.
Draw(i) ==
  /\ \E d \in {"processed", "failed"} : outcome' = [outcome EXCEPT ![i] = d]
  /\ pc' = [pc EXCEPT ![i] = "insert"]
  /\ UNCHANGED <<committed, job, deliveries>>

\* The SELECT finds nothing.
PassGuard(i) ==
  /\ pc[i] = "guard"
  /\ payments[job[i]] = "none"
  /\ Draw(i)
  /\ UNCHANGED faults

\* The SELECT fails and its error is dropped: existing stays empty, as if
\* there were no payment.
GuardFails(i) ==
  /\ pc[i] = "guard"
  /\ faults < MaxFaults
  /\ faults' = faults + 1
  /\ Draw(i)

\* j has inserted the payment of o and not ended its transaction.
HasInserted(j, o) == pc[j] = "commit" /\ job[j] = o

\* Mutant: no UNIQUE key, so nothing to wait for.
KeyFreeAlways(o) == TRUE

\* No transaction that is under way has inserted the key of o.
KeyFree(o) == \A j \in Instance : ~HasInserted(j, o)

\* INSERT INTO payments, and INSERT INTO outbox_events in the same
\* transaction.
Insert(i) ==
  /\ pc[i] = "insert"
  /\ KeyFree(job[i])
  /\ payments[job[i]] = "none"
  /\ pc' = [pc EXCEPT ![i] = "commit"]
  /\ UNCHANGED <<committed, job, outcome, deliveries, faults>>

\* Mutant: the INSERT does not wait (NOWAIT): a key in use is an error.
ConflictImpatient(i) ==
  /\ pc[i] = "insert"
  /\ ~KeyFree(job[i]) \/ payments[job[i]] # "none"
  /\ End(i)
  /\ UNCHANGED <<committed, deliveries, faults>>

\* Mutant: the unique violation is retried as if it would go away.
ConflictRetried(i) ==
  /\ pc[i] = "insert"
  /\ payments[job[i]] # "none"
  /\ UNCHANGED vars

\* The INSERT runs into a committed payment: unique violation.
Conflict(i) ==
  /\ pc[i] = "insert"
  /\ payments[job[i]] # "none"
  /\ End(i)
  /\ UNCHANGED <<committed, deliveries, faults>>

EventOf(d) == IF d = "processed" THEN "payment.processed" ELSE "payment.failed"

\* Mutant: the outbox row is not part of the transaction.
CommitSilently(i) ==
  /\ pc[i] = "commit"
  /\ payments' = [payments EXCEPT ![job[i]] = outcome[i]]
  /\ End(i)
  /\ UNCHANGED <<events, deliveries, faults>>

\* The payment and its event are committed, whether or not the instance is
\* told so: an error of COMMIT changes only what is logged.
Commit(i) ==
  /\ pc[i] = "commit"
  /\ payments' = [payments EXCEPT ![job[i]] = outcome[i]]
  /\ events' = [events EXCEPT ![job[i]] = @ \cup {EventOf(outcome[i])}]
  /\ End(i)
  /\ UNCHANGED <<deliveries, faults>>

\* A statement fails or the instance stops, before COMMIT.
Abort(i) ==
  /\ pc[i] # "idle"
  /\ faults < MaxFaults
  /\ faults' = faults + 1
  /\ End(i)
  /\ UNCHANGED <<committed, deliveries>>

\* compensateFulfillmentFailed, for an order that was shipped because
\* payment.processed was announced: the UPDATE looks at no status.
RefundPayment(o) ==
  /\ "payment.processed" \in events[o]
  /\ payments' = [payments EXCEPT ![o] = "refunded"]
  /\ UNCHANGED <<events, pc, job, outcome, deliveries, faults>>

-----------------------------------------------------------------------------
Working(i) ==
  FindPayment(i) \/ PassGuard(i) \/ Insert(i) \/ Conflict(i) \/ Commit(i)

Next ==
  \/ \E i \in Instance :
       \/ Working(i) \/ GuardFails(i) \/ Abort(i)
       \/ \E o \in Order : Begin(i, o)
  \/ \E o \in Order : RefundPayment(o)

Spec == Init /\ [][Next]_vars

\* The server runs every statement that need not wait, and hands the key to
\* who waits for it.
FairSpec == Spec /\ \A i \in Instance : SF_vars(Working(i))

-----------------------------------------------------------------------------
\* The payments row and the payment events agree, although the instances draw
\* different outcomes for one order: it is charged or declined, and what is
\* announced is what was committed.
EventsMatchPayments ==
  \A o \in Order :
    events[o] = CASE payments[o] = "none"   -> {}
                  [] payments[o] = "failed" -> {"payment.failed"}
                  [] OTHER                  -> {"payment.processed"}

\* A delivery that meets no fault leaves its order decided: the instance that
\* gives way to another one gives way to a payment that is there, not to one
\* that may still be rolled back.  The message is committed after it.
DeliveryDecides ==
  [][\A i \in Instance :
       pc[i] # "idle" /\ pc'[i] = "idle" /\ faults' = faults =>
         payments'[job[i]] # "none"]_vars

\* Nobody waits for the key for ever.
DeliveriesEnd == \A i \in Instance : pc[i] # "idle" ~> pc[i] = "idle"

\* The race is settled as Saga has it: one charge or decline for each order,
\* and only a charge is refunded.
Ledger == INSTANCE PaymentLedger WITH ledger <- payments
LedgerSpec == Ledger!Spec

=============================================================================
