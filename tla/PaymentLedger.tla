---------------------------- MODULE PaymentLedger ----------------------------
(***************************************************************************)
(* What the payments table promises whatever Kafka does with the messages: *)
(* an order is charged or declined once, and only a charge is refunded,    *)
(* once and for good.  Saga implements it for every number of lost         *)
(* handlers, duplicates and redeliveries.                                  *)
(***************************************************************************)
CONSTANT Order

VARIABLE ledger  \* ledger[o]: "none", "processed", "failed" or "refunded"

Init == ledger = [o \in Order |-> "none"]

Move(o, from, to) ==
  /\ ledger[o] = from
  /\ ledger' = [ledger EXCEPT ![o] = to]

Charge(o)  == Move(o, "none", "processed")
Decline(o) == Move(o, "none", "failed")
Refund(o)  == Move(o, "processed", "refunded")

Next == \E o \in Order : Charge(o) \/ Decline(o) \/ Refund(o)

Spec == Init /\ [][Next]_ledger

=============================================================================
