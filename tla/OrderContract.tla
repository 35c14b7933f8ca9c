---------------------------- MODULE OrderContract ----------------------------
(***************************************************************************)
(* What the customer is promised: an order that is completed or failed     *)
(* stays so; it is completed only while its money is held, and the money   *)
(* held for an order goes back in the very step that fails it.  Saga       *)
(* implements it as long as no message is handled twice.                   *)
(***************************************************************************)
CONSTANT Order

VARIABLES
  status,  \* status[o]: "none", "pending", "completed" or "failed"
  money    \* money[o]: "none", "held" or "returned"

contract == <<status, money>>

Init ==
  /\ status = [o \in Order |-> "none"]
  /\ money = [o \in Order |-> "none"]

Accept(o) ==
  /\ status[o] = "none"
  /\ status' = [status EXCEPT ![o] = "pending"]
  /\ UNCHANGED money

Charge(o) ==
  /\ status[o] = "pending" /\ money[o] = "none"
  /\ money' = [money EXCEPT ![o] = "held"]
  /\ UNCHANGED status

Complete(o) ==
  /\ status[o] = "pending" /\ money[o] = "held"
  /\ status' = [status EXCEPT ![o] = "completed"]
  /\ UNCHANGED money

Fail(o) ==
  /\ status[o] = "pending"
  /\ status' = [status EXCEPT ![o] = "failed"]
  /\ money' = [money EXCEPT ![o] = IF @ = "held" THEN "returned" ELSE @]

Next == \E o \in Order : Accept(o) \/ Charge(o) \/ Complete(o) \/ Fail(o)

Spec == Init /\ [][Next]_contract

=============================================================================
