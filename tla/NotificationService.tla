------------------------- MODULE NotificationService -------------------------
(***************************************************************************)
(* The consumer that tells the customer how the order ended                *)
(* (cmd/notification-service).  It writes no table: what it sends is gone  *)
(* for good, so what is kept here is which notices each customer has seen. *)
(***************************************************************************)
EXTENDS SagaState

VARIABLE notified  \* notified[o]: the kinds of notice sent about o

NotificationInit == notified = [o \in Order |-> {}]

NotificationTypeOK == notified \in [Order -> SUBSET {"success", "failure"}]

\* Mutant: the customer of a failed order hears nothing.
NotificationHandlerSuccessOnly(o, e) ==
  notified' = [notified EXCEPT ![o] = @ \cup
                 (IF e = "order.completed" THEN {"success"} ELSE {})]

\* makeHandler and sendNotification: a notice for the two final events of
\* the order, nothing for the other events of the topic.
NotificationHandler(o, e) ==
  notified' = [notified EXCEPT ![o] = @ \cup
                 (CASE e = "order.completed" -> {"success"}
                    [] e = "order.failed"    -> {"failure"}
                    [] OTHER                 -> {})]

=============================================================================
