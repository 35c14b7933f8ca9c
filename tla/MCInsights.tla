----------------------------- MODULE MCInsights -----------------------------
(* Two of the three loops, with messages about an order whose shipping      *)
(* failed; payment.processed was published twice.                           *)
EXTENDS Insights
CONSTANT o1
MCLoop == {"payment-events", "saga-events"}
MCMessage(t) == [type |-> t, order |-> o1]
MCInbox ==
  [l \in MCLoop |->
     IF l = "payment-events"
     THEN <<MCMessage("payment.processed"), MCMessage("payment.processed")>>
     ELSE <<MCMessage("payment.refunded"), MCMessage("order.failed")>>]
=============================================================================
