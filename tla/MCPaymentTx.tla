----------------------------- MODULE MCPaymentTx -----------------------------
(* Three instances race for the payments of two orders.                     *)
EXTENDS PaymentTx
CONSTANTS o1, o2, i1, i2, i3
=============================================================================
