------------------------------ MODULE MCStockTx ------------------------------
(* Two orders that list the same two SKUs in opposite order.  The second    *)
(* asks for less than nothing of a, is delivered twice and compensated      *)
(* twice, and the stock of b is too short for all deliveries.               *)
EXTENDS StockTx
CONSTANTS o1, o2, a, b, r1, r2, c1, c2
MCStock0 == [s \in Sku |-> IF s = a THEN 1 ELSE 2]
MCItems ==
  [o \in Order |->
     IF o = o1 THEN <<[sku |-> a, qty |-> 2], [sku |-> b, qty |-> 1]>>
               ELSE <<[sku |-> b, qty |-> 1], [sku |-> a, qty |-> -1]>>]
MCTimes == [o \in Order |-> IF o = o1 THEN 1 ELSE 2]
=============================================================================
