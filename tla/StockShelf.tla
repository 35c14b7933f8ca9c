----------------------------- MODULE StockShelf -----------------------------
(***************************************************************************)
(* What the stock tables promise: an order takes its line items off the    *)
(* shelf in one go, as many as fit one after the other, and gives back all *)
(* it holds in one go.  An order that has asked twice may keep some of it, *)
(* or give back less than it no longer holds: that much is lost.  Line     *)
(* items may ask for less than nothing and so put pieces on the shelf,     *)
(* which giving back takes off again whether or not they are still there;  *)
(* if the order has asked twice, nothing is promised of that SKU.          *)
(***************************************************************************)
EXTENDS Integers, Sequences

CONSTANTS
  Order, Sku,
  Stocked,  \* the SKUs that can be taken at all
  Items, Stock0

VARIABLES
  shelf,  \* shelf[s]: how much of SKU s can be sold
  held,   \* held[o][s]: how much of it order o holds
  asked   \* asked[o]: how often o has asked for its line items

Init ==
  /\ shelf = Stock0
  /\ held = [o \in Order |-> [s \in Sku |-> 0]]
  /\ asked = [o \in Order |-> 0]

Ask(o) ==
  /\ asked' = [asked EXCEPT ![o] = @ + 1]
  /\ UNCHANGED <<shelf, held>>

\* How much of SKU s the first n line items of o ask for.
Asked(o, n, s) ==
  LET sum[i \in 0 .. n] ==
        IF i = 0 THEN 0
        ELSE sum[i - 1] + (IF Items[o][i].sku = s THEN Items[o][i].qty ELSE 0)
  IN sum[n]

\* o lists s with a quantity below 0.
Negative(o, s) ==
  \E i \in DOMAIN Items[o] : Items[o][i].sku = s /\ Items[o][i].qty < 0

\* The i-th line item of o fits when those before it are taken.
FitsAfter(o, i) ==
  LET s == Items[o][i].sku IN s \in Stocked /\ Asked(o, i, s) <= shelf[s]

Take(o) ==
  \E n \in 0 .. Len(Items[o]) :
    /\ \A i \in 1 .. n : FitsAfter(o, i)
    /\ shelf' = [s \in Sku |-> shelf[s] - Asked(o, n, s)]
    /\ held' = [held EXCEPT ![o] = [s \in Sku |-> @[s] + Asked(o, n, s)]]
    /\ UNCHANGED asked

GiveBack(o) ==
  /\ asked[o] <= 1
  /\ shelf' = [s \in Sku |-> shelf[s] + held[o][s]]
  /\ held' = [held EXCEPT ![o] = [s \in Sku |-> 0]]
  /\ UNCHANGED asked

GiveBackLess(o) ==
  /\ asked[o] > 1
  /\ held' = [held EXCEPT ![o] = held'[o]]
  /\ \A s \in Sku :
       ~Negative(o, s) =>
         /\ held'[o][s] \in 0 .. held[o][s]
         /\ shelf'[s] - shelf[s] \in 0 .. (held[o][s] - held'[o][s])
  /\ UNCHANGED asked

Next == \E o \in Order : Ask(o) \/ Take(o) \/ GiveBack(o) \/ GiveBackLess(o)

Spec == Init /\ [][Next]_<<shelf, held, asked>>

=============================================================================
