---------------------------- MODULE StockTxProofs ----------------------------
(***************************************************************************)
(* The row locks keep the stock from being oversold and the reservations   *)
(* from being released twice, for any orders, line items and workers, the  *)
(* line items that ask for nothing or for less than nothing included.      *)
(*                                                                         *)
(* A second invariant says what each transaction has done so far: what it  *)
(* took from the shelf and put back adds up with what it has inserted and  *)
(* released.  It gives that no stock is made or lost, and that every       *)
(* transaction takes effect at once.  Both are about sums, over the orders *)
(* and over the line items of an order, which StockTx and StockShelf       *)
(* define by recursion.  What they add up to is proved by looking at a     *)
(* smallest set, or number, of which it would not be true: the induction   *)
(* theorems of the library have an operator as a parameter, WFMin has not. *)
(*                                                                         *)
(* The last part is about waiting: who waits for a lock waits for a        *)
(* transaction that can go on, or for a circle the server breaks.          *)
(***************************************************************************)
EXTENDS StockTx, FiniteSetTheorems, WellFoundedInduction, TLAPS

\* Who has changed a row of inventory_stock holds its lock.
ChangesAreLocked ==
  \A w \in Worker, s \in Sku : delta[w][s] # 0 => stockLock[s] = w

\* An order that listed s with a quantity below 0 has been compensated, or is
\* being so: what it put on the shelf is taken off unchecked.
Undone(s) == \E o \in Order : Shelf!Negative(o, s) /\ failures[o] > 0

\* Without that there is as much on the shelf as everybody takes.
NothingOversold ==
  \A s \in Sku :
    ~Undone(s) => stock[s] >= 0 /\ \A w \in Worker : Seen(w, s) >= 0

\* What an order may hold of a SKU, by the line items it has.
Bookable(o, s, n) ==
  /\ n # 0 => s \in InCart(o)
  /\ n < 0 => Shelf!Negative(o, s)

\* What is reserved, and what a worker has inserted, listed or released.
BooksFollowCarts ==
  /\ \A o \in Order, s \in Sku : Bookable(o, s, reserved[o][s])
  /\ \A w \in Worker, s \in Sku :
       /\ pc[w] = "idle" => rows[w][s] = 0 /\ list[w][s] = 0
       /\ pc[w] # "idle" => /\ Bookable(job[w], s, rows[w][s])
                            /\ Bookable(job[w], s, list[w][s])

\* A compensation that is past its first UPDATE holds the lock of its saga,
\* so nobody else releases the reservations of its order.
ReleasesAreLocked ==
  \A w \in Compensator :
    /\ pc[w] \in {"select", "restock", "done"} => sagaLock[job[w]] = w
    /\ pc[w] = "done" =>
         \A s \in Sku : \/ Shelf!Negative(job[w], s)
                        \/ rows[w][s] <= reserved[job[w]][s]

\* Who works works on an order, a reserver on one of its line items and a
\* compensator on one that has failed.
JobsAreOrders ==
  \A w \in Worker :
    /\ pc[w] # "idle" => job[w] \in Order
    /\ pc[w] = "take" => item[w] \in 1 .. Len(Items[job[w]])
    /\ pc[w] \in {"take", "full", "short"} => w \in Reserver
    /\ pc[w] \in {"saga", "select", "restock", "done"} =>
         w \in Compensator /\ failures[job[w]] > 0

\* A compensation has still to come to what it has not put back.
WalksAreComplete ==
  \A w \in Compensator, s \in Sku :
    pc[w] = "restock" /\ list[w][s] # 0 =>
      \E i \in 1 .. Len(queue[w]) : queue[w][i] = s

\* The inductive invariant.
IInv ==
  /\ TypeOK
  /\ ChangesAreLocked
  /\ NothingOversold
  /\ BooksFollowCarts
  /\ ReleasesAreLocked
  /\ JobsAreOrders
  /\ WalksAreComplete

-----------------------------------------------------------------------------
LEMMA ZeroIsInt == Zero \in [Sku -> Int] /\ \A s \in Sku : Zero[s] = 0
BY DEF Zero

\* A cart is a list of line items.
LEMMA CartIsList ==
  ASSUME NEW o \in Order
  PROVE  /\ Items[o] \in Seq([sku : Sku, qty : Int]) /\ Items[o] # <<>>
         /\ Len(Items[o]) \in Nat /\ DOMAIN Items[o] = 1 .. Len(Items[o])
         /\ \A i \in 1 .. Len(Items[o]) :
              /\ Items[o][i].sku \in Sku /\ Items[o][i].qty \in Int
              /\ Items[o][i].sku \in InCart(o)
              /\ Items[o][i].qty < 0 => Shelf!Negative(o, Items[o][i].sku)
         /\ InCart(o) \subseteq Sku
<1> DEFINE LineItem == [sku : Sku, qty : Int]
<1>1. Items[o] \in Seq(LineItem) /\ Items[o] # <<>>
  BY StockAssumption
<1>2. \A l \in LineItem : l.sku \in Sku /\ l.qty \in Int
  OBVIOUS
<1> HIDE DEF LineItem
<1>3. /\ Len(Items[o]) \in Nat /\ DOMAIN Items[o] = 1 .. Len(Items[o])
      /\ \A i \in 1 .. Len(Items[o]) : Items[o][i] \in LineItem
  BY <1>1
<1> QED
  BY <1>1, <1>2, <1>3 DEF LineItem, InCart, Shelf!Negative

\* A line item asks for some quantity of a SKU.
LEMMA LineIsItem ==
  ASSUME IInv, NEW w \in Worker, pc[w] = "take"
  PROVE  /\ Line(w).sku \in Sku /\ Line(w).qty \in Int
         /\ Line(w).sku \in InCart(job[w])
         /\ Line(w).qty < 0 => Shelf!Negative(job[w], Line(w).sku)
         /\ Len(Items[job[w]]) \in Nat
         /\ w \in Reserver
<1>1. job[w] \in Order /\ item[w] \in 1 .. Len(Items[job[w]]) /\ w \in Reserver
  BY DEF IInv, JobsAreOrders
<1> QED
  BY <1>1, CartIsList DEF Line

\* The quantities of one order and SKU add up to one it may hold.
LEMMA BookableSum ==
  ASSUME NEW o, NEW s, NEW m \in Int, NEW n \in Int,
         Bookable(o, s, m), Bookable(o, s, n)
  PROVE  Bookable(o, s, m + n)
BY DEF Bookable

LEMMA InitEstablishes == Init => IInv
<1> SUFFICES ASSUME Init
             PROVE  IInv
  OBVIOUS
<1>1. TypeOK
  BY StockAssumption, ZeroIsInt DEF Init, TypeOK
<1>2. ChangesAreLocked
  BY ZeroIsInt DEF Init, ChangesAreLocked
<1>3. NothingOversold
  BY StockAssumption, ZeroIsInt DEF Init, NothingOversold, Seen
<1>4. BooksFollowCarts
  BY ZeroIsInt DEF Init, BooksFollowCarts, Bookable
<1>5. ReleasesAreLocked /\ JobsAreOrders /\ WalksAreComplete
  BY DEF Init, ReleasesAreLocked, JobsAreOrders, WalksAreComplete, Worker
<1> QED
  BY <1>1, <1>2, <1>3, <1>4, <1>5 DEF IInv

-----------------------------------------------------------------------------
(* One lemma for each kind of action                                       *)

\* Steps that take nothing and put nothing back.
LEMMA ShelfQuiet ==
  ASSUME IInv, UNCHANGED <<stock, delta>>,
         failures' \in [Order -> Nat], \A o \in Order : failures[o] <= failures'[o]
  PROVE  NothingOversold'
<1> SUFFICES ASSUME NEW s \in Sku, ~Undone(s)'
             PROVE  stock'[s] >= 0 /\ \A w \in Worker : stock'[s] + delta'[w][s] >= 0
  BY DEF NothingOversold, Seen
<1>1. ~Undone(s)
  BY DEF Undone, IInv, TypeOK
<1> QED
  BY <1>1 DEF IInv, NothingOversold, Seen

\* The statements that only move a worker on.
LEMMA BeginReserveKeeps ==
  ASSUME IInv, NEW w \in Reserver, NEW o \in Order, BeginReserve(w, o)
  PROVE  IInv'
<1> USE DEF IInv
<1>0. w \in Worker /\ w \notin Compensator /\ o # NoOne
  BY StockAssumption DEF Worker
<1>1. Len(Items[o]) \in Nat /\ 1 \in 1 .. Len(Items[o])
  BY CartIsList
<1>2. TypeOK'
  <2>1. deliveries[o] \in Nat /\ MaxDeliveries \in [Order -> Nat] /\ deliveries[o] < MaxDeliveries[o]
    BY StockAssumption DEF TypeOK, BeginReserve
  <2>2. deliveries' \in [Order -> Nat]
        /\ \A p \in Order : deliveries'[p] = IF p = o THEN deliveries[o] + 1 ELSE deliveries[p]
    BY <2>1 DEF TypeOK, BeginReserve
  <2>4. \A p \in Order : deliveries[p] <= MaxDeliveries[p]
    BY DEF TypeOK
  <2>5. MaxDeliveries[o] \in Nat
    BY <2>1
  <2>6. \A p \in Order : deliveries'[p] <= MaxDeliveries[p]
    BY <2>1, <2>2, <2>4, <2>5
  <2>3. /\ job' \in [Worker -> Order \cup {NoOne}] /\ item' \in [Worker -> Nat]
        /\ pc' \in [Worker -> {"idle", "take", "full", "short", "saga", "select",
                               "restock", "done"}]
        /\ \A v \in Worker : pc'[v] = "idle" <=> job'[v] = NoOne
    BY <1>0 DEF TypeOK, BeginReserve
  <2> QED
    BY <2>2, <2>3, <2>6 DEF TypeOK, BeginReserve, committed, locks
<1>3. ChangesAreLocked'
  BY DEF ChangesAreLocked, BeginReserve, committed, locks
<1>4. ReleasesAreLocked' /\ WalksAreComplete'
  <2>1. \A v \in Compensator : v \in Worker /\ v # w
    BY <1>0 DEF Worker
  <2>2. \A v \in Compensator : pc'[v] = pc[v] /\ job'[v] = job[v]
    BY <2>1 DEF TypeOK, BeginReserve
  <2> QED
    BY <2>2 DEF ReleasesAreLocked, WalksAreComplete, BeginReserve, committed, locks
<1>5. JobsAreOrders'
  BY <1>0, <1>1 DEF TypeOK, JobsAreOrders, BeginReserve
<1>6. NothingOversold'
  BY ShelfQuiet DEF BeginReserve, committed, TypeOK
<1>7. BooksFollowCarts'
  <2>1. \A s \in Sku : rows[w][s] = 0 /\ list[w][s] = 0
    BY <1>0 DEF BooksFollowCarts, BeginReserve
  <2>2. \A v \in Worker : v # w => pc'[v] = pc[v] /\ job'[v] = job[v]
    BY DEF TypeOK, BeginReserve
  <2>3. pc'[w] = "take" /\ job'[w] = o
    BY <1>0 DEF TypeOK, BeginReserve
  <2>4. \A s \in Sku : Bookable(o, s, 0)
    BY DEF Bookable
  <2>5. UNCHANGED <<rows, list, reserved>>
    BY DEF BeginReserve, committed
  <2>6. ASSUME NEW v \in Worker, NEW s \in Sku
        PROVE  /\ pc'[v] = "idle" => rows[v][s] = 0 /\ list[v][s] = 0
               /\ pc'[v] # "idle" => /\ Bookable(job'[v], s, rows[v][s])
                                     /\ Bookable(job'[v], s, list[v][s])
    <3>1. CASE v = w
      BY <2>1, <2>3, <2>4, <3>1
    <3>2. CASE v # w
      BY <2>2, <3>2 DEF BooksFollowCarts
    <3> QED
      BY <3>1, <3>2
  <2> QED
    BY <2>5, <2>6 DEF BooksFollowCarts, Bookable
<1> QED
  BY <1>2, <1>3, <1>4, <1>5, <1>6, <1>7

LEMMA TakeItemKeeps ==
  ASSUME IInv, NEW w \in Reserver, TakeItem(w)
  PROVE  IInv'
<1> USE DEF IInv
<1>0. w \in Worker /\ w \notin Compensator /\ pc[w] = "take"
  BY StockAssumption DEF Worker, TakeItem
<1> DEFINE s == Line(w).sku
           q == Line(w).qty
<1>1. /\ s \in Sku /\ q \in Int /\ Len(Items[job[w]]) \in Nat
      /\ Bookable(job[w], s, q)
  BY <1>0, LineIsItem DEF Bookable
<1>2. /\ stockLock[s] \in {NoOne, w} /\ stock[s] + delta[w][s] >= q
      /\ stockLock' = [stockLock EXCEPT ![s] = w]
      /\ delta' = [delta EXCEPT ![w][s] = @ - q]
      /\ rows' = [rows EXCEPT ![w][s] = @ + q]
      /\ item' = [item EXCEPT ![w] = @ + 1]
      /\ pc' = [pc EXCEPT ![w] = IF item[w] = Len(Items[job[w]]) THEN "full" ELSE "take"]
      /\ UNCHANGED <<committed, deliveries, failures, job, list, queue, sagaLock>>
  BY DEF TakeItem, Free, Fits, Seen
<1> HIDE DEF s, q
<1>3. TypeOK'
  <2>1. /\ stockLock' \in [Sku -> Worker \cup {NoOne}] /\ item' \in [Worker -> Nat]
        /\ delta' \in [Worker -> [Sku -> Int]] /\ rows' \in [Worker -> [Sku -> Int]]
    BY <1>0, <1>1, <1>2 DEF TypeOK
  <2>2. pc' \in [Worker -> {"idle", "take", "full", "short", "saga", "select",
                           "restock", "done"}]
    BY <1>2 DEF TypeOK
  <2>3. \A v \in Worker : pc'[v] = "idle" <=> job[v] = NoOne
    BY <1>0, <1>2 DEF TypeOK
  <2> QED
    BY <1>2, <2>1, <2>2, <2>3 DEF TypeOK, committed
<1>4. ChangesAreLocked'
  <2> SUFFICES ASSUME NEW v \in Worker, NEW r \in Sku, delta'[v][r] # 0
               PROVE  stockLock'[r] = v
    BY DEF ChangesAreLocked
  <2>1. CASE v = w /\ r = s
    BY <1>0, <1>1, <1>2, <2>1 DEF TypeOK
  <2>2. CASE v # w /\ r = s
    <3>1. delta[v][s] = 0
      BY <1>1, <1>2, <2>2, StockAssumption DEF ChangesAreLocked
    <3> QED
      BY <1>0, <1>1, <1>2, <2>2, <3>1 DEF TypeOK
  <2>3. CASE r # s
    BY <1>0, <1>1, <1>2, <2>3 DEF TypeOK, ChangesAreLocked
  <2> QED
    BY <2>1, <2>2, <2>3
<1>5. NothingOversold'
  <2> SUFFICES ASSUME NEW r \in Sku, ~Undone(r)', NEW v \in Worker
               PROVE  stock[r] >= 0 /\ stock[r] + delta'[v][r] >= 0
    BY <1>0, <1>2 DEF NothingOversold, Seen, committed
  <2>1. ~Undone(r)
    BY <1>2 DEF Undone
  <2>2. stock[r] >= 0 /\ stock[r] + delta[v][r] >= 0
    BY <2>1 DEF NothingOversold, Seen
  <2>3. CASE v = w /\ r = s
    BY <1>0, <1>1, <1>2, <2>2, <2>3 DEF TypeOK
  <2>4. CASE v # w \/ r # s
    BY <1>0, <1>1, <1>2, <2>2, <2>4 DEF TypeOK
  <2> QED
    BY <2>3, <2>4
<1>6. BooksFollowCarts'
  <2>1. /\ \A v \in Worker : pc'[v] = "idle" <=> pc[v] = "idle"
        /\ pc[w] # "idle"
    BY <1>0, <1>2 DEF TypeOK
  <2>2. /\ \A v \in Worker, r \in Sku : v # w \/ r # s => rows'[v][r] = rows[v][r]
        /\ rows'[w][s] = rows[w][s] + q /\ rows[w][s] \in Int
    BY <1>0, <1>1, <1>2 DEF TypeOK
  <2>3. Bookable(job[w], s, rows'[w][s])
    BY <1>0, <1>1, <2>1, <2>2, BookableSum DEF BooksFollowCarts
  <2> QED
    BY <1>2, <2>1, <2>2, <2>3 DEF BooksFollowCarts, committed
<1>7. ReleasesAreLocked' /\ WalksAreComplete'
  <2>1. \A v \in Compensator : v \in Worker /\ v # w
    BY <1>0 DEF Worker
  <2>2. \A v \in Compensator : pc'[v] = pc[v] /\ rows'[v] = rows[v]
    BY <1>2, <2>1 DEF TypeOK
  <2>3. UNCHANGED <<job, list, queue, sagaLock, reserved>>
    BY <1>2 DEF committed
  <2> QED
    BY <2>2, <2>3 DEF ReleasesAreLocked, WalksAreComplete
<1>8. JobsAreOrders'
  <2> SUFFICES ASSUME NEW v \in Worker
               PROVE  /\ pc'[v] # "idle" => job[v] \in Order
                      /\ pc'[v] = "take" => item'[v] \in 1 .. Len(Items[job[v]])
                      /\ pc'[v] \in {"take", "full", "short"} => v \in Reserver
                      /\ pc'[v] \in {"saga", "select", "restock", "done"} =>
                           v \in Compensator /\ failures[job[v]] > 0
    BY <1>2 DEF JobsAreOrders
  <2>1. CASE v = w
    <3>1. /\ item[w] \in 1 .. Len(Items[job[w]]) /\ job[w] \in Order
          /\ item'[w] = item[w] + 1 /\ item[w] \in Nat
          /\ pc'[w] = IF item[w] = Len(Items[job[w]]) THEN "full" ELSE "take"
      BY <1>0, <1>2 DEF TypeOK, JobsAreOrders
    <3> QED
      BY <1>0, <1>1, <2>1, <3>1
  <2>2. CASE v # w
    BY <1>2, <2>2 DEF TypeOK, JobsAreOrders
  <2> QED
    BY <2>1, <2>2
<1> QED
  BY <1>3, <1>4, <1>5, <1>6, <1>7, <1>8

\* Steps that change nothing but where a worker is and what it has listed.
LEMMA MoveKeeps ==
  ASSUME IInv, NEW w \in Worker, NEW k \in {"short", "select", "restock"},
         pc[w] # "idle",
         w \in (IF k = "short" THEN Reserver ELSE Compensator),
         k # "short" => failures[job[w]] > 0,
         pc' = [pc EXCEPT ![w] = k],
         list' \in [Worker -> [Sku -> Int]], queue' \in [Worker -> Seq(Sku)],
         \A v \in Worker \ {w} : list'[v] = list[v] /\ queue'[v] = queue[v],
         \A s \in Sku : Bookable(job[w], s, list'[w][s]),
         k = "restock" => \A s \in Sku : list'[w][s] # 0 =>
                            \E i \in 1 .. Len(queue'[w]) : queue'[w][i] = s,
         UNCHANGED <<committed, deliveries, failures, job, item, delta, rows, stockLock>>,
         sagaLock' \in [Order -> Worker \cup {NoOne}],
         \A o \in Order : sagaLock'[o] = sagaLock[o]
                            \/ (sagaLock[o] \in {NoOne, w} /\ sagaLock'[o] = w),
         k # "short" => sagaLock'[job[w]] = w
  PROVE  IInv'
<1> USE DEF IInv
<1>0. \A v \in Worker : pc'[v] = IF v = w THEN k ELSE pc[v]
  BY DEF TypeOK
<1>1. TypeOK'
  BY <1>0 DEF TypeOK, committed
<1>2. ChangesAreLocked'
  BY DEF ChangesAreLocked
<1>3. JobsAreOrders'
  BY <1>0 DEF JobsAreOrders
<1>4. ReleasesAreLocked'
  <2> SUFFICES ASSUME NEW v \in Compensator, pc'[v] \in {"select", "restock", "done"}
               PROVE  /\ sagaLock'[job[v]] = v
                      /\ pc'[v] = "done" => \A s \in Sku :
                           \/ Shelf!Negative(job[v], s)
                           \/ rows[v][s] <= reserved[job[v]][s]
    BY DEF ReleasesAreLocked, committed
  <2>1. CASE v = w
    BY <2>1 DEF TypeOK
  <2>2. CASE v # w
    <3>1. pc[v] = pc'[v] /\ v \in Worker /\ v # NoOne
      BY <2>2, StockAssumption DEF TypeOK, Worker
    <3>2. sagaLock[job[v]] = v /\ job[v] \in Order
      BY <3>1 DEF ReleasesAreLocked, JobsAreOrders
    <3> QED
      BY <2>2, <3>1, <3>2 DEF ReleasesAreLocked
  <2> QED
    BY <2>1, <2>2
<1>5. NothingOversold'
  BY ShelfQuiet DEF TypeOK, committed
<1>6. BooksFollowCarts'
  <2>1. UNCHANGED <<rows, reserved, job>>
    BY DEF committed
  <2>2. ASSUME NEW v \in Worker, NEW s \in Sku
        PROVE  /\ pc'[v] = "idle" => rows[v][s] = 0 /\ list'[v][s] = 0
               /\ pc'[v] # "idle" => /\ Bookable(job[v], s, rows[v][s])
                                     /\ Bookable(job[v], s, list'[v][s])
    <3>1. CASE v = w
      BY <1>0, <3>1 DEF BooksFollowCarts
    <3>2. CASE v # w
      BY <1>0, <3>2 DEF BooksFollowCarts
    <3> QED
      BY <3>1, <3>2
  <2> QED
    BY <2>1, <2>2 DEF BooksFollowCarts, Bookable
<1>7. WalksAreComplete'
  <2> SUFFICES ASSUME NEW v \in Compensator, NEW s \in Sku,
                      pc'[v] = "restock", list'[v][s] # 0
               PROVE  \E i \in 1 .. Len(queue'[v]) : queue'[v][i] = s
    BY DEF WalksAreComplete
  <2>1. CASE v = w
    BY <1>0, <2>1
  <2>2. CASE v # w
    <3>1. v \in Worker /\ pc[v] = "restock" /\ list'[v] = list[v] /\ queue'[v] = queue[v]
      BY <1>0, <2>2 DEF Worker
    <3> QED
      BY <3>1 DEF WalksAreComplete
  <2> QED
    BY <2>1, <2>2
<1> QED
  BY <1>1, <1>2, <1>3, <1>4, <1>5, <1>6, <1>7


\* The end of a transaction, committed or not.
LEMMA EndTxKeeps ==
  ASSUME IInv, NEW w \in Worker, pc[w] # "idle", EndTx(w),
         stock' \in {stock, Plus(stock, delta[w])},
         reserved' \in [Order -> [Sku -> Int]],
         \A o \in Order, s \in Sku : Bookable(o, s, reserved'[o][s]),
         answered' \in [Order -> SUBSET {"inventory.reserved", "inventory.reserve_failed"}],
         UNCHANGED <<deliveries, failures>>,
         \A v \in Compensator \ {w}, s \in Sku :
           pc[v] = "done" => \/ Shelf!Negative(job[v], s)
                             \/ reserved'[job[v]][s] >= reserved[job[v]][s]
  PROVE  IInv'
<1> USE DEF IInv
<1>0. NoOne \notin Worker
  BY StockAssumption
<1>1. /\ stock' \in [Sku -> Int]
      /\ \A s \in Sku : stock'[s] = stock[s] \/ stock'[s] = Seen(w, s)
      /\ \A s \in Sku : delta[w][s] = 0 => stock'[s] = stock[s]
  <2>1. stock \in [Sku -> Int] /\ \A s \in Sku : delta[w][s] \in Int
    BY DEF TypeOK
  <2>2. CASE stock' = stock
    BY <2>1, <2>2
  <2>3. CASE stock' = Plus(stock, delta[w])
    BY <2>1, <2>3 DEF Seen, Plus
  <2> QED
    BY <2>2, <2>3
<1>2. \A v \in Worker : v # w => /\ pc'[v] = pc[v] /\ job'[v] = job[v] /\ item'[v] = item[v]
                                 /\ delta'[v] = delta[v] /\ rows'[v] = rows[v]
                                 /\ list'[v] = list[v] /\ queue'[v] = queue[v]
  BY DEF EndTx, TypeOK
<1>3. /\ pc'[w] = "idle" /\ delta'[w] = Zero /\ rows'[w] = Zero /\ list'[w] = Zero
  BY DEF EndTx, TypeOK
<1>4. TypeOK'
  <2>1. NoOne \notin Order
    BY StockAssumption
  <2>2. <<>> \in Seq(Sku)
    OBVIOUS
  <2>3. /\ pc' \in [Worker -> {"idle", "take", "full", "short", "saga", "select",
                               "restock", "done"}]
        /\ job' \in [Worker -> Order \cup {NoOne}] /\ item' \in [Worker -> Nat]
        /\ list' \in [Worker -> [Sku -> Int]] /\ queue' \in [Worker -> Seq(Sku)]
        /\ delta' \in [Worker -> [Sku -> Int]] /\ rows' \in [Worker -> [Sku -> Int]]
    BY <2>2, ZeroIsInt DEF TypeOK, EndTx
  <2>4. \A v \in Worker : pc'[v] = "idle" <=> job'[v] = NoOne
    BY <2>1 DEF TypeOK, EndTx
  <2>5. /\ stockLock' \in [Sku -> Worker \cup {NoOne}]
        /\ sagaLock' \in [Order -> Worker \cup {NoOne}]
    BY DEF TypeOK, EndTx
  <2> QED
    BY <1>1, <2>3, <2>4, <2>5 DEF TypeOK
<1>5. ChangesAreLocked'
  BY <1>2, <1>3, ZeroIsInt DEF ChangesAreLocked, EndTx
<1>6. NothingOversold'
  <2> SUFFICES ASSUME NEW s \in Sku, ~Undone(s)', NEW v \in Worker
               PROVE  stock'[s] >= 0 /\ stock'[s] + delta'[v][s] >= 0
    BY DEF NothingOversold, Seen
  <2>1. ~Undone(s)
    BY DEF Undone
  <2>2. /\ stock[s] >= 0 /\ Seen(w, s) >= 0 /\ stock[s] + delta[v][s] >= 0
        /\ stock[s] \in Int /\ stock'[s] \in Int
    BY <1>1, <2>1 DEF NothingOversold, Seen, TypeOK
  <2>3. stock'[s] >= 0
    BY <1>1, <2>2
  <2>4. CASE v = w
    BY <1>3, <2>2, <2>3, <2>4, ZeroIsInt
  <2>5. CASE v # w
    <3>1. delta'[v][s] = delta[v][s]
      BY <1>2, <2>5
    <3>2. CASE delta[v][s] = 0
      BY <2>2, <2>3, <3>1, <3>2
    <3>3. CASE delta[v][s] # 0
      <4>1. delta[w][s] = 0
        BY <2>5, <3>3 DEF ChangesAreLocked
      <4> QED
        BY <1>1, <2>2, <2>3, <3>1, <4>1
    <3> QED
      BY <3>2, <3>3
  <2> QED
    BY <2>4, <2>5
<1>7. BooksFollowCarts'
  <2>1. ASSUME NEW v \in Worker, NEW s \in Sku
        PROVE  /\ pc'[v] = "idle" => rows'[v][s] = 0 /\ list'[v][s] = 0
               /\ pc'[v] # "idle" => /\ Bookable(job'[v], s, rows'[v][s])
                                     /\ Bookable(job'[v], s, list'[v][s])
    <3>1. CASE v = w
      BY <1>3, <3>1, ZeroIsInt
    <3>2. CASE v # w
      BY <1>2, <3>2 DEF BooksFollowCarts
    <3> QED
      BY <3>1, <3>2
  <2> QED
    BY <2>1 DEF BooksFollowCarts, Bookable
<1>8. ReleasesAreLocked'
  <2> SUFFICES ASSUME NEW v \in Compensator, pc'[v] \in {"select", "restock", "done"}
               PROVE  /\ sagaLock'[job'[v]] = v
                      /\ pc'[v] = "done" => \A s \in Sku :
                           \/ Shelf!Negative(job'[v], s)
                           \/ rows'[v][s] <= reserved'[job'[v]][s]
    BY DEF ReleasesAreLocked
  <2>1. /\ v # w /\ v \in Worker /\ pc[v] = pc'[v]
        /\ job'[v] = job[v] /\ rows'[v] = rows[v]
    BY <1>2, <1>3 DEF Worker
  <2>2. sagaLock[job[v]] = v /\ job[v] \in Order
    BY <2>1 DEF ReleasesAreLocked, JobsAreOrders
  <2>3. sagaLock'[job[v]] = v
    BY <2>1, <2>2 DEF EndTx
  <2>4. ASSUME pc[v] = "done", NEW s \in Sku, ~Shelf!Negative(job[v], s)
        PROVE  rows[v][s] <= reserved'[job[v]][s]
    <3>1. rows[v][s] <= reserved[job[v]][s] /\ reserved'[job[v]][s] >= reserved[job[v]][s]
      BY <2>1, <2>4 DEF ReleasesAreLocked
    <3>2. /\ rows[v][s] \in Int /\ reserved[job[v]][s] \in Int
          /\ reserved'[job[v]][s] \in Int
      BY <2>1, <2>2 DEF TypeOK
    <3> QED
      BY <3>1, <3>2
  <2> QED
    BY <2>1, <2>3, <2>4
<1>9. JobsAreOrders'
  BY <1>2, <1>3 DEF JobsAreOrders
<1>10. WalksAreComplete'
  <2>1. \A v \in Compensator : pc'[v] = "restock" =>
          v \in Worker /\ pc[v] = "restock" /\ list'[v] = list[v] /\ queue'[v] = queue[v]
    BY <1>2, <1>3 DEF Worker
  <2> QED
    BY <2>1 DEF WalksAreComplete
<1> QED
  BY <1>4, <1>5, <1>6, <1>7, <1>8, <1>9, <1>10

LEMMA CommitReserveKeeps ==
  ASSUME IInv, NEW w \in Reserver, CommitReserve(w)
  PROVE  IInv'
<1> USE DEF IInv
<1>1. w \in Worker /\ job[w] \in Order /\ pc[w] # "idle"
  BY DEF Worker, JobsAreOrders, CommitReserve
<1>2. /\ reserved' \in [Order -> [Sku -> Int]]
      /\ \A s \in Sku : reserved'[job[w]][s] = reserved[job[w]][s] + rows[w][s]
      /\ \A o \in Order : o # job[w] => reserved'[o] = reserved[o]
      /\ \A s \in Sku : reserved[job[w]][s] \in Int /\ rows[w][s] \in Int
  BY <1>1 DEF CommitReserve, TypeOK, Plus
<1>3. answered' \in [Order -> SUBSET {"inventory.reserved", "inventory.reserve_failed"}]
  BY <1>1 DEF CommitReserve, TypeOK
<1>4. \A o \in Order, s \in Sku : Bookable(o, s, reserved'[o][s])
  <2> SUFFICES ASSUME NEW o \in Order, NEW s \in Sku
               PROVE  Bookable(o, s, reserved'[o][s])
    OBVIOUS
  <2>1. CASE o = job[w]
    <3>1. Bookable(o, s, reserved[o][s]) /\ Bookable(o, s, rows[w][s])
      BY <1>1, <2>1 DEF BooksFollowCarts
    <3>2. /\ reserved[o][s] \in Int /\ rows[w][s] \in Int
          /\ reserved'[o][s] = reserved[o][s] + rows[w][s]
      BY <1>2, <2>1
    <3> QED
      BY <3>1, <3>2, BookableSum
  <2>2. CASE o # job[w]
    BY <1>2, <2>2 DEF BooksFollowCarts
  <2> QED
    BY <2>1, <2>2
<1>5. ASSUME NEW v \in Compensator \ {w}, NEW s \in Sku, pc[v] = "done"
      PROVE  \/ Shelf!Negative(job[v], s)
             \/ reserved'[job[v]][s] >= reserved[job[v]][s]
  <2>1. job[v] \in Order /\ reserved[job[v]][s] \in Int
    BY <1>5 DEF JobsAreOrders, Worker, TypeOK
  <2>2. CASE job[v] = job[w]
    <3>1. Bookable(job[w], s, rows[w][s])
      BY <1>1 DEF BooksFollowCarts
    <3> QED
      BY <1>2, <2>2, <3>1 DEF Bookable
  <2>3. CASE job[v] # job[w]
    BY <1>2, <2>1, <2>3
  <2> QED
    BY <2>2, <2>3
<1> QED
  BY <1>1, <1>2, <1>3, <1>4, <1>5, EndTxKeeps DEF CommitReserve

LEMMA CommitCompensateKeeps ==
  ASSUME IInv, NEW w \in Compensator, CommitCompensate(w)
  PROVE  IInv'
<1> USE DEF IInv
<1>1. w \in Worker /\ job[w] \in Order /\ pc[w] = "done"
  BY DEF Worker, JobsAreOrders, CommitCompensate
<1>2. /\ reserved' \in [Order -> [Sku -> Int]]
      /\ \A s \in Sku : reserved'[job[w]][s] = reserved[job[w]][s] - rows[w][s]
      /\ \A o \in Order : o # job[w] => reserved'[o] = reserved[o]
      /\ \A s \in Sku : reserved[job[w]][s] \in Int /\ rows[w][s] \in Int
  BY <1>1 DEF CommitCompensate, TypeOK, Minus
<1>3. \A o \in Order, s \in Sku : Bookable(o, s, reserved'[o][s])
  <2> SUFFICES ASSUME NEW o \in Order, NEW s \in Sku
               PROVE  Bookable(o, s, reserved'[o][s])
    OBVIOUS
  <2>1. CASE o = job[w]
    <3>1. Bookable(o, s, reserved[o][s]) /\ Bookable(o, s, rows[w][s])
      BY <1>1, <2>1 DEF BooksFollowCarts
    <3>2. Shelf!Negative(o, s) \/ rows[w][s] <= reserved[o][s]
      BY <1>1, <2>1 DEF ReleasesAreLocked
    <3> QED
      BY <1>2, <2>1, <3>1, <3>2 DEF Bookable
  <2>2. CASE o # job[w]
    BY <1>2, <2>2 DEF BooksFollowCarts
  <2> QED
    BY <2>1, <2>2
<1>4. ASSUME NEW v \in Compensator \ {w}, NEW s \in Sku, pc[v] = "done"
      PROVE  reserved'[job[v]][s] >= reserved[job[v]][s]
  <2>1. v \in Worker /\ job[v] \in Order
    BY <1>4 DEF Worker, JobsAreOrders
  <2>2. job[v] # job[w]
    BY <1>1, <1>4 DEF ReleasesAreLocked
  <2>3. reserved'[job[v]] = reserved[job[v]]
    BY <1>2, <2>1, <2>2
  <2>4. reserved[job[v]][s] \in Int
    BY <2>1 DEF TypeOK
  <2> QED
    BY <2>3, <2>4
<1> QED
  BY <1>1, <1>2, <1>3, <1>4, EndTxKeeps DEF CommitCompensate, TypeOK

\* Nothing of a transaction that is rolled back stays.
LEMMA RollbackKeeps ==
  ASSUME IInv, NEW w \in Worker, Rollback(w) \/ DeadlockVictim(w)
  PROVE  IInv'
<1> USE DEF IInv
<1>1. pc[w] # "idle"
  BY DEF Rollback, DeadlockVictim, Deadlocked, WaitsFor
<1>2. UNCHANGED <<stock, reserved, answered, deliveries, failures>> /\ EndTx(w)
  BY DEF Rollback, DeadlockVictim, committed
<1>3. \A v \in Compensator, s \in Sku :
        pc[v] = "done" => reserved'[job[v]][s] >= reserved[job[v]][s]
  BY <1>2 DEF TypeOK, JobsAreOrders, Worker
<1>4. \A o \in Order, s \in Sku : Bookable(o, s, reserved'[o][s])
  BY <1>2 DEF BooksFollowCarts
<1> QED
  BY <1>1, <1>2, <1>3, <1>4, EndTxKeeps DEF TypeOK

LEMMA BeginCompensateKeeps ==
  ASSUME IInv, NEW w \in Compensator, NEW o \in Order, BeginCompensate(w, o)
  PROVE  IInv'
<1> USE DEF IInv
<1>0. w \in Worker /\ o # NoOne /\ pc[w] = "idle"
  BY StockAssumption DEF Worker, BeginCompensate
<1>1. /\ \A v \in Worker : v # w => pc'[v] = pc[v] /\ job'[v] = job[v]
      /\ pc'[w] = "saga" /\ job'[w] = o
  BY <1>0 DEF TypeOK, BeginCompensate
<1>2. /\ failures' \in [Order -> Nat]
      /\ \A p \in Order : failures'[p] = IF p = o THEN failures[o] + 1 ELSE failures[p]
      /\ failures[o] \in Nat /\ failures[o] < MaxFailures[o]
  BY DEF TypeOK, BeginCompensate
<1>3. TypeOK'
  <2>1. MaxFailures[o] \in Nat
    BY StockAssumption
  <2>2. \A p \in Order : failures[p] <= MaxFailures[p]
    BY DEF TypeOK
  <2>3. \A p \in Order : failures'[p] <= MaxFailures[p]
    BY <1>2, <2>1, <2>2
  <2>4. /\ job' \in [Worker -> Order \cup {NoOne}]
        /\ pc' \in [Worker -> {"idle", "take", "full", "short", "saga", "select",
                               "restock", "done"}]
        /\ \A v \in Worker : pc'[v] = "idle" <=> job'[v] = NoOne
    BY <1>0 DEF TypeOK, BeginCompensate
  <2> QED
    BY <1>2, <2>3, <2>4 DEF TypeOK, BeginCompensate, committed, locks
<1>4. ChangesAreLocked'
  BY DEF ChangesAreLocked, BeginCompensate, committed, locks
<1>5. NothingOversold'
  <2>1. \A p \in Order : failures[p] <= failures'[p]
    <3>1. \A p \in Order : failures[p] \in Nat
      BY DEF TypeOK
    <3> QED
      BY <1>2, <3>1
  <2> QED
    BY <1>2, <2>1, ShelfQuiet DEF BeginCompensate, committed
<1>6. BooksFollowCarts'
  <2>1. UNCHANGED <<rows, list, reserved>>
    BY DEF BeginCompensate, committed
  <2>2. ASSUME NEW v \in Worker, NEW s \in Sku
        PROVE  /\ pc'[v] = "idle" => rows[v][s] = 0 /\ list[v][s] = 0
               /\ pc'[v] # "idle" => /\ Bookable(job'[v], s, rows[v][s])
                                     /\ Bookable(job'[v], s, list[v][s])
    <3>1. CASE v = w
      BY <1>0, <1>1, <3>1 DEF BooksFollowCarts, Bookable
    <3>2. CASE v # w
      BY <1>1, <3>2 DEF BooksFollowCarts
    <3> QED
      BY <3>1, <3>2
  <2> QED
    BY <2>1, <2>2 DEF BooksFollowCarts, Bookable
<1>7. ReleasesAreLocked' /\ WalksAreComplete'
  <2>1. \A v \in Compensator : v \in Worker
    BY DEF Worker
  <2>2. UNCHANGED <<rows, list, queue, reserved, sagaLock>>
    BY DEF BeginCompensate, committed, locks
  <2> QED
    BY <1>1, <2>1, <2>2 DEF ReleasesAreLocked, WalksAreComplete
<1>8. JobsAreOrders'
  <2> SUFFICES ASSUME NEW v \in Worker
               PROVE  /\ pc'[v] # "idle" => job'[v] \in Order
                      /\ pc'[v] = "take" => item[v] \in 1 .. Len(Items[job'[v]])
                      /\ pc'[v] \in {"take", "full", "short"} => v \in Reserver
                      /\ pc'[v] \in {"saga", "select", "restock", "done"} =>
                           v \in Compensator /\ failures'[job'[v]] > 0
    BY DEF JobsAreOrders, BeginCompensate
  <2>1. CASE v = w
    BY <1>1, <1>2, <2>1
  <2>2. CASE v # w
    <3>1. pc'[v] = pc[v] /\ job'[v] = job[v]
      BY <1>1, <2>2
    <3>2. pc[v] # "idle" => job[v] \in Order
      BY DEF JobsAreOrders
    <3>3. pc[v] # "idle" => failures[job[v]] \in Nat
                             /\ (failures'[job[v]] = failures[job[v]]
                                 \/ failures'[job[v]] = failures[job[v]] + 1)
      BY <1>2, <3>2 DEF TypeOK
    <3> QED
      BY <3>1, <3>2, <3>3 DEF JobsAreOrders
  <2> QED
    BY <2>1, <2>2
<1> QED
  BY <1>3, <1>4, <1>5, <1>6, <1>7, <1>8

\* What is behind the first element of a sequence.
LEMMA HeadAndTail ==
  ASSUME NEW S, NEW q \in Seq(S), q # <<>>
  PROVE  /\ Head(q) \in S /\ Tail(q) \in Seq(S) /\ Head(q) = q[1]
         /\ \A i \in 1 .. Len(q) : i # 1 =>
              i - 1 \in 1 .. Len(Tail(q)) /\ Tail(q)[i - 1] = q[i]
         /\ Len(Tail(q)) = Len(q) - 1 /\ Len(q) \in Nat
OBVIOUS

LEMMA RestockKeeps ==
  ASSUME IInv, NEW w \in Compensator, Restock(w)
  PROVE  IInv'
<1> USE DEF IInv
<1> DEFINE s == Head(queue[w])
<1>0. /\ w \in Worker /\ pc[w] = "restock" /\ queue[w] \in Seq(Sku) /\ queue[w] # <<>>
      /\ job[w] \in Order
  BY DEF Worker, TypeOK, JobsAreOrders, Restock
<1>1. /\ s \in Sku /\ Tail(queue[w]) \in Seq(Sku) /\ s = queue[w][1]
      /\ \A i \in 1 .. Len(queue[w]) : i # 1 =>
           i - 1 \in 1 .. Len(Tail(queue[w])) /\ Tail(queue[w])[i - 1] = queue[w][i]
  BY <1>0, HeadAndTail
<1>2. /\ stockLock[s] \in {NoOne, w}
      /\ stockLock' = [stockLock EXCEPT ![s] = w]
      /\ delta' = [delta EXCEPT ![w][s] = @ + list[w][s]]
      /\ list' = [list EXCEPT ![w][s] = 0]
      /\ queue' = [queue EXCEPT ![w] = Tail(@)]
      /\ UNCHANGED <<committed, deliveries, failures, pc, job, item, rows, sagaLock>>
  BY DEF Restock, Free
<1> HIDE DEF s
<1>3. /\ delta \in [Worker -> [Sku -> Int]] /\ list \in [Worker -> [Sku -> Int]]
      /\ queue \in [Worker -> Seq(Sku)] /\ stockLock \in [Sku -> Worker \cup {NoOne}]
      /\ list[w][s] \in Int /\ delta[w][s] \in Int
  <2>1. /\ delta \in [Worker -> [Sku -> Int]] /\ list \in [Worker -> [Sku -> Int]]
        /\ queue \in [Worker -> Seq(Sku)] /\ stockLock \in [Sku -> Worker \cup {NoOne}]
    BY DEF TypeOK
  <2> QED
    BY <1>0, <1>1, <2>1
<1>4. /\ \A v \in Worker, r \in Sku : v # w \/ r # s =>
           delta'[v][r] = delta[v][r] /\ list'[v][r] = list[v][r]
      /\ delta'[w][s] = delta[w][s] + list[w][s] /\ list'[w][s] = 0
      /\ queue'[w] = Tail(queue[w])
      /\ \A v \in Worker : v # w => queue'[v] = queue[v]
      /\ stockLock'[s] = w /\ \A r \in Sku : r # s => stockLock'[r] = stockLock[r]
  BY <1>0, <1>1, <1>2, <1>3
<1>5. TypeOK'
  <2>1. /\ delta' \in [Worker -> [Sku -> Int]] /\ list' \in [Worker -> [Sku -> Int]]
        /\ queue' \in [Worker -> Seq(Sku)] /\ stockLock' \in [Sku -> Worker \cup {NoOne}]
    BY <1>0, <1>1, <1>2, <1>3
  <2> QED
    BY <1>2, <2>1 DEF TypeOK, committed
<1>6. ChangesAreLocked'
  <2> SUFFICES ASSUME NEW v \in Worker, NEW r \in Sku, delta'[v][r] # 0
               PROVE  stockLock'[r] = v
    BY DEF ChangesAreLocked
  <2>1. CASE v = w /\ r = s
    BY <1>4, <2>1
  <2>2. CASE v # w /\ r = s
    BY <1>2, <1>4, <2>2, StockAssumption DEF ChangesAreLocked
  <2>3. CASE r # s
    BY <1>4, <2>3 DEF ChangesAreLocked
  <2> QED
    BY <2>1, <2>2, <2>3
<1>7. NothingOversold'
  <2> SUFFICES ASSUME NEW r \in Sku, ~Undone(r)', NEW v \in Worker
               PROVE  stock[r] >= 0 /\ stock[r] + delta'[v][r] >= 0
    BY <1>0, <1>2 DEF NothingOversold, Seen, committed
  <2>1. ~Undone(r)
    BY <1>2 DEF Undone
  <2>2. /\ stock[r] >= 0 /\ stock[r] + delta[v][r] >= 0 /\ stock[r] \in Int
    BY <2>1 DEF NothingOversold, Seen, TypeOK
  <2>3. CASE v = w /\ r = s
    <3>1. failures[job[w]] > 0 /\ Bookable(job[w], s, list[w][s])
      BY <1>0, <1>1 DEF JobsAreOrders, BooksFollowCarts
    <3>2. list[w][s] >= 0
      BY <1>0, <1>3, <2>1, <2>3, <3>1 DEF Bookable, Undone
    <3> QED
      BY <1>3, <1>4, <2>2, <2>3, <3>2
  <2>4. CASE v # w \/ r # s
    BY <1>4, <2>2, <2>4
  <2> QED
    BY <2>3, <2>4
<1>8. BooksFollowCarts'
  <2>1. UNCHANGED <<rows, reserved, job, pc>>
    BY <1>2 DEF committed
  <2>2. ASSUME NEW v \in Worker, NEW r \in Sku
        PROVE  /\ pc[v] = "idle" => rows[v][r] = 0 /\ list'[v][r] = 0
               /\ pc[v] # "idle" => /\ Bookable(job[v], r, rows[v][r])
                                    /\ Bookable(job[v], r, list'[v][r])
    <3>1. CASE v = w /\ r = s
      BY <1>0, <1>4, <3>1 DEF BooksFollowCarts, Bookable
    <3>2. CASE v # w \/ r # s
      BY <1>4, <3>2 DEF BooksFollowCarts
    <3> QED
      BY <3>1, <3>2
  <2> QED
    BY <2>1, <2>2 DEF BooksFollowCarts, Bookable
<1>9. ReleasesAreLocked' /\ JobsAreOrders'
  BY <1>2 DEF ReleasesAreLocked, JobsAreOrders, committed
<1>10. WalksAreComplete'
  <2> SUFFICES ASSUME NEW v \in Compensator, NEW r \in Sku,
                      pc[v] = "restock", list'[v][r] # 0
               PROVE  \E i \in 1 .. Len(queue'[v]) : queue'[v][i] = r
    BY <1>2 DEF WalksAreComplete
  <2>0. v \in Worker
    BY DEF Worker
  <2>1. CASE v = w
    <3>1. r # s /\ list[w][r] # 0
      BY <1>0, <1>4, <2>1
    <3>2. PICK i \in 1 .. Len(queue[w]) : queue[w][i] = r
      BY <1>0, <3>1 DEF WalksAreComplete
    <3>3. i # 1
      BY <1>1, <3>1, <3>2
    <3>4. i - 1 \in 1 .. Len(Tail(queue[w])) /\ Tail(queue[w])[i - 1] = r
      BY <1>1, <3>2, <3>3
    <3> QED
      BY <1>4, <2>1, <3>4
  <2>2. CASE v # w
    BY <1>4, <2>0, <2>2 DEF WalksAreComplete
  <2> QED
    BY <2>1, <2>2
<1> QED
  BY <1>5, <1>6, <1>7, <1>8, <1>9, <1>10

LEMMA ReleaseRowsKeeps ==
  ASSUME IInv, NEW w \in Compensator, ReleaseRows(w)
  PROVE  IInv'
<1> USE DEF IInv
<1>0. w \in Worker /\ job[w] \in Order /\ reserved[job[w]] \in [Sku -> Int] /\ pc[w] = "restock"
  BY DEF Worker, JobsAreOrders, TypeOK, ReleaseRows
<1>1. TypeOK'
  BY <1>0 DEF TypeOK, ReleaseRows, committed, locks
<1>2. ChangesAreLocked'
  BY DEF ChangesAreLocked, ReleaseRows, committed, locks
<1>3. /\ \A v \in Worker : v # w => pc'[v] = pc[v] /\ rows'[v] = rows[v]
      /\ pc'[w] = "done" /\ rows'[w] = reserved[job[w]]
      /\ UNCHANGED <<stock, delta, reserved, list, queue, job, failures, item, sagaLock>>
  BY <1>0 DEF TypeOK, ReleaseRows, committed, locks
<1>4. NothingOversold'
  BY <1>3, ShelfQuiet DEF TypeOK
<1>5. BooksFollowCarts'
  <2>1. ASSUME NEW v \in Worker, NEW s \in Sku
        PROVE  /\ pc'[v] = "idle" => rows'[v][s] = 0 /\ list[v][s] = 0
               /\ pc'[v] # "idle" => /\ Bookable(job[v], s, rows'[v][s])
                                     /\ Bookable(job[v], s, list[v][s])
    <3>1. CASE v = w
      BY <1>0, <1>3, <3>1 DEF BooksFollowCarts
    <3>2. CASE v # w
      BY <1>3, <3>2 DEF BooksFollowCarts
    <3> QED
      BY <3>1, <3>2
  <2> QED
    BY <1>3, <2>1 DEF BooksFollowCarts, Bookable
<1>6. ReleasesAreLocked'
  <2> SUFFICES ASSUME NEW v \in Compensator, pc'[v] \in {"select", "restock", "done"}
               PROVE  /\ sagaLock[job[v]] = v
                      /\ pc'[v] = "done" => \A s \in Sku :
                           \/ Shelf!Negative(job[v], s)
                           \/ rows'[v][s] <= reserved[job[v]][s]
    BY <1>3 DEF ReleasesAreLocked
  <2>1. CASE v = w
    BY <1>0, <1>3, <2>1 DEF ReleasesAreLocked
  <2>2. CASE v # w
    BY <1>3, <2>2 DEF ReleasesAreLocked, Worker
  <2> QED
    BY <2>1, <2>2
<1>7. JobsAreOrders'
  BY <1>0, <1>3 DEF JobsAreOrders
<1>8. WalksAreComplete'
  BY <1>3 DEF WalksAreComplete, Worker
<1> QED
  BY <1>1, <1>2, <1>4, <1>5, <1>6, <1>7, <1>8

\* A walk leads through SKUs, all that the order has reserved among them.
LEMMA WalkIsComplete ==
  ASSUME NEW o \in Order, NEW q \in Walks(o)
  PROVE  /\ q \in Seq(Sku)
         /\ \A s \in Sku : reserved[o][s] # 0 => \E i \in 1 .. Len(q) : q[i] = s
<1>1. PICK n \in 0 .. Len(Items[o]) : q \in [1 .. n -> InCart(o)]
  BY DEF Walks
<1>2. n \in Nat /\ InCart(o) \subseteq Sku
  BY CartIsList
<1>3. q \in [1 .. n -> Sku]
  BY <1>1, <1>2
<1>4. q \in Seq(Sku) /\ Len(q) = n
  BY <1>2, <1>3
<1> QED
  BY <1>3, <1>4 DEF Walks

LEMMA NextKeeps == IInv /\ [Next]_vars => IInv'
<1> SUFFICES ASSUME IInv, [Next]_vars
             PROVE  IInv'
  OBVIOUS
<1>1. ASSUME NEW w \in Reserver, MissItem(w)
      PROVE  IInv'
  <2>1. w \in Worker /\ pc[w] # "idle" /\ pc' = [pc EXCEPT ![w] = "short"]
    BY <1>1 DEF Worker, MissItem
  <2>2. UNCHANGED <<committed, deliveries, failures, job, item, list, queue, delta, rows,
                    stockLock, sagaLock>>
    BY <1>1 DEF MissItem, locks
  <2>3. /\ sagaLock' \in [Order -> Worker \cup {NoOne}]
        /\ list' \in [Worker -> [Sku -> Int]] /\ queue' \in [Worker -> Seq(Sku)]
        /\ \A s \in Sku : Bookable(job[w], s, list'[w][s])
    BY <2>1, <2>2 DEF IInv, TypeOK, BooksFollowCarts
  <2>4. \A o \in Order : sagaLock'[o] = sagaLock[o]
                            \/ (sagaLock[o] \in {NoOne, w} /\ sagaLock'[o] = w)
    BY <2>2
  <2>5. /\ "short" \in {"short", "select", "restock"}
        /\ w \in (IF "short" = "short" THEN Reserver ELSE Compensator)
        /\ ("short" # "short" => sagaLock'[job[w]] = w)
        /\ ("short" # "short" => failures[job[w]] > 0)
        /\ ("short" = "restock" => \A s \in Sku : list'[w][s] # 0 =>
                                    \E i \in 1 .. Len(queue'[w]) : queue'[w][i] = s)
    OBVIOUS
  <2>6. \A v \in Worker \ {w} : list'[v] = list[v] /\ queue'[v] = queue[v]
    BY <2>2
  <2> QED
    BY <2>1, <2>2, <2>3, <2>4, <2>5, <2>6, MoveKeeps
<1>2. ASSUME NEW w \in Compensator, MarkSaga(w)
      PROVE  IInv'
  <2>1. w \in Worker /\ job[w] \in Order /\ pc[w] # "idle" /\ failures[job[w]] > 0
    BY <1>2 DEF IInv, Worker, JobsAreOrders, MarkSaga
  <2>2. /\ sagaLock' \in [Order -> Worker \cup {NoOne}]
        /\ sagaLock'[job[w]] = w
        /\ \A o \in Order : sagaLock'[o] = sagaLock[o]
             \/ (sagaLock[o] \in {NoOne, w} /\ sagaLock'[o] = w)
    <3>1. /\ sagaLock[job[w]] \in {NoOne, w}
          /\ sagaLock' = [sagaLock EXCEPT ![job[w]] = w]
      BY <1>2 DEF MarkSaga
    <3>2. sagaLock \in [Order -> Worker \cup {NoOne}]
      BY DEF IInv, TypeOK
    <3> QED
      BY <2>1, <3>1, <3>2
  <2>3. /\ pc' = [pc EXCEPT ![w] = "select"]
        /\ UNCHANGED <<committed, deliveries, failures, job, item, list, queue, delta, rows,
                       stockLock>>
    BY <1>2 DEF MarkSaga
  <2>4. /\ list' \in [Worker -> [Sku -> Int]] /\ queue' \in [Worker -> Seq(Sku)]
        /\ \A s \in Sku : Bookable(job[w], s, list'[w][s])
        /\ \A v \in Worker \ {w} : list'[v] = list[v] /\ queue'[v] = queue[v]
    BY <2>1, <2>3 DEF IInv, TypeOK, BooksFollowCarts
  <2>5. /\ "select" \in {"short", "select", "restock"}
        /\ w \in (IF "select" = "short" THEN Reserver ELSE Compensator)
        /\ ("select" = "restock" => \A s \in Sku : list'[w][s] # 0 =>
                                     \E i \in 1 .. Len(queue'[w]) : queue'[w][i] = s)
    OBVIOUS
  <2> QED
    BY <2>1, <2>2, <2>3, <2>4, <2>5, MoveKeeps
<1>3. ASSUME NEW w \in Compensator, SelectReserved(w)
      PROVE  IInv'
  <2>1. /\ w \in Worker /\ job[w] \in Order /\ sagaLock[job[w]] = w
        /\ pc[w] # "idle" /\ failures[job[w]] > 0
        /\ reserved[job[w]] \in [Sku -> Int]
    BY <1>3 DEF IInv, TypeOK, Worker, JobsAreOrders, ReleasesAreLocked, SelectReserved
  <2>2. PICK q \in Walks(job[w]) : queue' = [queue EXCEPT ![w] = q]
    BY <1>3 DEF SelectReserved
  <2>3. /\ list' = [list EXCEPT ![w] = reserved[job[w]]]
        /\ pc' = [pc EXCEPT ![w] = "restock"]
        /\ UNCHANGED <<committed, deliveries, failures, job, item, delta, rows,
                       stockLock, sagaLock>>
    BY <1>3 DEF SelectReserved, locks
  <2>4. /\ q \in Seq(Sku)
        /\ \A s \in Sku : reserved[job[w]][s] # 0 => \E i \in 1 .. Len(q) : q[i] = s
    BY <2>1, WalkIsComplete
  <2>5. /\ list' \in [Worker -> [Sku -> Int]] /\ queue' \in [Worker -> Seq(Sku)]
        /\ list'[w] = reserved[job[w]] /\ queue'[w] = q
        /\ \A v \in Worker \ {w} : list'[v] = list[v] /\ queue'[v] = queue[v]
    BY <2>1, <2>2, <2>3, <2>4 DEF IInv, TypeOK
  <2>6. /\ \A s \in Sku : Bookable(job[w], s, list'[w][s])
        /\ \A s \in Sku : list'[w][s] # 0 => \E i \in 1 .. Len(queue'[w]) : queue'[w][i] = s
    BY <2>1, <2>4, <2>5 DEF IInv, BooksFollowCarts
  <2>7. sagaLock' \in [Order -> Worker \cup {NoOne}] /\ sagaLock'[job[w]] = w
    BY <2>1, <2>3 DEF IInv, TypeOK
  <2>8. \A o \in Order : sagaLock'[o] = sagaLock[o]
                            \/ (sagaLock[o] \in {NoOne, w} /\ sagaLock'[o] = w)
    BY <2>3
  <2>9. /\ "restock" \in {"short", "select", "restock"}
        /\ w \in (IF "restock" = "short" THEN Reserver ELSE Compensator)
    OBVIOUS
  <2> QED
    BY <2>1, <2>3, <2>5, <2>6, <2>7, <2>8, <2>9, MoveKeeps
<1>4. CASE \E w \in Reserver : Reserving(w) \/ \E o \in Order : BeginReserve(w, o)
  BY <1>1, <1>4, BeginReserveKeeps, TakeItemKeeps, CommitReserveKeeps DEF Reserving
<1>5. CASE \E w \in Compensator : Compensating(w) \/ \E o \in Order : BeginCompensate(w, o)
  BY <1>2, <1>3, <1>5, BeginCompensateKeeps, RestockKeeps, ReleaseRowsKeeps,
     CommitCompensateKeeps DEF Compensating
<1>6. CASE \E w \in Worker : Rollback(w) \/ DeadlockVictim(w)
  BY <1>6, RollbackKeeps
<1>7. CASE UNCHANGED vars
  <2>1. UNCHANGED <<stock, reserved, answered, deliveries, failures, pc, job, item, list,
                    queue, delta, rows, stockLock, sagaLock>>
    BY <1>7 DEF vars, committed, tx, locks
  <2>2. TypeOK' /\ ChangesAreLocked' /\ ReleasesAreLocked' /\ JobsAreOrders' /\ WalksAreComplete'
    BY <2>1 DEF IInv, TypeOK, ChangesAreLocked, ReleasesAreLocked, JobsAreOrders,
                WalksAreComplete
  <2>3. NothingOversold'
    BY <2>1, ShelfQuiet DEF IInv, TypeOK
  <2>4. BooksFollowCarts'
    BY <2>1 DEF IInv, BooksFollowCarts, Bookable
  <2> QED
    BY <2>2, <2>3, <2>4 DEF IInv
<1> QED
  BY <1>4, <1>5, <1>6, <1>7 DEF Next

-----------------------------------------------------------------------------
\* The row locks work: who has changed a row holds its lock and who releases
\* reservations holds the lock of the saga; what orders and workers hold of a
\* SKU is what the carts allow; and a SKU is only short of stock, or seen to
\* be, when an order with a quantity below 0 has been compensated.  For any
\* orders, line items of any quantity, and workers.
THEOREM InvariantHolds == Spec => []IInv
<1>1. IInv /\ [Next]_vars => IInv'
  BY NextKeeps
<1> QED
  BY <1>1, InitEstablishes, PTL DEF Spec

\* Every table and every transaction keeps its type, no order is delivered
\* more often than the bounds say, and who works on an order is not idle.
THEOREM TypeCorrect == Spec => []TypeOK
<1>1. IInv => TypeOK
  BY DEF IInv
<1> QED
  BY <1>1, InvariantHolds, PTL

\* Whatever the line items ask for, and however the transactions interleave
\* and roll back, the quantity of a SKU never falls below 0 by reservations:
\* the row lock and the WHERE clause of the decrement see to that.  It can
\* only when the compensation of an order that listed it with a quantity
\* below 0 takes back what that order had put on the shelf.
THEOREM NothingIsOversold == Spec => []OnlyUndoingOversells
<1>1. IInv => OnlyUndoingOversells
  <2> SUFFICES ASSUME IInv, NEW s \in Sku, stock[s] < 0
               PROVE  \E o \in Order : Shelf!Negative(o, s) /\ failures[o] > 0
    BY DEF OnlyUndoingOversells
  <2>1. stock[s] \in Int
    BY DEF IInv, TypeOK
  <2>2. Undone(s)
    BY <2>1 DEF IInv, NothingOversold
  <2> QED
    BY <2>2 DEF Undone
<1> QED
  BY <1>1, InvariantHolds, PTL

-----------------------------------------------------------------------------
(* Functions defined by recursion: f[x] is 0 at the end bot of a chain and  *)
(* d[x] + f[p[x]] before it, where p goes down a well-founded order R of D.  *)

Chain(D, R, bot, d, p) ==
  /\ IsWellFoundedOn(R, D)
  /\ bot \in D /\ p \in [D -> D] /\ p[bot] = bot
  /\ \A x \in D \ {bot} : <<p[x], x>> \in R /\ d[x] \in Int

\* g is that function on a part E of D.
Computes(D, bot, d, p, E, g) ==
  /\ E \in SUBSET D /\ bot \in E /\ (\A x \in E : p[x] \in E)
  /\ g \in [E -> Int]
  /\ \A x \in E : g[x] = IF x = bot THEN 0 ELSE d[x] + g[p[x]]

\* Two computations agree where both are defined.
LEMMA OneResult ==
  ASSUME NEW D, NEW R, NEW bot, NEW d, NEW p, Chain(D, R, bot, d, p),
         NEW E, NEW g, Computes(D, bot, d, p, E, g),
         NEW F, NEW h, Computes(D, bot, d, p, F, h)
  PROVE  \A x \in E \cap F : g[x] = h[x]
<1> DEFINE Bad == {x \in E \cap F : g[x] # h[x]}
<1>1. Bad \subseteq D
  BY DEF Computes
<1>2. ASSUME Bad # {}
      PROVE  FALSE
  <2> HIDE DEF Bad
  <2>1. PICK x \in Bad : \A y \in Bad : ~(<<y, x>> \in R)
    BY <1>1, <1>2, WFMin DEF Chain
  <2>2. x \in E \cap F /\ g[x] # h[x]
    BY <2>1 DEF Bad
  <2>3. x # bot
    BY <2>2 DEF Computes
  <2>4. p[x] \in E \cap F /\ <<p[x], x>> \in R
    BY <2>2, <2>3 DEF Chain, Computes
  <2>5. g[p[x]] = h[p[x]]
    BY <2>1, <2>4 DEF Bad
  <2> QED
    BY <2>2, <2>3, <2>5 DEF Computes
<1> QED
  BY <1>2

\* Some computation reaches every argument.
LEMMA SomeResult ==
  ASSUME NEW D, NEW R, NEW bot, NEW d, NEW p, Chain(D, R, bot, d, p)
  PROVE  \A x \in D : \E E \in SUBSET D : \E g \in [E -> Int] :
           x \in E /\ Computes(D, bot, d, p, E, g)
<1> DEFINE Reached == {x \in D : \E E \in SUBSET D : \E g \in [E -> Int] :
                                    x \in E /\ Computes(D, bot, d, p, E, g)}
           Bad == D \ Reached
<1>1. ASSUME Bad # {}
      PROVE  FALSE
  <2>1. Bad \subseteq D
    OBVIOUS
  <2> HIDE DEF Bad
  <2>2. PICK x \in Bad : \A y \in Bad : ~(<<y, x>> \in R)
    BY <1>1, <2>1, WFMin DEF Chain
  <2>3. x \in D /\ x \notin Reached
    BY <2>2 DEF Bad
  <2>4. x # bot
    <3> DEFINE E == {bot}
               g == [y \in E |-> 0]
    <3>1. E \in SUBSET D /\ g \in [E -> Int]
      BY DEF Chain
    <3>2. Computes(D, bot, d, p, E, g)
      BY DEF Computes, Chain
    <3>3. bot \in E
      OBVIOUS
    <3> HIDE DEF E, g
    <3> QED
      BY <2>3, <3>1, <3>2, <3>3
  <2>5. p[x] \in D /\ <<p[x], x>> \in R /\ d[x] \in Int
    BY <2>3, <2>4 DEF Chain
  <2>6. p[x] \in Reached
    BY <2>2, <2>5 DEF Bad
  <2>7. PICK E \in SUBSET D : \E g \in [E -> Int] :
          p[x] \in E /\ Computes(D, bot, d, p, E, g)
    BY <2>6
  <2>8. PICK g \in [E -> Int] : p[x] \in E /\ Computes(D, bot, d, p, E, g)
    BY <2>7
  <2>9. x \notin E
    BY <2>3, <2>8
  <2> DEFINE F == E \cup {x}
             h == [y \in F |-> IF y = x THEN d[x] + g[p[x]] ELSE g[y]]
  <2>10. F \in SUBSET D /\ x \in F /\ h \in [F -> Int]
    BY <2>3, <2>5, <2>8
  <2>11. Computes(D, bot, d, p, F, h)
    <3>1. \A y \in F : p[y] \in F /\ p[y] # x
      BY <2>8, <2>9 DEF Computes
    <3>2. \A y \in E : h[y] = g[y]
      BY <2>9
    <3>3. h[x] = d[x] + h[p[x]]
      BY <2>8, <3>2
    <3>4. \A y \in F : h[y] = IF y = bot THEN 0 ELSE d[y] + h[p[y]]
      <4> SUFFICES ASSUME NEW y \in F
                   PROVE  h[y] = IF y = bot THEN 0 ELSE d[y] + h[p[y]]
        OBVIOUS
      <4> HIDE DEF h
      <4>1. CASE y = x
        BY <2>4, <3>3, <4>1
      <4>2. CASE y \in E
        BY <2>8, <3>2, <4>2 DEF Computes
      <4> QED
        BY <4>1, <4>2
    <3> HIDE DEF h
    <3> QED
      BY <2>8, <2>10, <3>1, <3>4 DEF Computes
  <2> HIDE DEF F, h
  <2> QED
    BY <2>3, <2>10, <2>11
<1> QED
  BY <1>1

\* The recursion defines a function.
LEMMA Recursion ==
  ASSUME NEW D, NEW R, NEW bot, NEW d, NEW p, Chain(D, R, bot, d, p)
  PROVE  \E f \in [D -> Int] :
           f = [x \in D |-> IF x = bot THEN 0 ELSE d[x] + f[p[x]]]
<1> DEFINE Value(x, v) ==
             \E E \in SUBSET D : \E g \in [E -> Int] :
                x \in E /\ Computes(D, bot, d, p, E, g) /\ v = g[x]
           f == [x \in D |-> CHOOSE v \in Int : Value(x, v)]
<1>1. \A x \in D : f[x] \in Int /\ Value(x, f[x])
  <2> SUFFICES ASSUME NEW x \in D
               PROVE  f[x] \in Int /\ Value(x, f[x])
    OBVIOUS
  <2>1. \E v \in Int : Value(x, v)
    BY SomeResult
  <2> HIDE DEF Value
  <2> QED
    BY <2>1
<1>2. ASSUME NEW x \in D, NEW E \in SUBSET D, NEW g \in [E -> Int],
             x \in E, Computes(D, bot, d, p, E, g)
      PROVE  f[x] = g[x]
  <2> HIDE DEF f
  <2>1. PICK F \in SUBSET D : \E h \in [F -> Int] :
          x \in F /\ Computes(D, bot, d, p, F, h) /\ f[x] = h[x]
    BY <1>1
  <2>2. PICK h \in [F -> Int] : x \in F /\ Computes(D, bot, d, p, F, h) /\ f[x] = h[x]
    BY <2>1
  <2> QED
    BY <1>2, <2>2, OneResult
<1>3. ASSUME NEW x \in D
      PROVE  f[x] = IF x = bot THEN 0 ELSE d[x] + f[p[x]]
  <2> HIDE DEF f
  <2>1. PICK E \in SUBSET D : \E g \in [E -> Int] :
          x \in E /\ Computes(D, bot, d, p, E, g)
    BY SomeResult
  <2>2. PICK g \in [E -> Int] : x \in E /\ Computes(D, bot, d, p, E, g)
    BY <2>1
  <2>3. p[x] \in E /\ p[x] \in D
    BY <2>2 DEF Computes
  <2>4. f[x] = g[x] /\ f[p[x]] = g[p[x]]
    BY <1>2, <2>2, <2>3
  <2> QED
    BY <2>2, <2>4 DEF Computes
<1>4. f \in [D -> Int] /\ f = [x \in D |-> IF x = bot THEN 0 ELSE d[x] + f[p[x]]]
  <2>1. f = [x \in D |-> f[x]]
    OBVIOUS
  <2> HIDE DEF f
  <2> QED
    BY <1>1, <1>3, <2>1
<1> HIDE DEF f
<1> QED
  BY <1>4

-----------------------------------------------------------------------------
(* Sums over a finite set                                                  *)

\* A property, as the set of what has it, that every subset of S inherits
\* from its smaller ones is one of all.
LEMMA SubsetInduction ==
  ASSUME NEW S, IsFiniteSet(S), NEW Good,
         \A T \in SUBSET S : (\A U \in SUBSET T : U # T => U \in Good) => T \in Good
  PROVE  \A T \in SUBSET S : T \in Good
<1> DEFINE Bad == {T \in SUBSET S : T \notin Good}
<1>1. FiniteSubsetsOf(S) = SUBSET S
  BY FS_FiniteSubsetsOfFinite
<1>2. IsWellFoundedOn(StrictSubsetOrdering(S), SUBSET S)
  BY <1>1, FS_StrictSubsetOrderingWellFounded
<1>3. ASSUME Bad # {}
      PROVE  FALSE
  <2>1. Bad \subseteq SUBSET S
    OBVIOUS
  <2> DEFINE R == StrictSubsetOrdering(S)
             P == SUBSET S
  <2>2. IsWellFoundedOn(R, P) /\ Bad \subseteq P
    BY <1>2, <2>1
  <2> HIDE DEF Bad, R, P
  <2>3. PICK T \in Bad : \A U \in Bad : ~(<<U, T>> \in R)
    BY <1>3, <2>2, WFMin
  <2>4. \A U \in SUBSET T : U # T => U \in Good
    BY <2>3 DEF StrictSubsetOrdering, Bad, R
  <2> QED
    BY <2>3, <2>4 DEF Bad
<1> QED
  BY <1>3

LEMMA OrdersAreFinite == IsFiniteSet(Order)
BY StockAssumption

\* The element the sum of the library takes first.
First(T) == CHOOSE x \in T : TRUE

\* h[T] is the sum of f over T.
Adds(h, f, S) ==
  /\ h \in [SUBSET S -> Int]
  /\ h[{}] = 0
  /\ \A T \in (SUBSET S) \ {{}} : h[T] = f[First(T)] + h[T \ {First(T)}]

\* How much of SKU s the orders hold by r.
SumOf(r, s) == MapThenSumSet(LAMBDA o : r[o][s], Order)

\* The sum of the library adds.
LEMMA SumAdds ==
  ASSUME NEW r, NEW s, \A o \in Order : r[o][s] \in Int
  PROVE  \E h : Adds(h, [o \in Order |-> r[o][s]], Order) /\ SumOf(r, s) = h[Order]
<1> DEFINE D == SUBSET Order
           R == StrictSubsetOrdering(Order)
           bot == {}
           d == [T \in D |-> r[First(T)][s]]
           p == [T \in D |-> T \ {First(T)}]
           sum[T \in D] == IF T = {} THEN 0 ELSE r[First(T)][s] + sum[T \ {First(T)}]
<1>1. SumOf(r, s) = sum[Order]
  BY DEF SumOf, MapThenSumSet, MapThenFoldSet, First
<1>2. \A T \in D \ {{}} : First(T) \in T
  BY DEF First
<1>3. Chain(D, R, bot, d, p)
  <2>1. IsWellFoundedOn(R, D)
    <3>1. FiniteSubsetsOf(Order) = SUBSET Order
      BY OrdersAreFinite, FS_FiniteSubsetsOfFinite
    <3> QED
      BY <3>1, OrdersAreFinite, FS_StrictSubsetOrderingWellFounded
  <2>2. bot \in D /\ p \in [D -> D] /\ p[bot] = bot
    OBVIOUS
  <2>3. \A x \in D \ {bot} : <<p[x], x>> \in R /\ d[x] \in Int
    BY <1>2 DEF StrictSubsetOrdering
  <2> HIDE DEF D, R, bot, d, p
  <2> QED
    BY <2>1, <2>2, <2>3 DEF Chain
<1>4. \E g \in [D -> Int] : g = [x \in D |-> IF x = bot THEN 0 ELSE d[x] + g[p[x]]]
  <2> HIDE DEF D, R, bot, d, p
  <2> QED
    BY <1>3, Recursion
<1>5. PICK g \in [D -> Int] : g = [x \in D |-> IF x = bot THEN 0 ELSE d[x] + g[p[x]]]
  BY <1>4
<1>6. g = [T \in D |-> IF T = {} THEN 0 ELSE r[First(T)][s] + g[T \ {First(T)}]]
  <2>1. \A T \in D : d[T] = r[First(T)][s] /\ p[T] = T \ {First(T)}
    OBVIOUS
  <2> HIDE DEF d, p
  <2> QED
    BY <1>5, <2>1
<1>7. sum = [T \in D |-> IF T = {} THEN 0 ELSE r[First(T)][s] + sum[T \ {First(T)}]]
  BY <1>6
<1> HIDE DEF sum
<1>8. \A T \in D : sum[T] = g[T]
  <2> DEFINE Good == {T \in D : sum[T] = g[T]}
  <2>1. ASSUME NEW T \in SUBSET Order, \A U \in SUBSET T : U # T => U \in Good
        PROVE  T \in Good
    <3>1. CASE T = {}
      BY <1>6, <1>7, <3>1
    <3>2. CASE T # {}
      <4>1. T \ {First(T)} \in Good
        BY <1>2, <2>1, <3>2
      <4> QED
        BY <1>6, <1>7, <3>2, <4>1
    <3> QED
      BY <3>1, <3>2
  <2> HIDE DEF Good
  <2>2. \A T \in SUBSET Order : T \in Good
    BY <2>1, OrdersAreFinite, SubsetInduction
  <2> QED
    BY <2>2 DEF Good
<1>9. Adds(g, [o \in Order |-> r[o][s]], Order)
  <2>1. \A T \in D \ {{}} : g[T] = r[First(T)][s] + g[T \ {First(T)}] /\ First(T) \in Order
    BY <1>2, <1>6
  <2>2. g[{}] = 0
    BY <1>6
  <2> QED
    BY <1>5, <2>1, <2>2 DEF Adds
<1> QED
  BY <1>1, <1>8, <1>9

\* The sum does not depend on the order in which it is taken.
LEMMA AnyFirst ==
  ASSUME NEW S, IsFiniteSet(S), NEW f \in [S -> Int], NEW h, Adds(h, f, S),
         NEW T \in SUBSET S, NEW x \in T
  PROVE  h[T] = f[x] + h[T \ {x}]
<1> DEFINE Good == {U \in SUBSET S : \A y \in U : h[U] = f[y] + h[U \ {y}]}
<1>1. ASSUME NEW U \in SUBSET S, \A V \in SUBSET U : V # U => V \in Good
      PROVE  U \in Good
  <2> SUFFICES ASSUME NEW y \in U
               PROVE  h[U] = f[y] + h[U \ {y}]
    OBVIOUS
  <2> DEFINE z == First(U)
  <2>1. z \in U
    BY DEF First
  <2>2. h[U] = f[z] + h[U \ {z}]
    BY <2>1 DEF Adds
  <2> HIDE DEF z
  <2>3. CASE y # z
    <3> DEFINE V == U \ {y}
               W == U \ {z}
               X == V \ {z}
    <3>1. V \in Good /\ W \in Good /\ z \in V /\ y \in W /\ X = W \ {y}
      BY <1>1, <2>1, <2>3
    <3>2. X \in SUBSET S /\ V = U \ {y} /\ W = U \ {z} /\ X = V \ {z}
      OBVIOUS
    <3> HIDE DEF V, W, X
    <3>3. h[V] = f[z] + h[X] /\ h[W] = f[y] + h[X]
      BY <3>1, <3>2
    <3>4. f[y] \in Int /\ f[z] \in Int /\ h[X] \in Int
      BY <2>1, <3>2 DEF Adds
    <3> QED
      BY <2>2, <3>2, <3>3, <3>4
  <2> QED
    BY <2>2, <2>3
<1> HIDE DEF Good
<1>2. \A U \in SUBSET S : U \in Good
  BY <1>1, SubsetInduction
<1> QED
  BY <1>2 DEF Good

\* It depends on nothing but what is added.
LEMMA SameSum ==
  ASSUME NEW S, IsFiniteSet(S), NEW f, NEW g, NEW h, NEW k, Adds(h, f, S), Adds(k, g, S),
         NEW T \in SUBSET S, \A x \in T : f[x] = g[x]
  PROVE  h[T] = k[T]
<1> DEFINE Good == {U \in SUBSET S : U \subseteq T => h[U] = k[U]}
<1>1. ASSUME NEW U \in SUBSET S, \A V \in SUBSET U : V # U => V \in Good
      PROVE  U \in Good
  <2>1. CASE U = {}
    BY <2>1 DEF Adds
  <2>2. CASE U # {}
    <3>1. First(U) \in U
      BY <2>2 DEF First
    <3>2. U \ {First(U)} \in Good
      BY <1>1, <3>1
    <3> QED
      BY <2>2, <3>1, <3>2 DEF Adds
  <2> QED
    BY <2>1, <2>2
<1> HIDE DEF Good
<1>2. \A U \in SUBSET S : U \in Good
  BY <1>1, SubsetInduction
<1> QED
  BY <1>2 DEF Good

\* A sum changes by what one of its terms changes.
LEMMA SumChanges ==
  ASSUME NEW q, NEW r, NEW s, NEW o \in Order,
         \A x \in Order : q[x][s] \in Int /\ r[x][s] \in Int,
         \A x \in Order \ {o} : r[x][s] = q[x][s]
  PROVE  /\ SumOf(q, s) \in Int /\ SumOf(r, s) \in Int
         /\ SumOf(r, s) = SumOf(q, s) + (r[o][s] - q[o][s])
<1> DEFINE f == [x \in Order |-> q[x][s]]
           g == [x \in Order |-> r[x][s]]
           T == Order \ {o}
<1>1. PICK h : Adds(h, f, Order) /\ SumOf(q, s) = h[Order]
  BY SumAdds
<1>2. PICK k : Adds(k, g, Order) /\ SumOf(r, s) = k[Order]
  BY SumAdds
<1>3. /\ f \in [Order -> Int] /\ g \in [Order -> Int] /\ f[o] = q[o][s] /\ g[o] = r[o][s]
      /\ \A x \in T : f[x] = g[x]
      /\ T \in SUBSET Order /\ T = Order \ {o} /\ Order \in SUBSET Order
  OBVIOUS
<1> HIDE DEF f, g, T
<1>4. h[Order] = f[o] + h[T] /\ k[Order] = g[o] + k[T]
  BY <1>1, <1>2, <1>3, AnyFirst, OrdersAreFinite
<1>5. h[T] = k[T]
  BY <1>1, <1>2, <1>3, SameSum, OrdersAreFinite
<1>6. h[T] \in Int /\ h[Order] \in Int /\ k[Order] \in Int
  BY <1>1, <1>2, <1>3 DEF Adds
<1> QED
  BY <1>1, <1>2, <1>3, <1>4, <1>5, <1>6

\* Nothing adds up to nothing.
LEMMA SumOfNothing ==
  ASSUME NEW r, NEW s, \A o \in Order : r[o][s] = 0
  PROVE  SumOf(r, s) = 0
<1> DEFINE f == [x \in Order |-> r[x][s]]
<1>1. PICK h : Adds(h, f, Order) /\ SumOf(r, s) = h[Order]
  BY SumAdds
<1>2. \A x \in Order : f[x] = 0
  OBVIOUS
<1> HIDE DEF f
<1> DEFINE Good == {T \in SUBSET Order : h[T] = 0}
<1>3. ASSUME NEW T \in SUBSET Order, \A U \in SUBSET T : U # T => U \in Good
      PROVE  T \in Good
  <2>1. CASE T = {}
    BY <1>1, <2>1 DEF Adds
  <2>2. CASE T # {}
    <3>1. First(T) \in T
      BY <2>2 DEF First
    <3>2. T \ {First(T)} \in Good
      BY <1>3, <3>1
    <3> QED
      BY <1>1, <1>2, <2>2, <3>1, <3>2 DEF Adds
  <2> QED
    BY <2>1, <2>2
<1> HIDE DEF Good
<1>4. Order \in Good
  BY <1>3, OrdersAreFinite, SubsetInduction
<1> QED
  BY <1>1, <1>4 DEF Good

-----------------------------------------------------------------------------
(* What line items ask for                                                 *)

\* How much of SKU s line item i of o asks for.
Need(o, i, s) == IF Items[o][i].sku = s THEN Items[o][i].qty ELSE 0

\* A set of numbers that has 0 and with i also i + 1 has all up to n.
LEMMA CountInduction ==
  ASSUME NEW n \in Nat, NEW Good, 0 \in Good,
         \A i \in 1 .. n : i - 1 \in Good => i \in Good
  PROVE  \A i \in 0 .. n : i \in Good
<1> DEFINE Bad == {i \in 0 .. n : i \notin Good}
           R == OpToRel(<, Nat)
<1>0. IsWellFoundedOn(R, Nat)
  BY NatLessThanWellFounded
<1>1. Bad \subseteq Nat
  OBVIOUS
<1>2. ASSUME Bad # {}
      PROVE  FALSE
  <2> HIDE DEF Bad, R
  <2>1. PICK i \in Bad : \A j \in Bad : ~(<<j, i>> \in R)
    BY <1>0, <1>1, <1>2, WFMin
  <2>2. i \in 1 .. n /\ i - 1 \in 0 .. n /\ i - 1 < i /\ i \notin Good /\ i - 1 \in Nat /\ i \in Nat
    BY <2>1 DEF Bad
  <2>3. i - 1 \notin Bad
    BY <2>1, <2>2 DEF R, OpToRel
  <2> QED
    BY <2>2, <2>3 DEF Bad
<1> QED
  BY <1>2

\* The first n line items ask for what the first n - 1 do and what the n-th does.
LEMMA AskedAdds ==
  ASSUME NEW o \in Order, NEW s \in Sku
  PROVE  \E g \in [0 .. Len(Items[o]) -> Int] :
           /\ g[0] = 0
           /\ \A i \in 1 .. Len(Items[o]) : g[i] = g[i - 1] + Need(o, i, s)
           /\ \A n \in 0 .. Len(Items[o]) : Shelf!Asked(o, n, s) = g[n]
<1> DEFINE L == Len(Items[o])
           D == 0 .. L
           R == OpToRel(<, Nat)
           bot == 0
           d == [i \in D |-> Need(o, i, s)]
           p == [i \in D |-> IF i = 0 THEN 0 ELSE i - 1]
<1>1. L \in Nat /\ \A i \in 1 .. L : Need(o, i, s) \in Int
  BY CartIsList DEF Need
<1> HIDE DEF L
<1>2. Chain(D, R, bot, d, p)
  <2>1. IsWellFoundedOn(R, D)
    <3>1. IsWellFoundedOn(R, Nat)
      BY NatLessThanWellFounded
    <3>2. D \in SUBSET Nat
      BY <1>1
    <3> HIDE DEF R, D
    <3> QED
      BY <3>1, <3>2, IsWellFoundedOnSubset
  <2>2. bot \in D /\ p \in [D -> D] /\ p[bot] = bot
    BY <1>1
  <2>3. \A x \in D \ {bot} : <<p[x], x>> \in R /\ d[x] \in Int
    BY <1>1 DEF OpToRel
  <2> HIDE DEF D, R, bot, d, p
  <2> QED
    BY <2>1, <2>2, <2>3 DEF Chain
<1>3. \E g \in [D -> Int] : g = [x \in D |-> IF x = bot THEN 0 ELSE d[x] + g[p[x]]]
  <2> HIDE DEF D, R, bot, d, p
  <2> QED
    BY <1>2, Recursion
<1>4. PICK g \in [D -> Int] : g = [x \in D |-> IF x = bot THEN 0 ELSE d[x] + g[p[x]]]
  BY <1>3
<1>5. g[0] = 0 /\ \A i \in 1 .. L : g[i] = g[i - 1] + Need(o, i, s)
  <2>1. g[0] = 0
    BY <1>1, <1>4
  <2>2. ASSUME NEW i \in 1 .. L
        PROVE  g[i] = g[i - 1] + Need(o, i, s)
    <3>1. i \in D /\ i # bot /\ d[i] = Need(o, i, s) /\ p[i] = i - 1 /\ i - 1 \in D
      BY <1>1
    <3>2. g[i] = d[i] + g[p[i]]
      <4> HIDE DEF D, bot, d, p
      <4> QED
        BY <1>4, <3>1
    <3>3. g[i - 1] \in Int /\ Need(o, i, s) \in Int
      BY <1>1, <1>4, <3>1
    <3> QED
      BY <3>1, <3>2, <3>3
  <2> QED
    BY <2>1, <2>2
<1>6. ASSUME NEW n \in 0 .. L
      PROVE  Shelf!Asked(o, n, s) = g[n]
  <2> DEFINE sum[i \in 0 .. n] ==
               IF i = 0 THEN 0
               ELSE sum[i - 1] + (IF Items[o][i].sku = s THEN Items[o][i].qty ELSE 0)
             h == [i \in 0 .. n |-> g[i]]
  <2>1. Shelf!Asked(o, n, s) = sum[n]
    BY DEF Shelf!Asked
  <2>2. h = [i \in 0 .. n |->
               IF i = 0 THEN 0
               ELSE h[i - 1] + (IF Items[o][i].sku = s THEN Items[o][i].qty ELSE 0)]
    <3>1. \A i \in 0 .. n :
            h[i] = IF i = 0 THEN 0
                   ELSE h[i - 1] + (IF Items[o][i].sku = s THEN Items[o][i].qty ELSE 0)
      BY <1>1, <1>5 DEF Need
    <3>2. h = [i \in 0 .. n |-> h[i]]
      OBVIOUS
    <3> HIDE DEF h
    <3> QED
      BY <3>1, <3>2
  <2>3. sum = [i \in 0 .. n |->
               IF i = 0 THEN 0
               ELSE sum[i - 1] + (IF Items[o][i].sku = s THEN Items[o][i].qty ELSE 0)]
    <3> HIDE DEF h
    <3> QED
      BY <2>2
  <2> HIDE DEF sum, h
  <2> DEFINE Good == {i \in 0 .. n : sum[i] = g[i]}
  <2>4. 0 \in Good
    BY <1>1, <1>5, <2>3
  <2>5. ASSUME NEW i \in 1 .. n, i - 1 \in Good
        PROVE  i \in Good
    BY <1>1, <1>5, <2>3, <2>5 DEF Need
  <2>6. n \in Nat
    BY <1>1
  <2> HIDE DEF Good
  <2>7. \A i \in 0 .. n : i \in Good
    BY <2>4, <2>5, <2>6, CountInduction
  <2>8. n \in Good
    BY <2>6, <2>7
  <2> QED
    BY <2>1, <2>8 DEF Good
<1> QED
  BY <1>4, <1>5, <1>6 DEF L

-----------------------------------------------------------------------------
(* The stock and what the orders hold                                      *)

\* A reservation takes line items one by one: it has inserted what those
\* before the current one ask for, and taken as much from the shelf.
Taking(w) ==
  /\ pc[w] = "idle" => \A s \in Sku : rows[w][s] = 0 /\ delta[w][s] = 0
  /\ pc[w] # "idle" =>
       /\ item[w] \in 1 .. Len(Items[job[w]]) + 1
       /\ \A s \in Sku : /\ rows[w][s] = Shelf!Asked(job[w], item[w] - 1, s)
                         /\ delta[w][s] = -rows[w][s]

\* A compensation gives back no more than its order holds and than it
\* releases, of an SKU that is not listed with a quantity below 0, and just
\* that if order.created was delivered once.
GivingBack(w) ==
  /\ pc[w] # "idle" => answered[job[w]] # {}
  /\ pc[w] \in {"idle", "saga", "select"} =>
       \A s \in Sku : rows[w][s] = 0 /\ delta[w][s] = 0
  /\ pc[w] = "restock" => \A s \in Sku :
       /\ rows[w][s] = 0
       /\ ~Shelf!Negative(job[w], s) =>
            delta[w][s] >= 0 /\ delta[w][s] + list[w][s] <= reserved[job[w]][s]
       /\ deliveries[job[w]] <= 1 => delta[w][s] + list[w][s] = reserved[job[w]][s]
  /\ pc[w] = "done" => \A s \in Sku :
       /\ ~Shelf!Negative(job[w], s) => delta[w][s] \in 0 .. rows[w][s]
       /\ deliveries[job[w]] <= 1 => /\ delta[w][s] = reserved[job[w]][s]
                                     /\ rows[w][s] = reserved[job[w]][s]

\* Reserver w works on a delivery of its own, not on one that is answered.
Answering(w) ==
  pc[w] # "idle" =>
    /\ deliveries[job[w]] > 0
    /\ answered[job[w]] # {} => deliveries[job[w]] > 1
    /\ \A v \in Reserver \ {w} : pc[v] # "idle" /\ job[v] = job[w] => deliveries[job[w]] > 1

\* The second invariant: inductive together with IInv.
TotalInv ==
  /\ \A w \in Reserver : Taking(w) /\ Answering(w)
  /\ \A w \in Compensator : GivingBack(w)
  /\ \A o \in Order : answered[o] # {} => deliveries[o] > 0
  /\ StockIsConserved

\* What the first n line items ask for, one line item at a time.
LEMMA ItemsAsked ==
  ASSUME NEW o \in Order, NEW s \in Sku
  PROVE  /\ Len(Items[o]) \in Nat
         /\ Shelf!Asked(o, 0, s) = 0
         /\ \A n \in 0 .. Len(Items[o]) : Shelf!Asked(o, n, s) \in Int
         /\ \A n \in 1 .. Len(Items[o]) :
              Shelf!Asked(o, n, s) = Shelf!Asked(o, n - 1, s) + Need(o, n, s)
<1>1. Len(Items[o]) \in Nat
  BY CartIsList
<1>2. PICK g \in [0 .. Len(Items[o]) -> Int] :
        /\ g[0] = 0
        /\ \A i \in 1 .. Len(Items[o]) : g[i] = g[i - 1] + Need(o, i, s)
        /\ \A n \in 0 .. Len(Items[o]) : Shelf!Asked(o, n, s) = g[n]
  BY AskedAdds
<1>3. \A n \in 0 .. Len(Items[o]) : Shelf!Asked(o, n, s) = g[n] /\ g[n] \in Int
  BY <1>2
<1>4. \A n \in 1 .. Len(Items[o]) : n \in 0 .. Len(Items[o]) /\ n - 1 \in 0 .. Len(Items[o])
  BY <1>1
<1>5. 0 \in 0 .. Len(Items[o])
  BY <1>1
<1> QED
  BY <1>1, <1>2, <1>3, <1>4, <1>5

\* What all orders hold is a sum, which changes as its summands do.
LEMMA HeldIsSum ==
  ASSUME NEW s
  PROVE  HeldOf(s) = SumOf(reserved, s) /\ HeldOf(s)' = SumOf(reserved', s)
BY DEF HeldOf, SumOf, MapThenSumSet, MapThenFoldSet

\* A step of order o that puts no more on the shelf than o gives away, except
\* of an SKU that o lists with a quantity below 0 and has asked for twice.
LEMMA TotalStays ==
  ASSUME TypeOK, TypeOK', StockIsConserved, NEW o \in Order, deliveries' = deliveries,
         \A p \in Order \ {o} : reserved'[p] = reserved[p],
         \A s \in Sku :
           /\ ~Shelf!Negative(o, s) =>
                stock'[s] + reserved'[o][s] <= stock[s] + reserved[o][s]
           /\ deliveries[o] <= 1 => stock'[s] + reserved'[o][s] = stock[s] + reserved[o][s]
  PROVE  StockIsConserved'
<1> SUFFICES ASSUME NEW s \in Sku
             PROVE  /\ (\A p \in Order : Shelf!Negative(p, s) => deliveries'[p] <= 1)
                         => stock'[s] + HeldOf(s)' <= Stock0[s]
                    /\ (\A p \in Order : deliveries'[p] <= 1)
                         => stock'[s] + HeldOf(s)' = Stock0[s]
  BY DEF StockIsConserved
<1>1. /\ (\A p \in Order : Shelf!Negative(p, s) => deliveries[p] <= 1)
           => stock[s] + HeldOf(s) <= Stock0[s]
      /\ (\A p \in Order : deliveries[p] <= 1) => stock[s] + HeldOf(s) = Stock0[s]
  BY DEF StockIsConserved
<1>2. \A p \in Order : reserved[p][s] \in Int /\ reserved'[p][s] \in Int
  BY DEF TypeOK
<1>3. \A p \in Order \ {o} : reserved'[p][s] = reserved[p][s]
  OBVIOUS
<1>4. /\ SumOf(reserved, s) \in Int /\ SumOf(reserved', s) \in Int
      /\ SumOf(reserved', s) = SumOf(reserved, s) + (reserved'[o][s] - reserved[o][s])
  BY <1>2, <1>3, SumChanges
<1>5. HeldOf(s) = SumOf(reserved, s) /\ HeldOf(s)' = SumOf(reserved', s)
  BY HeldIsSum
<1>6. stock[s] \in Int /\ stock'[s] \in Int /\ Stock0[s] \in Int
  BY StockAssumption DEF TypeOK
<1>7. /\ ~Shelf!Negative(o, s) =>
           stock'[s] + reserved'[o][s] <= stock[s] + reserved[o][s]
      /\ deliveries[o] <= 1 => stock'[s] + reserved'[o][s] = stock[s] + reserved[o][s]
  OBVIOUS
<1>8. reserved[o][s] \in Int /\ reserved'[o][s] \in Int
  BY <1>2
<1> HIDE DEF HeldOf
<1>9. ASSUME \A p \in Order : Shelf!Negative(p, s) => deliveries'[p] <= 1
      PROVE  stock'[s] + SumOf(reserved', s) <= Stock0[s]
  <2>1. stock[s] + SumOf(reserved, s) <= Stock0[s]
    BY <1>1, <1>5, <1>9
  <2>2. stock'[s] + reserved'[o][s] <= stock[s] + reserved[o][s]
    BY <1>6, <1>7, <1>8, <1>9
  <2> QED
    BY <1>4, <1>6, <1>8, <2>1, <2>2
<1>10. ASSUME \A p \in Order : deliveries'[p] <= 1
       PROVE  stock'[s] + SumOf(reserved', s) = Stock0[s]
  BY <1>1, <1>4, <1>5, <1>6, <1>7, <1>8, <1>10
<1> QED
  BY <1>5, <1>9, <1>10

\* A step that commits nothing leaves the totals alone.
LEMMA TotalQuiet ==
  ASSUME StockIsConserved, UNCHANGED <<stock, reserved>>, TypeOK, TypeOK',
         \A o \in Order : deliveries[o] <= deliveries'[o]
  PROVE  StockIsConserved'
<1> SUFFICES ASSUME NEW s \in Sku
             PROVE  /\ (\A p \in Order : Shelf!Negative(p, s) => deliveries'[p] <= 1)
                         => stock'[s] + HeldOf(s)' <= Stock0[s]
                    /\ (\A p \in Order : deliveries'[p] <= 1)
                         => stock'[s] + HeldOf(s)' = Stock0[s]
  BY DEF StockIsConserved
<1>1. HeldOf(s)' = HeldOf(s)
  BY HeldIsSum
<1>2. \A p \in Order : deliveries'[p] <= 1 => deliveries[p] <= 1
  BY DEF TypeOK
<1> QED
  BY <1>1, <1>2 DEF StockIsConserved

-----------------------------------------------------------------------------
(* The second invariant, step by step                                      *)

\* The transactions of the others stay where they are.
Aside(w) ==
  \A v \in Worker \ {w} :
    /\ pc'[v] = pc[v] /\ job'[v] = job[v] /\ item'[v] = item[v]
    /\ list'[v] = list[v] /\ queue'[v] = queue[v]
    /\ delta'[v] = delta[v] /\ rows'[v] = rows[v]

\* What w does does not disturb the compensations of the others: it leaves
\* the reservations of their orders alone, or changes those of an order that
\* was delivered twice, and only adds to them where no quantity is below 0.
LeavesHeld(w) ==
  \A v \in Compensator \ {w} : pc[v] \in {"restock", "done"} =>
    \/ reserved'[job[v]] = reserved[job[v]]
    \/ /\ deliveries[job[v]] > 1
       /\ \A s \in Sku : \/ Shelf!Negative(job[v], s)
                          \/ reserved'[job[v]][s] >= reserved[job[v]][s]

\* Deliveries are counted up, and no answer is taken back.
OnlyMore ==
  \A o \in Order : deliveries[o] <= deliveries'[o] /\ answered[o] \subseteq answered'[o]

\* What w does leaves the reservations of the others where they are ...
LEMMA OthersTake ==
  ASSUME NEW w \in Worker, Aside(w), NEW v \in Reserver, v # w, Taking(v)
  PROVE  Taking(v)'
<1>1. /\ pc'[v] = pc[v] /\ job'[v] = job[v] /\ item'[v] = item[v]
      /\ delta'[v] = delta[v] /\ rows'[v] = rows[v]
  BY DEF Aside, Worker
<1> QED
  BY <1>1 DEF Taking

\* ... and their compensations.
LEMMA OthersGiveBack ==
  ASSUME TypeOK, TypeOK', JobsAreOrders, NEW w \in Worker, Aside(w), LeavesHeld(w), OnlyMore,
         NEW v \in Compensator, v # w, GivingBack(v)
  PROVE  GivingBack(v)'
<1>1. /\ pc'[v] = pc[v] /\ job'[v] = job[v] /\ list'[v] = list[v]
      /\ delta'[v] = delta[v] /\ rows'[v] = rows[v]
  BY DEF Aside, Worker
<1>2. pc[v] # "idle" => answered'[job[v]] # {} /\ deliveries[job[v]] <= deliveries'[job[v]]
  BY DEF GivingBack, JobsAreOrders, Worker, OnlyMore
<1>3. CASE pc[v] \in {"idle", "saga", "select"}
  BY <1>1, <1>2, <1>3 DEF GivingBack
<1>4. CASE pc[v] \in {"restock", "done"}
  <2>1. /\ job[v] \in Order /\ v \in Worker
        /\ deliveries[job[v]] \in Nat /\ deliveries'[job[v]] \in Nat
    BY <1>4 DEF JobsAreOrders, Worker, TypeOK
  <2>2. \A s \in Sku :
          /\ reserved[job[v]][s] \in Int /\ reserved'[job[v]][s] \in Int
          /\ delta[v][s] \in Int /\ list[v][s] \in Int /\ rows[v][s] \in Int
    BY <2>1 DEF TypeOK
  <2>3. /\ \A s \in Sku : \/ Shelf!Negative(job[v], s)
                          \/ reserved'[job[v]][s] >= reserved[job[v]][s]
        /\ deliveries'[job[v]] <= 1 =>
             deliveries[job[v]] <= 1 /\ \A s \in Sku : reserved'[job[v]][s] = reserved[job[v]][s]
    BY <1>2, <1>4, <2>1, <2>2 DEF LeavesHeld
  <2>4. CASE pc[v] = "restock"
    <3> SUFFICES ASSUME NEW s \in Sku
                 PROVE  /\ rows[v][s] = 0
                        /\ ~Shelf!Negative(job[v], s) =>
                             /\ delta[v][s] >= 0
                             /\ delta[v][s] + list[v][s] <= reserved'[job[v]][s]
                        /\ deliveries'[job[v]] <= 1 =>
                             delta[v][s] + list[v][s] = reserved'[job[v]][s]
      BY <1>1, <1>2, <2>4 DEF GivingBack
    <3> QED
      BY <2>2, <2>3, <2>4 DEF GivingBack
  <2>5. CASE pc[v] = "done"
    <3> SUFFICES ASSUME NEW s \in Sku
                 PROVE  /\ ~Shelf!Negative(job[v], s) => delta[v][s] \in 0 .. rows[v][s]
                        /\ deliveries'[job[v]] <= 1 => /\ delta[v][s] = reserved'[job[v]][s]
                                                       /\ rows[v][s] = reserved'[job[v]][s]
      BY <1>1, <1>2, <2>5 DEF GivingBack
    <3> QED
      BY <2>2, <2>3, <2>5 DEF GivingBack
  <2> QED
    BY <1>4, <2>4, <2>5
<1>5. pc[v] \in {"idle", "saga", "select", "restock", "done"}
  <2>1. v \notin Reserver /\ v \in Worker
    BY StockAssumption DEF Worker
  <2> QED
    BY <2>1 DEF TypeOK, JobsAreOrders
<1> QED
  BY <1>3, <1>4, <1>5

\* A step that answers nothing and starts no reservation.
LEMMA AnswersStay ==
  ASSUME NEW w \in Worker, Aside(w), UNCHANGED <<deliveries, answered>>,
         pc'[w] = "idle" \/ (pc[w] # "idle" /\ job'[w] = job[w]) \/ w \notin Reserver,
         \A v \in Reserver : Answering(v)
  PROVE  \A v \in Reserver : Answering(v)'
<1>1. \A v \in Reserver : pc'[v] # "idle" => pc[v] # "idle" /\ job'[v] = job[v]
  BY DEF Aside, Worker
<1> SUFFICES ASSUME NEW v \in Reserver, pc'[v] # "idle"
             PROVE  /\ deliveries[job[v]] > 0
                    /\ answered[job[v]] # {} => deliveries[job[v]] > 1
                    /\ \A u \in Reserver \ {v} :
                         pc'[u] # "idle" /\ job'[u] = job[v] => deliveries[job[v]] > 1
  BY <1>1 DEF Answering
<1> QED
  BY <1>1 DEF Answering

\* A step of a transaction before its end.
LEMMA TotalsStep ==
  ASSUME IInv, IInv', TotalInv, NEW w \in Worker, Aside(w),
         UNCHANGED <<committed, deliveries>>,
         pc'[w] = "idle" \/ (pc[w] # "idle" /\ job'[w] = job[w]) \/ w \notin Reserver,
         w \in Reserver => Taking(w)',
         w \in Compensator => GivingBack(w)'
  PROVE  TotalInv'
<1>1. UNCHANGED <<stock, reserved>> /\ UNCHANGED <<deliveries, answered>>
  BY DEF committed
<1>2. \A v \in Reserver : Answering(v)'
  BY <1>1, AnswersStay DEF TotalInv
<1>3. ASSUME NEW v \in Reserver
      PROVE  Taking(v)'
  <2>1. CASE v = w
    BY <2>1
  <2>2. CASE v # w
    BY <2>2, OthersTake DEF TotalInv
  <2> QED
    BY <2>1, <2>2
<1>4. ASSUME NEW v \in Compensator
      PROVE  GivingBack(v)'
  <2>1. CASE v = w
    BY <2>1
  <2>2. CASE v # w
    <3>1. LeavesHeld(w) /\ OnlyMore
      BY <1>1 DEF LeavesHeld, OnlyMore, IInv, TypeOK
    <3> QED
      BY <2>2, <3>1, OthersGiveBack DEF TotalInv, IInv
  <2> QED
    BY <2>1, <2>2
<1>5. StockIsConserved'
  <2>1. \A o \in Order : deliveries[o] <= deliveries'[o]
    BY <1>1 DEF IInv, TypeOK
  <2> QED
    BY <1>1, <2>1, TotalQuiet DEF TotalInv, IInv
<1>6. (\A o \in Order : answered[o] # {} => deliveries[o] > 0)'
  BY <1>1 DEF TotalInv
<1> QED
  BY <1>2, <1>3, <1>4, <1>5, <1>6 DEF TotalInv

LEMMA BeginReserveTotals ==
  ASSUME IInv, IInv', TotalInv, NEW w \in Reserver, NEW o \in Order, BeginReserve(w, o)
  PROVE  TotalInv'
<1>1. w \in Worker /\ w \notin Compensator
  BY StockAssumption DEF Worker
<1>2. /\ pc[w] = "idle" /\ pc'[w] = "take" /\ job'[w] = o /\ item'[w] = 1
      /\ delta' = delta /\ rows' = rows /\ list' = list
      /\ deliveries' = [deliveries EXCEPT ![o] = @ + 1]
      /\ UNCHANGED <<stock, reserved, answered>>
      /\ Aside(w)
  BY <1>1 DEF BeginReserve, committed, IInv, TypeOK, Aside
<1>3. \A p \in Order : /\ deliveries[p] \in Nat /\ deliveries'[p] \in Nat
                       /\ deliveries'[p] = IF p = o THEN deliveries[p] + 1 ELSE deliveries[p]
  BY <1>2 DEF IInv, TypeOK
<1>4. Taking(w)'
  <2>1. 1 \in 1 .. Len(Items[o]) + 1 /\ 1 - 1 = 0
    BY CartIsList
  <2>2. \A s \in Sku : rows[w][s] = 0 /\ delta[w][s] = 0
    BY <1>2 DEF TotalInv, Taking
  <2>3. \A s \in Sku : Shelf!Asked(o, 0, s) = 0
    BY ItemsAsked
  <2>4. \A s \in Sku : /\ rows'[w][s] = Shelf!Asked(o, 1 - 1, s)
                       /\ delta'[w][s] = -rows'[w][s]
    BY <1>2, <2>1, <2>2, <2>3
  <2> QED
    BY <1>2, <2>1, <2>4 DEF Taking
<1>5. ASSUME NEW v \in Reserver
      PROVE  Taking(v)'
  BY <1>1, <1>2, <1>4, <1>5, OthersTake DEF TotalInv
<1>6. ASSUME NEW v \in Compensator
      PROVE  GivingBack(v)'
  <2>1. LeavesHeld(w) /\ OnlyMore
    BY <1>2, <1>3 DEF LeavesHeld, OnlyMore
  <2>2. v # w
    BY <1>1
  <2> QED
    BY <1>1, <1>2, <2>1, <2>2, OthersGiveBack DEF TotalInv, IInv
<1>7. ASSUME NEW v \in Reserver, pc'[v] # "idle"
      PROVE  Answering(v)'
  <2>1. ASSUME NEW u \in Reserver, u # w
        PROVE  pc'[u] = pc[u] /\ job'[u] = job[u]
    BY <1>2, <2>1 DEF Aside, Worker
  <2>2. CASE v = w
    <3>1. \A u \in Reserver \ {w} : pc[u] # "idle" /\ job[u] = o => deliveries[o] > 0
      BY DEF TotalInv, Answering
    <3>2. answered[o] # {} => deliveries[o] > 0
      BY DEF TotalInv
    <3> SUFFICES /\ deliveries'[o] > 0
                 /\ answered[o] # {} => deliveries'[o] > 1
                 /\ \A u \in Reserver \ {w} :
                      pc'[u] # "idle" /\ job'[u] = o => deliveries'[o] > 1
      BY <1>2, <2>2 DEF Answering
    <3> QED
      BY <1>3, <2>1, <3>1, <3>2
  <2>3. CASE v # w
    <3>1. pc[v] # "idle" /\ job'[v] = job[v] /\ job[v] \in Order
      BY <1>7, <2>1, <2>3 DEF IInv, JobsAreOrders, Worker
    <3>2. /\ deliveries[job[v]] > 0
          /\ answered[job[v]] # {} => deliveries[job[v]] > 1
          /\ \A u \in Reserver \ {v} :
               pc[u] # "idle" /\ job[u] = job[v] => deliveries[job[v]] > 1
      BY <3>1 DEF TotalInv, Answering
    <3>3. /\ deliveries'[job[v]] >= deliveries[job[v]]
          /\ job[v] = o => deliveries'[job[v]] > 1
      BY <1>3, <3>1, <3>2
    <3> SUFFICES /\ deliveries'[job[v]] > 0
                 /\ answered[job[v]] # {} => deliveries'[job[v]] > 1
                 /\ \A u \in Reserver \ {v} :
                      pc'[u] # "idle" /\ job'[u] = job[v] => deliveries'[job[v]] > 1
      BY <1>2, <3>1 DEF Answering
    <3>4. deliveries[job[v]] \in Nat /\ deliveries'[job[v]] \in Nat
      BY <1>3, <3>1
    <3>5. ASSUME NEW u \in Reserver \ {v}, pc'[u] # "idle", job'[u] = job[v]
          PROVE  deliveries'[job[v]] > 1
      <4>1. CASE u = w
        BY <1>2, <3>3, <3>5, <4>1
      <4>2. CASE u # w
        BY <2>1, <3>2, <3>3, <3>4, <3>5, <4>2
      <4> QED
        BY <4>1, <4>2
    <3> QED
      BY <3>2, <3>3, <3>4, <3>5
  <2> QED
    BY <2>2, <2>3
<1>8. ASSUME NEW v \in Reserver
      PROVE  Answering(v)'
  BY <1>7 DEF Answering
<1>9. (\A p \in Order : answered[p] # {} => deliveries[p] > 0)'
  BY <1>2, <1>3 DEF TotalInv
<1>10. StockIsConserved'
  BY <1>2, <1>3, TotalQuiet DEF TotalInv, IInv
<1> QED
  BY <1>5, <1>6, <1>8, <1>9, <1>10 DEF TotalInv

LEMMA TakeItemTotals ==
  ASSUME IInv, IInv', TotalInv, NEW w \in Reserver, TakeItem(w)
  PROVE  TotalInv'
<1>1. w \in Worker /\ w \notin Compensator /\ pc[w] = "take"
  BY StockAssumption DEF Worker, TakeItem
<1> DEFINE s == Line(w).sku
           q == Line(w).qty
           o == job[w]
           i == item[w]
<1>2. /\ o \in Order /\ i \in 1 .. Len(Items[o]) /\ Len(Items[o]) \in Nat
      /\ s \in Sku /\ q \in Int
  BY <1>1, LineIsItem DEF IInv, JobsAreOrders
<1>3. /\ delta'[w] = [delta[w] EXCEPT ![s] = @ - q]
      /\ rows'[w] = [rows[w] EXCEPT ![s] = @ + q]
      /\ item'[w] = i + 1 /\ job'[w] = o /\ pc'[w] # "idle" /\ pc[w] # "idle"
      /\ Aside(w) /\ UNCHANGED <<committed, deliveries>>
  BY <1>1 DEF TakeItem, IInv, TypeOK, Aside
<1>4. Taking(w)'
  <2>1. i + 1 \in 1 .. Len(Items[o]) + 1 /\ (i + 1) - 1 = i
    BY <1>2
  <2>2. ASSUME NEW r \in Sku
        PROVE  rows'[w][r] = Shelf!Asked(o, (i + 1) - 1, r) /\ delta'[w][r] = -rows'[w][r]
    <3>1. rows[w][r] = Shelf!Asked(o, i - 1, r) /\ delta[w][r] = -rows[w][r]
      BY <1>1 DEF TotalInv, Taking
    <3>2. Shelf!Asked(o, i, r) = Shelf!Asked(o, i - 1, r) + Need(o, i, r)
      BY <1>2, ItemsAsked
    <3>3. rows[w][r] \in Int /\ delta[w][r] \in Int /\ rows[w] \in [Sku -> Int] /\ delta[w] \in [Sku -> Int]
      BY <1>1 DEF IInv, TypeOK
    <3>4. Need(o, i, r) = IF r = s THEN q ELSE 0
      BY DEF Need, Line
    <3> HIDE DEF s, q, o, i
    <3>5. rows'[w][r] = rows[w][r] + Need(o, i, r)
      BY <1>2, <1>3, <3>3, <3>4
    <3>6. delta'[w][r] = delta[w][r] - Need(o, i, r) /\ Need(o, i, r) \in Int
      BY <1>2, <1>3, <3>3, <3>4
    <3> QED
      BY <2>1, <3>1, <3>2, <3>3, <3>5, <3>6
  <2> HIDE DEF s, q, o, i
  <2> QED
    BY <1>3, <2>1, <2>2 DEF Taking
<1> HIDE DEF s, q, o, i
<1>5. job'[w] = job[w]
  BY <1>3 DEF o
<1> QED
  BY <1>1, <1>3, <1>4, <1>5, TotalsStep

LEMMA MissItemTotals ==
  ASSUME IInv, IInv', TotalInv, NEW w \in Reserver, MissItem(w)
  PROVE  TotalInv'
<1>1. w \in Worker /\ w \notin Compensator
  BY StockAssumption DEF Worker
<1>2. /\ pc[w] # "idle" /\ pc'[w] # "idle" /\ UNCHANGED <<job, item, delta, rows>>
      /\ job'[w] = job[w] /\ Aside(w) /\ UNCHANGED <<committed, deliveries>>
  BY <1>1 DEF MissItem, IInv, TypeOK, Aside
<1>3. Taking(w)'
  BY <1>2 DEF TotalInv, Taking
<1> QED
  BY <1>1, <1>2, <1>3, TotalsStep

LEMMA BeginCompensateTotals ==
  ASSUME IInv, IInv', TotalInv, NEW w \in Compensator, NEW o \in Order, BeginCompensate(w, o)
  PROVE  TotalInv'
<1>1. w \in Worker /\ w \notin Reserver
  BY StockAssumption DEF Worker
<1>2. /\ pc[w] = "idle" /\ pc'[w] = "saga" /\ job'[w] = o /\ UNCHANGED <<delta, rows>>
      /\ Aside(w) /\ UNCHANGED <<committed, deliveries>> /\ answered[o] # {}
  BY <1>1 DEF BeginCompensate, IInv, TypeOK, Aside
<1>3. GivingBack(w)'
  BY <1>2 DEF TotalInv, GivingBack, committed
<1> QED
  BY <1>1, <1>2, <1>3, TotalsStep

LEMMA MarkSagaTotals ==
  ASSUME IInv, IInv', TotalInv, NEW w \in Compensator, MarkSaga(w)
  PROVE  TotalInv'
<1>1. w \in Worker /\ w \notin Reserver
  BY StockAssumption DEF Worker
<1>2. /\ pc[w] = "saga" /\ pc'[w] = "select" /\ UNCHANGED <<job, delta, rows>>
      /\ Aside(w) /\ UNCHANGED <<committed, deliveries>>
  BY <1>1 DEF MarkSaga, IInv, TypeOK, Aside
<1>3. GivingBack(w)'
  BY <1>2 DEF TotalInv, GivingBack, committed
<1> QED
  BY <1>1, <1>2, <1>3, TotalsStep

LEMMA SelectReservedTotals ==
  ASSUME IInv, IInv', TotalInv, NEW w \in Compensator, SelectReserved(w)
  PROVE  TotalInv'
<1>1. w \in Worker /\ w \notin Reserver
  BY StockAssumption DEF Worker
<1>2. /\ pc[w] = "select" /\ pc'[w] = "restock" /\ UNCHANGED <<job, delta, rows>>
      /\ list'[w] = reserved[job[w]] /\ UNCHANGED <<reserved, answered, deliveries>>
      /\ Aside(w) /\ UNCHANGED <<committed, deliveries>>
  BY <1>1 DEF SelectReserved, IInv, TypeOK, Aside, committed
<1>3. GivingBack(w)'
  <2>1. \A s \in Sku : rows[w][s] = 0 /\ delta[w][s] = 0 /\ reserved[job[w]][s] \in Int
    BY <1>1, <1>2 DEF TotalInv, GivingBack, IInv, TypeOK, JobsAreOrders
  <2> QED
    BY <1>2, <2>1 DEF TotalInv, GivingBack
<1> QED
  BY <1>1, <1>2, <1>3, TotalsStep

LEMMA RestockTotals ==
  ASSUME IInv, IInv', TotalInv, NEW w \in Compensator, Restock(w)
  PROVE  TotalInv'
<1> DEFINE s == Head(queue[w])
<1>1. /\ w \in Worker /\ w \notin Reserver
      /\ queue[w] \in Seq(Sku) /\ queue[w] # <<>> /\ job[w] \in Order
  BY StockAssumption DEF Worker, Restock, IInv, TypeOK, JobsAreOrders
<1>2. /\ pc[w] = "restock" /\ pc'[w] = "restock" /\ UNCHANGED <<job, rows>>
      /\ delta'[w] = [delta[w] EXCEPT ![s] = @ + list[w][s]]
      /\ list'[w] = [list[w] EXCEPT ![s] = 0]
      /\ UNCHANGED <<reserved, answered, deliveries>>
      /\ Aside(w) /\ UNCHANGED <<committed, deliveries>>
  BY <1>1 DEF Restock, IInv, TypeOK, Aside, committed
<1>3. s \in Sku
  BY <1>1, HeadAndTail
<1> HIDE DEF s
<1>4. GivingBack(w)'
  <2>1. \A r \in Sku : /\ rows[w][r] = 0
                       /\ ~Shelf!Negative(job[w], r) =>
                            /\ delta[w][r] >= 0
                            /\ delta[w][r] + list[w][r] <= reserved[job[w]][r]
                       /\ deliveries[job[w]] <= 1 =>
                            delta[w][r] + list[w][r] = reserved[job[w]][r]
    BY <1>2 DEF TotalInv, GivingBack
  <2>2. ASSUME NEW r \in Sku
        PROVE  /\ ~Shelf!Negative(job[w], r) => delta'[w][r] >= 0
               /\ delta'[w][r] + list'[w][r] = delta[w][r] + list[w][r]
    <3>1. delta[w] \in [Sku -> Int] /\ list[w] \in [Sku -> Int]
      BY <1>1 DEF IInv, TypeOK
    <3>2. ~Shelf!Negative(job[w], r) => delta[w][r] >= 0 /\ list[w][r] >= 0
      <4>1. Bookable(job[w], r, list[w][r]) /\ list[w][r] \in Int
        BY <1>1, <1>2, <3>1 DEF IInv, BooksFollowCarts
      <4> QED
        BY <2>1, <4>1 DEF Bookable
    <3>3. CASE r = s
      BY <1>2, <3>1, <3>2, <3>3
    <3>4. CASE r # s
      BY <1>2, <3>1, <3>2, <3>4
    <3> QED
      BY <3>3, <3>4
  <2>3. answered[job[w]] # {}
    BY <1>2 DEF TotalInv, GivingBack
  <2>4. \A r \in Sku : rows'[w][r] = 0
    BY <1>2, <2>1
  <2> QED
    BY <1>2, <2>1, <2>2, <2>3, <2>4 DEF GivingBack
<1> QED
  BY <1>1, <1>2, <1>4, TotalsStep

LEMMA ReleaseRowsTotals ==
  ASSUME IInv, IInv', TotalInv, NEW w \in Compensator, ReleaseRows(w)
  PROVE  TotalInv'
<1>1. w \in Worker /\ w \notin Reserver
  BY StockAssumption DEF Worker
<1>2. /\ pc[w] = "restock" /\ pc'[w] = "done" /\ UNCHANGED <<job, delta>>
      /\ rows'[w] = reserved[job[w]] /\ queue[w] = <<>>
      /\ UNCHANGED <<reserved, answered, deliveries>>
      /\ Aside(w) /\ UNCHANGED <<committed, deliveries>>
  BY <1>1 DEF ReleaseRows, IInv, TypeOK, Aside, committed
<1>3. GivingBack(w)'
  <2>1. \A s \in Sku : /\ ~Shelf!Negative(job[w], s) =>
                            /\ delta[w][s] >= 0
                            /\ delta[w][s] + list[w][s] <= reserved[job[w]][s]
                       /\ deliveries[job[w]] <= 1 =>
                            delta[w][s] + list[w][s] = reserved[job[w]][s]
    BY <1>2 DEF TotalInv, GivingBack
  <2>2. \A s \in Sku : list[w][s] = 0
    <3>1. Len(queue[w]) = 0
      BY <1>2
    <3> QED
      BY <1>2, <3>1 DEF IInv, WalksAreComplete
  <2>3. \A s \in Sku : delta[w][s] \in Int /\ reserved[job[w]][s] \in Int
    BY <1>1, <1>2 DEF IInv, TypeOK, JobsAreOrders
  <2>4. answered[job[w]] # {}
    BY <1>2 DEF TotalInv, GivingBack
  <2>5. \A s \in Sku : /\ ~Shelf!Negative(job[w], s) => delta[w][s] \in 0 .. reserved[job[w]][s]
                       /\ deliveries[job[w]] <= 1 => delta[w][s] = reserved[job[w]][s]
    BY <2>1, <2>2, <2>3
  <2> QED
    BY <1>2, <2>4, <2>5 DEF GivingBack
<1> QED
  BY <1>1, <1>2, <1>3, TotalsStep

\* The end of a transaction moves nobody else, and leaves nothing behind.
LEMMA EndTxLeaves ==
  ASSUME TypeOK, NEW w \in Worker, EndTx(w)
  PROVE  /\ Aside(w) /\ pc'[w] = "idle"
         /\ \A s \in Sku : rows'[w][s] = 0 /\ delta'[w][s] = 0
BY DEF TypeOK, EndTx, Aside, Zero

LEMMA CommitReserveTotals ==
  ASSUME IInv, IInv', TotalInv, NEW w \in Reserver, CommitReserve(w)
  PROVE  TotalInv'
<1> DEFINE o == job[w]
<1>1. w \in Worker /\ w \notin Compensator /\ pc[w] # "idle" /\ o \in Order
  BY StockAssumption DEF Worker, CommitReserve, IInv, JobsAreOrders
<1>2. /\ Aside(w) /\ pc'[w] = "idle"
      /\ \A s \in Sku : rows'[w][s] = 0 /\ delta'[w][s] = 0
  BY <1>1, EndTxLeaves DEF CommitReserve, IInv
<1>3. /\ deliveries' = deliveries
      /\ \A s \in Sku : /\ stock'[s] = stock[s] + delta[w][s]
                        /\ reserved'[o][s] = reserved[o][s] + rows[w][s]
      /\ \A p \in Order \ {o} : reserved'[p] = reserved[p] /\ answered'[p] = answered[p]
      /\ answered[o] \subseteq answered'[o]
  BY <1>1 DEF CommitReserve, Plus, IInv, TypeOK
<1>4. /\ deliveries[o] > 0
      /\ answered[o] # {} => deliveries[o] > 1
      /\ \A v \in Reserver \ {w} : pc[v] # "idle" /\ job[v] = o => deliveries[o] > 1
  BY <1>1 DEF TotalInv, Answering
<1>5. \A s \in Sku : /\ delta[w][s] = -rows[w][s] /\ rows[w][s] \in Int
                     /\ stock[s] \in Int /\ \A p \in Order : reserved[p][s] \in Int
                     /\ rows[w][s] >= 0 \/ Shelf!Negative(o, s)
  <2>1. \A s \in Sku : Bookable(o, s, rows[w][s])
    BY <1>1 DEF IInv, BooksFollowCarts
  <2>2. \A s \in Sku : rows[w][s] \in Int
    BY <1>1 DEF IInv, TypeOK
  <2>3. \A s \in Sku : rows[w][s] >= 0 \/ Shelf!Negative(o, s)
    BY <2>1, <2>2 DEF Bookable
  <2>4. \A s \in Sku : stock[s] \in Int /\ \A p \in Order : reserved[p][s] \in Int
    BY DEF IInv, TypeOK
  <2>5. \A s \in Sku : delta[w][s] = -rows[w][s]
    BY <1>1 DEF TotalInv, Taking
  <2> QED
    BY <2>2, <2>3, <2>4, <2>5
<1> HIDE DEF o
<1>6. StockIsConserved'
  <2>1. \A s \in Sku : stock'[s] + reserved'[o][s] = stock[s] + reserved[o][s]
    BY <1>1, <1>3, <1>5
  <2>2. \A s \in Sku : stock[s] + reserved[o][s] \in Int
    BY <1>1, <1>5
  <2> QED
    BY <1>1, <1>3, <2>1, <2>2, TotalStays DEF TotalInv, IInv
<1>7. ASSUME NEW v \in Reserver
      PROVE  Taking(v)'
  <2>1. CASE v = w
    BY <1>2, <2>1 DEF Taking
  <2>2. CASE v # w
    BY <1>1, <1>2, <2>2, OthersTake DEF TotalInv
  <2> QED
    BY <2>1, <2>2
<1>8. ASSUME NEW v \in Compensator
      PROVE  GivingBack(v)'
  <2>1. LeavesHeld(w)
    <3> SUFFICES ASSUME NEW u \in Compensator \ {w}, pc[u] \in {"restock", "done"}
                 PROVE  \/ reserved'[job[u]] = reserved[job[u]]
                        \/ /\ deliveries[job[u]] > 1
                           /\ \A s \in Sku : \/ Shelf!Negative(job[u], s)
                                              \/ reserved'[job[u]][s] >= reserved[job[u]][s]
      BY DEF LeavesHeld
    <3>1. job[u] \in Order /\ answered[job[u]] # {}
      BY DEF IInv, JobsAreOrders, Worker, TotalInv, GivingBack
    <3>2. CASE job[u] = o
      BY <1>1, <1>3, <1>4, <1>5, <3>1, <3>2
    <3>3. CASE job[u] # o
      BY <1>3, <3>1, <3>3
    <3> QED
      BY <3>2, <3>3
  <2>2. OnlyMore
    <3>1. \A p \in Order : deliveries[p] \in Nat
      BY DEF IInv, TypeOK
    <3>2. \A p \in Order : answered[p] \subseteq answered'[p]
      BY <1>1, <1>3
    <3> QED
      BY <1>3, <3>1, <3>2 DEF OnlyMore
  <2>3. v # w
    BY <1>1
  <2> QED
    BY <1>1, <1>2, <2>1, <2>2, <2>3, OthersGiveBack DEF TotalInv, IInv
<1>9. ASSUME NEW v \in Reserver
      PROVE  Answering(v)'
  <2>1. \A u \in Reserver : pc'[u] # "idle" => u # w /\ pc[u] # "idle" /\ job'[u] = job[u]
    BY <1>2 DEF Aside, Worker
  <2> SUFFICES ASSUME pc'[v] # "idle"
               PROVE  /\ deliveries[job[v]] > 0
                      /\ answered'[job[v]] # {} => deliveries[job[v]] > 1
                      /\ \A u \in Reserver \ {v} :
                           pc'[u] # "idle" /\ job'[u] = job[v] => deliveries[job[v]] > 1
    BY <1>3, <2>1 DEF Answering
  <2>2. v # w /\ pc[v] # "idle" /\ job[v] \in Order
    BY <2>1 DEF IInv, JobsAreOrders, Worker
  <2>3. CASE job[v] = o
    BY <1>4, <2>2, <2>3
  <2>4. CASE job[v] # o
    <3>1. answered'[job[v]] = answered[job[v]]
      BY <1>3, <2>2, <2>4
    <3> QED
      BY <2>1, <2>2, <3>1 DEF TotalInv, Answering
  <2> QED
    BY <2>3, <2>4
<1>10. (\A p \in Order : answered[p] # {} => deliveries[p] > 0)'
  BY <1>3, <1>4 DEF TotalInv
<1> QED
  BY <1>6, <1>7, <1>8, <1>9, <1>10 DEF TotalInv

LEMMA CommitCompensateTotals ==
  ASSUME IInv, IInv', TotalInv, NEW w \in Compensator, CommitCompensate(w)
  PROVE  TotalInv'
<1> DEFINE o == job[w]
<1>1. w \in Worker /\ w \notin Reserver /\ pc[w] = "done" /\ o \in Order
  BY StockAssumption DEF Worker, CommitCompensate, IInv, JobsAreOrders
<1>2. /\ Aside(w) /\ pc'[w] = "idle"
      /\ \A s \in Sku : rows'[w][s] = 0 /\ delta'[w][s] = 0
  BY <1>1, EndTxLeaves DEF CommitCompensate, IInv
<1>3. /\ UNCHANGED <<deliveries, answered>>
      /\ \A s \in Sku : /\ stock'[s] = stock[s] + delta[w][s]
                        /\ reserved'[o][s] = reserved[o][s] - rows[w][s]
      /\ \A p \in Order \ {o} : reserved'[p] = reserved[p]
  BY <1>1 DEF CommitCompensate, Minus, Plus, IInv, TypeOK
<1>4. \A s \in Sku : /\ ~Shelf!Negative(o, s) => delta[w][s] \in 0 .. rows[w][s]
                     /\ deliveries[o] <= 1 => delta[w][s] = rows[w][s]
  BY <1>1 DEF TotalInv, GivingBack
<1>5. \A s \in Sku : /\ rows[w][s] \in Int /\ stock[s] \in Int
                     /\ reserved[o][s] \in Int /\ delta[w][s] \in Int
  BY <1>1 DEF IInv, TypeOK
<1>6. StockIsConserved'
  <2>1. \A s \in Sku :
          /\ ~Shelf!Negative(o, s) =>
               stock'[s] + reserved'[o][s] <= stock[s] + reserved[o][s]
          /\ deliveries[o] <= 1 => stock'[s] + reserved'[o][s] = stock[s] + reserved[o][s]
    <3> HIDE DEF o
    <3> QED
      BY <1>3, <1>4, <1>5
  <2> QED
    BY <1>1, <1>3, <2>1, TotalStays DEF TotalInv, IInv
<1>7. ASSUME NEW v \in Reserver
      PROVE  Taking(v)'
  BY <1>1, <1>2, OthersTake DEF TotalInv
<1>8. ASSUME NEW v \in Compensator
      PROVE  GivingBack(v)'
  <2>1. CASE v = w
    BY <1>2, <2>1 DEF GivingBack
  <2>2. CASE v # w
    <3>1. LeavesHeld(w)
      <4> SUFFICES ASSUME NEW u \in Compensator \ {w}, pc[u] \in {"restock", "done"}
                   PROVE  reserved'[job[u]] = reserved[job[u]]
        BY DEF LeavesHeld
      <4>1. sagaLock[job[u]] = u /\ sagaLock[o] = w /\ job[u] \in Order
        BY <1>1 DEF IInv, ReleasesAreLocked, JobsAreOrders, Worker
      <4> QED
        BY <1>3, <4>1
    <3>2. OnlyMore
      <4>1. \A p \in Order : deliveries[p] \in Nat
        BY DEF IInv, TypeOK
      <4> QED
        BY <1>3, <4>1 DEF OnlyMore
    <3> QED
      BY <1>1, <1>2, <2>2, <3>1, <3>2, OthersGiveBack DEF TotalInv, IInv
  <2> QED
    BY <2>1, <2>2
<1>9. \A v \in Reserver : Answering(v)'
  BY <1>1, <1>2, <1>3, AnswersStay DEF TotalInv
<1>10. (\A p \in Order : answered[p] # {} => deliveries[p] > 0)'
  BY <1>3 DEF TotalInv
<1> QED
  BY <1>6, <1>7, <1>8, <1>9, <1>10 DEF TotalInv

LEMMA RollbackTotals ==
  ASSUME IInv, IInv', TotalInv, NEW w \in Worker, Rollback(w) \/ DeadlockVictim(w)
  PROVE  TotalInv'
<1>1. /\ Aside(w) /\ pc'[w] = "idle"
      /\ \A s \in Sku : rows'[w][s] = 0 /\ delta'[w][s] = 0
      /\ UNCHANGED <<committed, deliveries>>
  BY EndTxLeaves DEF Rollback, DeadlockVictim, IInv
<1>2. Taking(w)'
  BY <1>1 DEF Taking
<1>3. GivingBack(w)'
  BY <1>1 DEF GivingBack
<1> QED
  BY <1>1, <1>2, <1>3, TotalsStep

LEMMA TotalsKeep == IInv /\ IInv' /\ TotalInv /\ [Next]_vars => TotalInv'
<1> SUFFICES ASSUME IInv, IInv', TotalInv, [Next]_vars
             PROVE  TotalInv'
  OBVIOUS
<1>1. CASE UNCHANGED vars
  <2>1. UNCHANGED <<stock, reserved, answered, deliveries, pc, job, item, list, delta, rows>>
    BY <1>1 DEF vars, committed, tx
  <2>2. StockIsConserved'
    BY <2>1, TotalQuiet DEF TotalInv, IInv, TypeOK
  <2>3. ASSUME NEW w \in Reserver
        PROVE  Taking(w)' /\ Answering(w)'
    BY <2>1 DEF TotalInv, Taking, Answering
  <2>4. ASSUME NEW w \in Compensator
        PROVE  GivingBack(w)'
    BY <2>1 DEF TotalInv, GivingBack
  <2> QED
    BY <2>1, <2>2, <2>3, <2>4 DEF TotalInv
<1>2. ASSUME NEW w \in Reserver, Reserving(w)
      PROVE  TotalInv'
  BY <1>2, TakeItemTotals, MissItemTotals, CommitReserveTotals DEF Reserving
<1>3. ASSUME NEW w \in Compensator, Compensating(w)
      PROVE  TotalInv'
  BY <1>3, MarkSagaTotals, SelectReservedTotals, ReleaseRowsTotals, CommitCompensateTotals,
     RestockTotals DEF Compensating
<1> QED
  BY <1>1, <1>2, <1>3, BeginReserveTotals, BeginCompensateTotals, RollbackTotals
     DEF Next

LEMMA TotalsInit == Init => TotalInv
<1> SUFFICES ASSUME Init
             PROVE  TotalInv
  OBVIOUS
<1>1. StockIsConserved
  <2> SUFFICES ASSUME NEW s \in Sku
               PROVE  stock[s] + HeldOf(s) = Stock0[s] /\ Stock0[s] \in Nat
    BY DEF StockIsConserved
  <2>1. \A o \in Order : reserved[o][s] = 0
    BY DEF Init, Zero
  <2>2. SumOf(reserved, s) = 0
    BY <2>1, SumOfNothing
  <2>3. HeldOf(s) = 0
    BY <2>2, HeldIsSum
  <2>4. stock[s] = Stock0[s] /\ Stock0[s] \in Nat
    BY StockAssumption DEF Init
  <2> QED
    BY <2>3, <2>4
<1>2. \A w \in Reserver : Taking(w) /\ Answering(w)
  BY DEF Init, Taking, Answering, Worker, Zero
<1>3. \A w \in Compensator : GivingBack(w)
  BY DEF Init, GivingBack, Worker, Zero
<1>4. \A o \in Order : answered[o] = {}
  BY DEF Init
<1> QED
  BY <1>1, <1>2, <1>3, <1>4 DEF TotalInv

-----------------------------------------------------------------------------
(* What a reservation has taken does fit                                   *)

\* The line items w has taken fit on the shelf, one after the other, as it is
\* now: w holds the locks of their SKUs, so nobody else has changed it.
Fitting(w) ==
  pc[w] # "idle" =>
    \A i \in 1 .. item[w] - 1 :
      LET s == Items[job[w]][i].sku IN
        /\ s \in Stocked
        /\ stockLock[s] = w
        /\ Shelf!Asked(job[w], i, s) <= stock[s]

AllFitting == \A w \in Reserver : Fitting(w)

\* What w does leaves alone what the others have locked.
LeavesLocked(w) ==
  \A v \in Worker \ {w}, s \in Sku :
    stockLock[s] = v => stockLock'[s] = v /\ stock'[s] = stock[s]

LEMMA OthersFit ==
  ASSUME IInv, TotalInv, NEW w \in Worker, Aside(w), LeavesLocked(w), AllFitting,
         NEW v \in Reserver, v # w
  PROVE  Fitting(v)'
<1>1. /\ pc'[v] = pc[v] /\ job'[v] = job[v] /\ item'[v] = item[v] /\ v \in Worker
  BY DEF Aside, Worker
<1> SUFFICES ASSUME pc[v] # "idle", NEW i \in 1 .. item[v] - 1
             PROVE  /\ Items[job[v]][i].sku \in Stocked
                    /\ stockLock'[Items[job[v]][i].sku] = v
                    /\ Shelf!Asked(job[v], i, Items[job[v]][i].sku) <= stock'[Items[job[v]][i].sku]
  BY <1>1 DEF Fitting
<1>2. /\ Items[job[v]][i].sku \in Stocked
      /\ stockLock[Items[job[v]][i].sku] = v
      /\ Shelf!Asked(job[v], i, Items[job[v]][i].sku) <= stock[Items[job[v]][i].sku]
  BY DEF AllFitting, Fitting
<1>3. Items[job[v]][i].sku \in Sku
  BY <1>2, StockAssumption
<1>4. /\ stockLock'[Items[job[v]][i].sku] = v
      /\ stock'[Items[job[v]][i].sku] = stock[Items[job[v]][i].sku]
  BY <1>1, <1>2, <1>3 DEF LeavesLocked
<1> QED
  BY <1>2, <1>4

\* A statement takes no lock that another has, and changes no stock yet.
LEMMA StatementsLeaveLocked ==
  ASSUME NEW w \in Worker, stock' = stock,
         \A s \in Sku : stockLock'[s] = stockLock[s]
                          \/ (stockLock[s] \in {NoOne, w} /\ stockLock'[s] = w)
  PROVE  LeavesLocked(w)
<1>1. NoOne \notin Worker
  BY StockAssumption
<1> QED
  BY <1>1 DEF LeavesLocked

\* The end of a transaction changes the stock only where it has the locks.
LEMMA EndTxLeavesLocked ==
  ASSUME IInv, NEW w \in Worker, EndTx(w), stock' \in {stock, Plus(stock, delta[w])}
  PROVE  LeavesLocked(w)
<1> SUFFICES ASSUME NEW v \in Worker \ {w}, NEW s \in Sku, stockLock[s] = v
             PROVE  stockLock'[s] = v /\ stock'[s] = stock[s]
  BY DEF LeavesLocked
<1>1. delta[w][s] = 0 /\ stock[s] \in Int
  BY DEF IInv, ChangesAreLocked, TypeOK
<1>2. stock'[s] = stock[s]
  <2>1. CASE stock' = Plus(stock, delta[w])
    <3>1. stock'[s] = stock[s] + delta[w][s]
      BY <2>1 DEF Plus
    <3> QED
      BY <1>1, <3>1
  <2> QED
    BY <2>1
<1> QED
  BY <1>2 DEF EndTx

LEMMA TakeItemFits ==
  ASSUME IInv, TotalInv, AllFitting, NEW w \in Reserver, TakeItem(w)
  PROVE  AllFitting'
<1> DEFINE s == Line(w).sku
           q == Line(w).qty
           o == job[w]
           n == item[w]
<1>1. w \in Worker /\ pc[w] = "take"
  BY DEF Worker, TakeItem
<1>2. /\ o \in Order /\ n \in 1 .. Len(Items[o]) /\ Len(Items[o]) \in Nat
      /\ s \in Sku /\ q \in Int /\ s = Items[o][n].sku /\ q = Items[o][n].qty
  BY <1>1, LineIsItem DEF IInv, JobsAreOrders, Line
<1>3. /\ stockLock' = [stockLock EXCEPT ![s] = w] /\ stockLock[s] \in {NoOne, w}
      /\ s \in Stocked /\ stock[s] + delta[w][s] >= q
      /\ item'[w] = n + 1 /\ job'[w] = o /\ pc'[w] # "idle"
      /\ Aside(w) /\ stock' = stock
  BY <1>1 DEF TakeItem, Fits, Free, Seen, IInv, TypeOK, Aside, committed
<1>4. stockLock \in [Sku -> Worker \cup {NoOne}] /\ stock[s] \in Int /\ delta[w][s] \in Int
  BY <1>1, <1>2 DEF IInv, TypeOK
<1>5. Shelf!Asked(o, n, s) <= stock[s]
  <2>1. rows[w][s] = Shelf!Asked(o, n - 1, s) /\ delta[w][s] = -rows[w][s]
    BY <1>1, <1>2 DEF TotalInv, Taking
  <2>2. Shelf!Asked(o, n, s) = Shelf!Asked(o, n - 1, s) + Need(o, n, s)
    BY <1>2, ItemsAsked
  <2>3. Need(o, n, s) = q
    BY <1>2 DEF Need
  <2>4. rows[w][s] \in Int
    BY <1>1, <1>2 DEF IInv, TypeOK
  <2> HIDE DEF s, q, o, n
  <2> QED
    BY <1>2, <1>3, <1>4, <2>1, <2>2, <2>3, <2>4
<1> HIDE DEF s, q, o, n
<1>6. Fitting(w)'
  <2> SUFFICES ASSUME NEW i \in 1 .. item'[w] - 1
               PROVE  /\ Items[o][i].sku \in Stocked
                      /\ stockLock'[Items[o][i].sku] = w
                      /\ Shelf!Asked(o, i, Items[o][i].sku) <= stock[Items[o][i].sku]
    BY <1>3 DEF Fitting
  <2>1. CASE i = n
    BY <1>2, <1>3, <1>4, <1>5, <2>1
  <2>2. CASE i # n
    <3>1. i \in 1 .. item[w] - 1
      BY <1>2, <1>3, <2>2 DEF n
    <3>2. /\ Items[o][i].sku \in Stocked
          /\ stockLock[Items[o][i].sku] = w
          /\ Shelf!Asked(o, i, Items[o][i].sku) <= stock[Items[o][i].sku]
      BY <1>1, <3>1 DEF AllFitting, Fitting, o
    <3> QED
      BY <1>2, <1>3, <1>4, <3>2, StockAssumption
  <2> QED
    BY <2>1, <2>2
<1>7. LeavesLocked(w)
  BY <1>1, <1>2, <1>3, <1>4, StatementsLeaveLocked
<1> QED
  BY <1>1, <1>3, <1>6, <1>7, OthersFit DEF AllFitting

LEMMA FittingKeeps == IInv /\ TotalInv /\ AllFitting /\ [Next]_vars => AllFitting'
<1> SUFFICES ASSUME IInv, TotalInv, AllFitting, [Next]_vars
             PROVE  AllFitting'
  OBVIOUS
<1>0. Reserver \subseteq Worker /\ Compensator \subseteq Worker /\ Reserver \cap Compensator = {}
  BY StockAssumption DEF Worker
<1>1. ASSUME NEW w \in Worker, Aside(w), LeavesLocked(w), w \in Reserver => Fitting(w)'
      PROVE  AllFitting'
  BY <1>1, OthersFit DEF AllFitting
<1>2. ASSUME NEW w \in Worker, EndTx(w), stock' \in {stock, Plus(stock, delta[w])}
      PROVE  AllFitting'
  <2>1. Aside(w) /\ pc'[w] = "idle"
    BY <1>2, EndTxLeaves DEF IInv
  <2>2. Fitting(w)'
    BY <2>1 DEF Fitting
  <2> QED
    BY <1>1, <1>2, <2>1, <2>2, EndTxLeavesLocked
<1>3. ASSUME NEW w \in Worker, Aside(w), stock' = stock, stockLock' = stockLock,
             w \in Reserver => Fitting(w)'
      PROVE  AllFitting'
  BY <1>1, <1>3, StatementsLeaveLocked
<1>4. CASE UNCHANGED vars
  BY <1>4 DEF vars, committed, tx, locks, AllFitting, Fitting
<1>5. ASSUME NEW w \in Reserver, NEW o \in Order, BeginReserve(w, o)
      PROVE  AllFitting'
  <2>1. /\ Aside(w) /\ stock' = stock /\ stockLock' = stockLock /\ item'[w] = 1
    BY <1>0, <1>5 DEF BeginReserve, committed, locks, IInv, TypeOK, Aside
  <2>2. Fitting(w)'
    BY <2>1 DEF Fitting
  <2> QED
    BY <1>0, <1>3, <2>1, <2>2
<1>6. ASSUME NEW w \in Reserver, MissItem(w)
      PROVE  AllFitting'
  <2>1. /\ Aside(w) /\ stock' = stock /\ stockLock' = stockLock /\ pc[w] # "idle"
        /\ UNCHANGED <<item, job>>
    BY <1>0, <1>6 DEF MissItem, committed, locks, IInv, TypeOK, Aside
  <2>2. Fitting(w)'
    BY <2>1 DEF AllFitting, Fitting
  <2> QED
    BY <1>0, <1>3, <2>1, <2>2
<1>7. ASSUME NEW w \in Reserver, CommitReserve(w)
      PROVE  AllFitting'
  BY <1>0, <1>2, <1>7 DEF CommitReserve
<1>8. ASSUME NEW w \in Compensator, CommitCompensate(w)
      PROVE  AllFitting'
  BY <1>0, <1>2, <1>8 DEF CommitCompensate
<1>9. ASSUME NEW w \in Compensator,
             \/ MarkSaga(w) \/ SelectReserved(w) \/ ReleaseRows(w)
             \/ \E o \in Order : BeginCompensate(w, o)
      PROVE  AllFitting'
  <2>1. /\ Aside(w) /\ stock' = stock /\ stockLock' = stockLock
    BY <1>0, <1>9 DEF MarkSaga, SelectReserved, ReleaseRows, BeginCompensate, committed, locks,
                      IInv, TypeOK, Aside
  <2> QED
    BY <1>0, <1>3, <2>1
<1>10. ASSUME NEW w \in Compensator, Restock(w)
       PROVE  AllFitting'
  <2>1. /\ Aside(w) /\ stock' = stock /\ stockLock \in [Sku -> Worker \cup {NoOne}]
        /\ stockLock[Head(queue[w])] \in {NoOne, w}
        /\ stockLock' = [stockLock EXCEPT ![Head(queue[w])] = w]
    BY <1>0, <1>10 DEF Restock, Free, committed, IInv, TypeOK, Aside
  <2>2. LeavesLocked(w)
    BY <1>0, <2>1, StatementsLeaveLocked
  <2> QED
    BY <1>0, <1>1, <2>1, <2>2
<1>11. ASSUME NEW w \in Worker, Rollback(w) \/ DeadlockVictim(w)
       PROVE  AllFitting'
  BY <1>2, <1>11 DEF Rollback, DeadlockVictim, committed
<1> QED
  BY <1>4, <1>5, <1>6, <1>7, <1>8, <1>9, <1>10, <1>11, TakeItemFits
     DEF Next, Reserving, Compensating

-----------------------------------------------------------------------------
(* Every transaction takes effect at once                                  *)

\* A reservation that commits takes its line items in one go.
LEMMA ReserveIsTake ==
  ASSUME IInv, TotalInv, AllFitting, NEW w \in Reserver, CommitReserve(w)
  PROVE  Shelf!Take(job[w])
<1> DEFINE o == job[w]
           n == item[w] - 1
<1>1. w \in Worker /\ pc[w] # "idle" /\ o \in Order
  BY DEF Worker, CommitReserve, IInv, JobsAreOrders
<1>2. /\ item[w] \in 1 .. Len(Items[o]) + 1
      /\ \A s \in Sku : rows[w][s] = Shelf!Asked(o, n, s) /\ delta[w][s] = -rows[w][s]
  BY <1>1 DEF TotalInv, Taking
<1>3. n \in 0 .. Len(Items[o])
  BY <1>1, <1>2, CartIsList
<1>4. \A s \in Sku : stock[s] \in Int /\ rows[w][s] \in Int
  BY <1>1 DEF IInv, TypeOK
<1>5. /\ deliveries' = deliveries
      /\ stock' = [s \in Sku |-> stock[s] + delta[w][s]]
      /\ reserved' = [reserved EXCEPT ![o] = [s \in Sku |-> @[s] + rows[w][s]]]
  BY DEF CommitReserve, Plus
<1>10. \A i \in 1 .. n : Shelf!FitsAfter(o, i)
  BY <1>1 DEF AllFitting, Fitting, Shelf!FitsAfter
<1> HIDE DEF o, n
<1>6. \A s \in Sku : stock[s] + delta[w][s] = stock[s] - Shelf!Asked(o, n, s)
  BY <1>2, <1>4
<1>7. stock' = [s \in Sku |-> stock[s] - Shelf!Asked(o, n, s)]
  BY <1>5, <1>6
<1>8. reserved' = [reserved EXCEPT ![o] = [s \in Sku |-> @[s] + Shelf!Asked(o, n, s)]]
  BY <1>2, <1>5
<1>9. Shelf!Take(o)
  BY <1>3, <1>5, <1>7, <1>8, <1>10 DEF Shelf!Take
<1> QED
  BY <1>9 DEF o

\* A compensation that commits gives back all its order holds in one go, or
\* less if order.created was delivered twice, except of an SKU that it lists
\* with a quantity below 0.
LEMMA CompensateIsGiveBack ==
  ASSUME IInv, TotalInv, NEW w \in Compensator, CommitCompensate(w)
  PROVE  Shelf!GiveBack(job[w]) \/ Shelf!GiveBackLess(job[w])
<1> DEFINE o == job[w]
<1>1. w \in Worker /\ pc[w] = "done" /\ o \in Order
  BY DEF Worker, CommitCompensate, IInv, JobsAreOrders
<1>2. \A s \in Sku :
        /\ ~Shelf!Negative(o, s) => /\ delta[w][s] \in 0 .. rows[w][s]
                                   /\ rows[w][s] \in 0 .. reserved[o][s]
        /\ deliveries[o] <= 1 => delta[w][s] = reserved[o][s] /\ rows[w][s] = reserved[o][s]
  <2>1. \A s \in Sku : /\ Bookable(o, s, rows[w][s])
                       /\ Shelf!Negative(o, s) \/ rows[w][s] <= reserved[o][s]
                       /\ rows[w][s] \in Int /\ reserved[o][s] \in Int
    <3>1. \A s \in Sku : Bookable(o, s, rows[w][s])
      BY <1>1 DEF IInv, BooksFollowCarts
    <3>2. \A s \in Sku : Shelf!Negative(o, s) \/ rows[w][s] <= reserved[o][s]
      BY <1>1 DEF IInv, ReleasesAreLocked
    <3>3. \A s \in Sku : rows[w][s] \in Int /\ reserved[o][s] \in Int
      BY <1>1 DEF IInv, TypeOK
    <3> QED
      BY <3>1, <3>2, <3>3
  <2>2. \A s \in Sku : ~Shelf!Negative(o, s) => rows[w][s] \in 0 .. reserved[o][s]
    BY <2>1 DEF Bookable
  <2> QED
    BY <1>1, <2>2 DEF TotalInv, GivingBack
<1>3. /\ deliveries' = deliveries
      /\ stock' = [s \in Sku |-> stock[s] + delta[w][s]]
      /\ reserved' = [reserved EXCEPT ![o] = [s \in Sku |-> @[s] - rows[w][s]]]
  BY DEF CommitCompensate, Plus, Minus
<1>4. /\ deliveries[o] \in Nat /\ reserved \in [Order -> [Sku -> Int]]
      /\ \A s \in Sku : stock[s] \in Int /\ rows[w][s] \in Int /\ reserved[o][s] \in Int
  BY <1>1 DEF IInv, TypeOK
<1> HIDE DEF o
<1>5. CASE deliveries[o] <= 1
  <2>1. stock' = [s \in Sku |-> stock[s] + reserved[o][s]]
    BY <1>2, <1>3, <1>5
  <2>2. reserved' = [reserved EXCEPT ![o] = [s \in Sku |-> 0]]
    <3>1. [s \in Sku |-> reserved[o][s] - rows[w][s]] = [s \in Sku |-> 0]
      BY <1>2, <1>4, <1>5
    <3> QED
      BY <1>3, <3>1
  <2>3. Shelf!GiveBack(o)
    BY <1>3, <1>5, <2>1, <2>2 DEF Shelf!GiveBack
  <2> QED
    BY <2>3 DEF o
<1>6. CASE deliveries[o] > 1
  <2>1. reserved'[o] = [s \in Sku |-> reserved[o][s] - rows[w][s]]
    BY <1>1, <1>3, <1>4
  <2>2. reserved' = [reserved EXCEPT ![o] = reserved'[o]]
    BY <1>3, <2>1
  <2>3. ASSUME NEW s \in Sku, ~Shelf!Negative(o, s)
        PROVE  /\ reserved'[o][s] \in 0 .. reserved[o][s]
               /\ stock'[s] - stock[s] \in 0 .. (reserved[o][s] - reserved'[o][s])
    <3>1. reserved'[o][s] = reserved[o][s] - rows[w][s] /\ stock'[s] = stock[s] + delta[w][s]
      BY <1>3, <2>1
    <3>2. delta[w][s] \in 0 .. rows[w][s] /\ rows[w][s] \in 0 .. reserved[o][s]
      BY <1>2, <2>3
    <3> QED
      BY <1>4, <3>1, <3>2
  <2>4. Shelf!GiveBackLess(o)
    BY <1>3, <1>6, <2>2, <2>3 DEF Shelf!GiveBackLess
  <2> QED
    BY <2>4 DEF o
<1> QED
  BY <1>4, <1>5, <1>6

\* Every statement is a step of the shelf or none.
LEMMA StepsAreShelfSteps ==
  IInv /\ TotalInv /\ AllFitting /\ [Next]_vars => [Shelf!Next]_<<stock, reserved, deliveries>>
<1> SUFFICES ASSUME IInv, TotalInv, AllFitting, [Next]_vars
             PROVE  Shelf!Next \/ UNCHANGED <<stock, reserved, deliveries>>
  OBVIOUS
<1>1. CASE UNCHANGED vars
  BY <1>1 DEF vars, committed
<1>2. ASSUME NEW w \in Reserver, NEW o \in Order, BeginReserve(w, o)
      PROVE  Shelf!Next
  BY <1>2 DEF BeginReserve, committed, Shelf!Next, Shelf!Ask
<1>3. ASSUME NEW w \in Reserver, Reserving(w)
      PROVE  Shelf!Next \/ UNCHANGED <<stock, reserved, deliveries>>
  <2>1. CASE CommitReserve(w)
    <3>1. job[w] \in Order
      BY <2>1 DEF CommitReserve, IInv, JobsAreOrders, Worker
    <3> QED
      BY <2>1, <3>1, ReserveIsTake DEF Shelf!Next
  <2>2. CASE TakeItem(w) \/ MissItem(w)
    BY <2>2 DEF TakeItem, MissItem, committed
  <2> QED
    BY <1>3, <2>1, <2>2 DEF Reserving
<1>4. ASSUME NEW w \in Compensator, Compensating(w)
      PROVE  Shelf!Next \/ UNCHANGED <<stock, reserved, deliveries>>
  <2>1. CASE CommitCompensate(w)
    <3>1. job[w] \in Order
      BY <2>1 DEF CommitCompensate, IInv, JobsAreOrders, Worker
    <3> QED
      BY <2>1, <3>1, CompensateIsGiveBack DEF Shelf!Next
  <2>2. CASE MarkSaga(w) \/ SelectReserved(w) \/ ReleaseRows(w) \/ Restock(w)
    BY <2>2 DEF MarkSaga, SelectReserved, ReleaseRows, Restock, committed
  <2> QED
    BY <1>4, <2>1, <2>2 DEF Compensating
<1>5. ASSUME NEW w \in Compensator, NEW o \in Order, BeginCompensate(w, o)
      PROVE  UNCHANGED <<stock, reserved, deliveries>>
  BY <1>5 DEF BeginCompensate, committed
<1>6. ASSUME NEW w \in Worker, Rollback(w) \/ DeadlockVictim(w)
      PROVE  UNCHANGED <<stock, reserved, deliveries>>
  BY <1>6 DEF Rollback, DeadlockVictim, committed
<1> QED
  BY <1>1, <1>2, <1>3, <1>4, <1>5, <1>6 DEF Next

-----------------------------------------------------------------------------
(* The theorems of the second invariant                                    *)

\* Line item by line item, what a reservation has taken is what it has
\* inserted, and what a compensation has put back is no more than its order
\* holds and just that if order.created was delivered once; of a SKU that is
\* listed with a quantity below 0 and asked for twice nothing is said.
THEOREM TotalsHold == Spec => []TotalInv
<1>1. IInv /\ [Next]_vars => IInv'
  BY NextKeeps
<1> QED
  BY <1>1, TotalsInit, TotalsKeep, InvariantHolds, PTL DEF Spec

\* No stock is made, and none is lost unless an order.created is delivered
\* twice: what is on the shelf and what the orders hold add up to the stock at
\* the start, for any number of orders, SKUs, inventory instances and
\* orchestrators, line items of any quantity, and whatever transactions roll
\* back.  With a second delivery stock may be lost, and it may be made of a
\* SKU which that order lists with a quantity below 0.
THEOREM StockStays == Spec => []StockIsConserved
<1>1. TotalInv => StockIsConserved
  BY DEF TotalInv
<1> QED
  BY <1>1, TotalsHold, PTL

\* What is on the shelf while a reservation works is enough for the line items
\* it has taken so far, although it reads each SKU in a statement of its own.
LEMMA FittingHolds == Spec => []AllFitting
<1>1. Init => AllFitting
  BY DEF Init, AllFitting, Fitting, Worker
<1> QED
  BY <1>1, FittingKeeps, TotalsHold, InvariantHolds, PTL DEF Spec

\* Each transaction takes effect at once: a reservation takes the first line
\* items of its order off the shelf as far as they fit, a compensation gives
\* back all its order holds, and nothing shows in between.  Line items may be
\* of any quantity; if order.created was delivered twice, nothing is promised
\* of a SKU that the order lists with a quantity below 0.
THEOREM TransactionsImplementShelf == Spec => ShelfSpec
<1>1. Init => Shelf!Init
  BY DEF Init, Shelf!Init, Zero
<1>2. IInv /\ TotalInv /\ AllFitting /\ [Next]_vars
        => [Shelf!Next]_<<stock, reserved, deliveries>>
  BY StepsAreShelfSteps
<1> QED
  BY <1>1, <1>2, FittingHolds, TotalsHold, InvariantHolds, PTL DEF Spec, ShelfSpec, Shelf!Spec

-----------------------------------------------------------------------------
(* Nobody is stuck                                                         *)

\* The next statement of w need not wait.
CanMove(w) ==
  \/ pc[w] \in {"full", "short", "done"}
  \/ pc[w] = "select" /\ Walks(job[w]) # {}
  \/ pc[w] = "take" /\ (Fits(w) => Free(w, Line(w).sku))
  \/ pc[w] = "saga" /\ sagaLock[job[w]] \in {NoOne, w}
  \/ pc[w] = "restock" /\ (queue[w] = <<>> \/ Free(w, Head(queue[w])))

\* Among workers that wait for nobody else, as soon as one is busy, one can
\* go on or the server finds it in a circle.
NobodyIsStuck ==
  \A S \in SUBSET Worker :
    /\ \E w \in S : pc[w] # "idle"
    /\ \A v \in S, u \in Worker : WaitsFor(v, u) => u \in S
    => \E w \in S : CanMove(w) \/ Deadlocked(w)

\* Locks are held by transactions, so they are given back.
LocksAreUsed ==
  /\ \A s \in Sku : stockLock[s] # NoOne => pc[stockLock[s]] # "idle"
  /\ \A o \in Order : sagaLock[o] # NoOne => pc[sagaLock[o]] # "idle"

LEMMA LocksUsedInit == Init => LocksAreUsed
BY DEF Init, LocksAreUsed

\* Who ends a transaction gives back its locks.
LEMMA LocksStayUsed ==
  ASSUME IInv, IInv', LocksAreUsed, [Next]_vars
  PROVE  LocksAreUsed'
\* A step of w that takes locks for w only, and after which w is busy.
<1>0. ASSUME NEW w \in Worker, pc'[w] # "idle",
             \A v \in Worker \ {w} : pc'[v] = pc[v],
             \A s \in Sku : stockLock'[s] = stockLock[s] \/ stockLock'[s] = w,
             \A o \in Order : sagaLock'[o] = sagaLock[o] \/ sagaLock'[o] = w
      PROVE  LocksAreUsed'
  <2>1. ASSUME NEW s \in Sku, stockLock'[s] # NoOne
        PROVE  pc'[stockLock'[s]] # "idle"
    <3>1. stockLock[s] \in Worker \cup {NoOne}
      BY DEF IInv, TypeOK
    <3> QED
      BY <1>0, <2>1, <3>1 DEF LocksAreUsed
  <2>2. ASSUME NEW o \in Order, sagaLock'[o] # NoOne
        PROVE  pc'[sagaLock'[o]] # "idle"
    <3>1. sagaLock[o] \in Worker \cup {NoOne}
      BY DEF IInv, TypeOK
    <3> QED
      BY <1>0, <2>2, <3>1 DEF LocksAreUsed
  <2> QED
    BY <2>1, <2>2 DEF LocksAreUsed
\* The end of a transaction.
<1>1. ASSUME NEW w \in Worker, EndTx(w)
      PROVE  LocksAreUsed'
  <2>1. \A v \in Worker \ {w} : pc'[v] = pc[v]
    BY <1>1 DEF EndTx, IInv, TypeOK
  <2>2. ASSUME NEW s \in Sku, stockLock'[s] # NoOne
        PROVE  pc'[stockLock'[s]] # "idle"
    <3>1. stockLock'[s] = stockLock[s] /\ stockLock[s] \in Worker \ {w}
      BY <1>1, <2>2 DEF EndTx, IInv, TypeOK
    <3> QED
      BY <2>1, <2>2, <3>1 DEF LocksAreUsed
  <2>3. ASSUME NEW o \in Order, sagaLock'[o] # NoOne
        PROVE  pc'[sagaLock'[o]] # "idle"
    <3>1. sagaLock'[o] = sagaLock[o] /\ sagaLock[o] \in Worker \ {w}
      BY <1>1, <2>3 DEF EndTx, IInv, TypeOK
    <3> QED
      BY <2>1, <2>3, <3>1 DEF LocksAreUsed
  <2> QED
    BY <2>2, <2>3 DEF LocksAreUsed
<1>2. CASE UNCHANGED vars
  BY <1>2 DEF vars, tx, locks, LocksAreUsed
<1>3. ASSUME NEW w \in Reserver, \/ Reserving(w)
                                 \/ \E o \in Order : BeginReserve(w, o)
      PROVE  LocksAreUsed'
  <2>1. w \in Worker
    BY DEF Worker
  <2>2. CASE TakeItem(w)
    <3>1. /\ pc'[w] # "idle" /\ \A v \in Worker \ {w} : pc'[v] = pc[v]
          /\ \A s \in Sku : stockLock'[s] = stockLock[s] \/ stockLock'[s] = w
          /\ \A o \in Order : sagaLock'[o] = sagaLock[o]
      BY <2>1, <2>2 DEF TakeItem, IInv, TypeOK
    <3> QED
      BY <1>0, <2>1, <3>1
  <2>3. CASE MissItem(w) \/ \E o \in Order : BeginReserve(w, o)
    <3>1. /\ pc'[w] # "idle" /\ \A v \in Worker \ {w} : pc'[v] = pc[v]
          /\ stockLock' = stockLock /\ sagaLock' = sagaLock
      BY <2>1, <2>3 DEF MissItem, BeginReserve, locks, IInv, TypeOK
    <3> QED
      BY <1>0, <2>1, <3>1
  <2>4. CASE CommitReserve(w)
    BY <1>1, <2>1, <2>4 DEF CommitReserve
  <2> QED
    BY <1>3, <2>2, <2>3, <2>4 DEF Reserving
<1>4. ASSUME NEW w \in Compensator, \/ Compensating(w)
                                    \/ \E o \in Order : BeginCompensate(w, o)
      PROVE  LocksAreUsed'
  <2>1. w \in Worker
    BY DEF Worker
  <2>2. CASE MarkSaga(w) \/ Restock(w)
    <3>1. /\ pc'[w] # "idle" /\ \A v \in Worker \ {w} : pc'[v] = pc[v]
          /\ \A s \in Sku : stockLock'[s] = stockLock[s] \/ stockLock'[s] = w
          /\ \A o \in Order : sagaLock'[o] = sagaLock[o] \/ sagaLock'[o] = w
      <4>1. CASE MarkSaga(w)
        BY <2>1, <4>1 DEF MarkSaga, IInv, TypeOK
      <4>2. CASE Restock(w)
        <5>1. /\ pc' = pc /\ pc[w] = "restock" /\ sagaLock' = sagaLock
              /\ stockLock' = [stockLock EXCEPT ![Head(queue[w])] = w]
              /\ stockLock \in [Sku -> Worker \cup {NoOne}]
          BY <4>2 DEF Restock, IInv, TypeOK
        <5> QED
          BY <5>1
      <4> QED
        BY <2>2, <4>1, <4>2
    <3> QED
      BY <1>0, <2>1, <3>1
  <2>3. CASE SelectReserved(w) \/ ReleaseRows(w) \/ \E o \in Order : BeginCompensate(w, o)
    <3>1. /\ pc'[w] # "idle" /\ \A v \in Worker \ {w} : pc'[v] = pc[v]
          /\ stockLock' = stockLock /\ sagaLock' = sagaLock
      BY <2>1, <2>3 DEF SelectReserved, ReleaseRows, BeginCompensate, locks, IInv, TypeOK
    <3> QED
      BY <1>0, <2>1, <3>1
  <2>4. CASE CommitCompensate(w)
    BY <1>1, <2>1, <2>4 DEF CommitCompensate
  <2> QED
    BY <1>4, <2>2, <2>3, <2>4 DEF Compensating
<1>5. ASSUME NEW w \in Worker, Rollback(w) \/ DeadlockVictim(w)
      PROVE  LocksAreUsed'
  BY <1>1, <1>5 DEF Rollback, DeadlockVictim
<1> QED
  BY <1>2, <1>3, <1>4, <1>5 DEF Next

\* There is a way through the reservations: that of the line items.
LEMMA WalkExists ==
  ASSUME IInv, NEW o \in Order
  PROVE  Walks(o) # {}
<1> DEFINE q == [i \in 1 .. Len(Items[o]) |-> Items[o][i].sku]
<1>1. Len(Items[o]) \in Nat /\ DOMAIN Items[o] = 1 .. Len(Items[o])
  BY CartIsList
<1>2. q \in [1 .. Len(Items[o]) -> InCart(o)]
  BY <1>1 DEF InCart
<1>3. ASSUME NEW s \in Sku, reserved[o][s] # 0
      PROVE  \E i \in DOMAIN q : q[i] = s
  <2>1. s \in InCart(o)
    BY <1>3 DEF IInv, BooksFollowCarts, Bookable
  <2>2. PICK i \in 1 .. Len(Items[o]) : s = Items[o][i].sku
    BY <1>1, <2>1 DEF InCart
  <2> QED
    BY <2>2
<1> HIDE DEF q
<1>4. q \in UNION {[1 .. n -> InCart(o)] : n \in 0 .. Len(Items[o])}
  BY <1>1, <1>2
<1>5. q \in Walks(o)
  BY <1>3, <1>4 DEF Walks
<1> QED
  BY <1>5

\* Who cannot go on waits for somebody.
LEMMA WhoWaits ==
  ASSUME IInv, NEW w \in Worker, pc[w] # "idle", ~CanMove(w)
  PROVE  \E u \in Worker : WaitsFor(w, u)
<1>1. \A s \in Sku : ~Free(w, s) => stockLock[s] \in Worker /\ stockLock[s] # w
  BY DEF Free, IInv, TypeOK
<1>2. CASE pc[w] = "take"
  <2>1. Line(w).sku \in Sku
    BY <1>2, LineIsItem
  <2>2. Fits(w) /\ ~Free(w, Line(w).sku)
    BY <1>2 DEF CanMove
  <2> QED
    BY <1>1, <1>2, <2>1, <2>2 DEF WaitsFor
<1>3. CASE pc[w] = "saga"
  <2>1. job[w] \in Order
    BY <1>3 DEF IInv, JobsAreOrders
  <2>2. sagaLock[job[w]] \in Worker /\ sagaLock[job[w]] # w
    BY <1>3, <2>1 DEF CanMove, IInv, TypeOK
  <2> QED
    BY <1>3, <2>2 DEF WaitsFor
<1>4. CASE pc[w] = "restock"
  <2>1. queue[w] # <<>> /\ ~Free(w, Head(queue[w])) /\ queue[w] \in Seq(Sku)
    BY <1>4 DEF CanMove, IInv, TypeOK
  <2>2. Head(queue[w]) \in Sku
    BY <2>1, HeadAndTail
  <2>3. stockLock[Head(queue[w])] \in Worker /\ stockLock[Head(queue[w])] # w
    BY <1>1, <2>1, <2>2
  <2>4. WaitsFor(w, stockLock[Head(queue[w])])
    BY <1>4, <2>1, <2>3 DEF WaitsFor
  <2> QED
    BY <2>3, <2>4
<1>5. CASE pc[w] = "select"
  <2>1. job[w] \in Order
    BY <1>5 DEF IInv, JobsAreOrders
  <2> QED
    BY <1>5, <2>1, WalkExists DEF CanMove
<1> QED
  BY <1>2, <1>3, <1>4, <1>5 DEF CanMove, IInv, TypeOK

\* Whom one waits for is busy.
LEMMA HoldersAreBusy ==
  ASSUME IInv, LocksAreUsed, NEW w \in Worker, NEW u \in Worker, WaitsFor(w, u)
  PROVE  pc[u] # "idle"
<1>1. u # NoOne
  BY StockAssumption
<1>2. CASE \E s \in Sku : stockLock[s] = u
  BY <1>1, <1>2 DEF LocksAreUsed
<1>3. CASE \E o \in Order : sagaLock[o] = u
  BY <1>1, <1>3 DEF LocksAreUsed
<1>4. pc[w] = "take" => Line(w).sku \in Sku
  BY LineIsItem
<1>5. pc[w] = "saga" => job[w] \in Order
  BY DEF IInv, JobsAreOrders
<1>6. queue[w] # <<>> => Head(queue[w]) \in Sku
  <2>1. queue[w] \in Seq(Sku)
    BY DEF IInv, TypeOK
  <2> QED
    BY <2>1, HeadAndTail
<1> QED
  BY <1>2, <1>3, <1>4, <1>5, <1>6 DEF WaitsFor

\* Of a finite set of workers who all wait for one of it, some wait for each
\* other in a circle: those of a smallest such set.
LEMMA CircleExists ==
  ASSUME NEW S \in SUBSET Worker, S # {}, \A v \in S : \E u \in S : WaitsFor(v, u)
  PROVE  \E w \in S : Deadlocked(w)
<1> DEFINE Ring(T) == T # {} /\ \A v \in T : \E u \in T : WaitsFor(v, u)
           Rings == {T \in SUBSET S : Ring(T)}
           R == StrictSubsetOrdering(S)
           P == SUBSET S
<1>1. IsWellFoundedOn(R, P)
  <2>1. IsFiniteSet(S)
    <3>1. IsFiniteSet(Worker)
      BY StockAssumption
    <3> QED
      BY <3>1, FS_Subset
  <2>2. FiniteSubsetsOf(S) = SUBSET S
    BY <2>1, FS_FiniteSubsetsOfFinite
  <2> QED
    BY <2>1, <2>2, FS_StrictSubsetOrderingWellFounded
<1>2. S \in Rings /\ Rings \subseteq P
  OBVIOUS
<1>3. PICK T \in Rings : \A U \in Rings : ~(<<U, T>> \in R)
  <2> HIDE DEF Rings, R, P
  <2> QED
    BY <1>1, <1>2, WFMin
<1>4. T \in SUBSET S /\ T # {} /\ \A v \in T : \E u \in T : WaitsFor(v, u)
  OBVIOUS
<1>5. ASSUME NEW v \in T
      PROVE  \E u \in T : WaitsFor(u, v)
  <2> SUFFICES ASSUME \A u \in T : ~WaitsFor(u, v)
               PROVE  FALSE
    OBVIOUS
  <2> DEFINE U == T \ {v}
  <2>1. \A x \in U : \E u \in U : WaitsFor(x, u)
    BY <1>4
  <2>2. U # {}
    <3>1. PICK u \in T : WaitsFor(v, u)
      BY <1>4
    <3> QED
      BY <3>1 DEF WaitsFor
  <2>3. U \in Rings
    BY <1>4, <2>1, <2>2
  <2>4. <<U, T>> \in R
    BY <1>4 DEF StrictSubsetOrdering
  <2> HIDE DEF U, R, Rings
  <2> QED
    BY <1>3, <2>3, <2>4
<1>6. PICK w \in T : TRUE
  BY <1>4
<1>7. Deadlocked(w)
  BY <1>4, <1>5, <1>6 DEF Deadlocked
<1> QED
  BY <1>4, <1>7

\* Whoever waits for a lock, the transaction that is in its way, or one that
\* is in the way of that one, and so on, can go on, or the server finds a
\* deadlock among them and cancels one: no lock is held for ever, and no two
\* transactions wait for each other unnoticed.
THEOREM NobodyStuck == Spec => []NobodyIsStuck
<1>1. IInv /\ LocksAreUsed => NobodyIsStuck
  <2> SUFFICES ASSUME IInv, LocksAreUsed, NEW S \in SUBSET Worker,
                      \E w \in S : pc[w] # "idle",
                      \A v \in S, u \in Worker : WaitsFor(v, u) => u \in S,
                      \A w \in S : ~CanMove(w)
               PROVE  \E w \in S : Deadlocked(w)
    BY DEF NobodyIsStuck
  <2> DEFINE T == {w \in S : pc[w] # "idle"}
  <2>1. \A v \in T : \E u \in T : WaitsFor(v, u)
    <3> SUFFICES ASSUME NEW v \in T
                 PROVE  \E u \in T : WaitsFor(v, u)
      OBVIOUS
    <3>1. PICK u \in Worker : WaitsFor(v, u)
      BY WhoWaits
    <3>2. u \in S /\ pc[u] # "idle"
      BY <3>1, HoldersAreBusy
    <3> QED
      BY <3>1, <3>2
  <2>2. T \in SUBSET Worker /\ T # {} /\ T \subseteq S
    OBVIOUS
  <2> HIDE DEF T
  <2> QED
    BY <2>1, <2>2, CircleExists
<1>2. IInv /\ LocksAreUsed /\ [Next]_vars => LocksAreUsed'
  BY NextKeeps, LocksStayUsed
<1> QED
  BY <1>1, <1>2, LocksUsedInit, InvariantHolds, PTL DEF Spec
=============================================================================
