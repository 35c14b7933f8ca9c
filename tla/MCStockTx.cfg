CONSTANTS
  o1 = o1
  o2 = o2
  a = a
  b = b
  r1 = r1
  r2 = r2
  c1 = c1
  c2 = c2
  Order = {o1, o2}
  Sku = {a, b}
  Stocked = {a, b}
  Items <- MCItems
  Stock0 <- MCStock0
  Reserver = {r1, r2}
  Compensator = {c1, c2}
  NoOne = NoOne
  MaxDeliveries <- MCTimes
  MaxFailures <- MCTimes
SPECIFICATION FairSpec
INVARIANT TypeOK
INVARIANT StockIsConserved
INVARIANT OnlyUndoingOversells
PROPERTY ShelfSpec
PROPERTY TransactionsEnd
CHECK_DEADLOCK FALSE
