CONSTANTS
  p1 = p1
  p2 = p2
  Poller = {p1, p2}
  Row = {1, 2, 3}
  Poison = {1}
  Limit = 2
  MaxFails = 2
  MaxAborts = 2
SPECIFICATION FairSpec
INVARIANT TypeOK
INVARIANT LocksAreExclusive
INVARIANT MarkedIsInKafka
INVARIANT CopiesNeedFaults
PROPERTY RelaySpec
PROPERTY HealthyRowsGetOut
