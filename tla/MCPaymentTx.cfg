CONSTANTS
  o1 = o1
  o2 = o2
  i1 = i1
  i2 = i2
  i3 = i3
  Order = {o1, o2}
  Instance = {i1, i2, i3}
  NoOrder = NoOrder
  MaxDeliveries = 2
  MaxFaults = 2
SPECIFICATION FairSpec
INVARIANT TypeOK
INVARIANT EventsMatchPayments
PROPERTY DeliveryDecides
PROPERTY LedgerSpec
PROPERTY DeliveriesEnd
CHECK_DEADLOCK FALSE
