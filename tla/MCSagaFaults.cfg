CONSTANTS
  o1 = o1
  Order = {o1}
  Lines <- MCLines
  Total <- MCTotal
  MaxResets = 1
  MaxDups = 1
  MaxErrors = 0
SPECIFICATION Spec
INVARIANT TypeOK
INVARIANT MessagesAreRecorded
INVARIANT Causality
INVARIANT PaymentsMatchEvents
PROPERTY StockReturnedOnFailure
PROPERTY LedgerSpec
CHECK_DEADLOCK FALSE
