CONSTANTS
  o1 = o1
  Order = {o1}
  Lines <- MCLines
  Total <- MCTotal
  MaxResets = 1
  MaxDups = 0
  MaxErrors = 2
SPECIFICATION FairSpec
INVARIANT StrandedButSound
INVARIANT SettlementAgrees
PROPERTY ContractSpec
PROPERTY OrderSettles
PROPERTY RefundFollows
CHECK_DEADLOCK FALSE
