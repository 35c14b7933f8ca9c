CONSTANTS
  o1 = o1
  Order = {o1}
  Lines <- MCLines
  Total <- MCTotal
  MaxResets = 0
  MaxDups = 0
  MaxErrors = 1
SPECIFICATION FairSpec

PROPERTY EveryOrderSettles
CHECK_DEADLOCK FALSE
