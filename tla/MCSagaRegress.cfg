CONSTANTS
  o1 = o1
  Order = {o1}
  Lines <- MCLines
  Total <- MCTotal
  MaxResets = 0
  MaxDups = 0
  MaxErrors = 0
SPECIFICATION Spec
INVARIANT SagaMatchesOrder

CHECK_DEADLOCK FALSE
