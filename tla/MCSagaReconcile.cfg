CONSTANTS
  o1 = o1
  Order = {o1}
  Lines <- MCLines
  Total <- MCTotal
  MaxResets = 1
  MaxDups = 0
  MaxErrors = 0
SPECIFICATION Spec
INVARIANT NothingToReconcile

CHECK_DEADLOCK FALSE
