CONSTANTS
  dashboard = dashboard
  order = order
  inventory = inventory
  payment = payment
  notification = notification
  Phase1 <- MCPhase1
  Phase2 <- MCPhase2
  MaxTries = 2
SPECIFICATION Spec
PROPERTY KilledAfterGrace
CHECK_DEADLOCK FALSE
