CONSTANTS
  o1 = o1
  Order = {o1}
  Loop <- MCLoop
  Inbox <- MCInbox
  MaxResets = 2
SPECIFICATION FairSpec
INVARIANT TypeOK
INVARIANT NothingIsSkipped
INVARIANT RowsNeedResets
PROPERTY LoopsGetThrough
CHECK_DEADLOCK FALSE
