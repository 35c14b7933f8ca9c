CONSTANTS
  t1 = t1
  t2 = t2
  b1 = b1
  b2 = b2
  Topic = {t1, t2}
  Messages <- MCMessages
  Browser = {b1, b2}
  Quick = {b1}
  Capacity = 1
SPECIFICATION FairSpec
INVARIANT TypeOK
INVARIANT EventsAreAccountedFor
INVARIANT OneOrder
PROPERTY FeedDrains
PROPERTY QuickBrowsersSeeEvents
CHECK_DEADLOCK FALSE
