SPECIFICATION Spec
CONSTANTS
  b1 = b1
  b2 = b2
  a1 = a1
  a2 = a2
  Session = {s1, s2}
  Waiter = {w1}
  Tx = {t1, t2}
  Decodes = {t1}
  Block = {b1, b2}
  Height <- MCHeight
  BlockLogs <- MCLogs
  Bloom <- MCBloom
  Oversized = {b2}
  Filter <- MCFilters
  ConnectionLimit = 1
  SubscriptionLimit = 1
  ChannelSize = 2
  ClientTimeout = 1
  MaxEvents = 4
  MaxMessages = 3
SYMMETRY MCSymmetry
INVARIANTS
  NotificationsExact
  SessionsCounted
  ReceiptNotMissed
CHECK_DEADLOCK FALSE
