SPECIFICATION FairSpec
CONSTANTS
  Tx = {t1, t2}
  Address = {a1}
  Sender <- OneSender
  Submitter = {s1, s2}
  NoSub = NoSub
  Capacity = 3
  Clients = 1
  MaxEvents = 1
  MaxMoves = 2
INVARIANTS
  TablesAgree
  OkMeansAccepted
  NoMissedWake
  StatusCurrent
PROPERTIES
  Reconnects
CHECK_DEADLOCK FALSE
