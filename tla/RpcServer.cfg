SPECIFICATION FairSpec
CONSTANTS
  HexDigits64 = 2
  HashBytes = 2
  AddressBytes = 1
  SampleLog <- MCLogs
  SampleFrame <- MCFrames
  SampleId <- MCIds
  SampleText <- MCTexts
  Conn = {h1, w1}
  WebSockets = {w1}
  Body <- MCBodies
  ResultLen = {1, 60}
  Resources <- MCResources
  SupportedChain = FALSE
  MaxConcurrentPermits = 2
  FeeHistoryPermits = 1
  Fibers = 1
  BatchRequestLimit = 3
  BatchConcurrentLimit = 2
  MaxResponseSize = 150
  MaxRequests = 2
INVARIANTS
  CallAccounting
  BatchExact
  WireExact
PROPERTIES
  RequestsAnswered
CHECK_DEADLOCK FALSE
