SPECIFICATION Spec
CONSTANTS
  Replica = {1, 2}
  Blocks <- MCBlocks
  Receipts <- MCReceipts
  Traces <- MCTraces
  Attr <- MCAttr
  None = None
  ChunkSize = 2
  NumChunks = 2
  Rechecker = {"r1"}
  Uploads <- MCUploads
  InitData <- MCInitData
  Tips <- MCTips
  TipLag = 1
  MinLag = 0
  ForceRecheck = TRUE
  Word = 64
  Losses <- MCLosses
  MaxFailures = 1
INVARIANTS
  ReportsSound
PROPERTY
  SoundStays
CHECK_DEADLOCK FALSE
