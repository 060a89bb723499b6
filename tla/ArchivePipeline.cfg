SPECIFICATION FairSpec
CONSTANTS
  MaxBlock = 2
  MaxFails = 1
  U64_MOD = 8
  MaxBlocksPerIteration = 2
  MaxConcurrentBlocks = 2
  ArchiverOptions <- MCArchiverOptions
  IndexBlocksPerIteration = 2
  IndexConcurrentBlocks = 1
  Tx = {t1}
  IndexerOptions <- MCIndexerOptions
INVARIANTS
  PromisesKept
PROPERTIES
  MarkerForward
  CatchUp
CHECK_DEADLOCK FALSE
