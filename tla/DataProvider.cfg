SPECIFICATION Spec
CONSTANTS
  a1 = a1 a2 = a2 b2 = b2 a3 = a3
  t1 = t1 t2 = t2 t3 = t3
  NoBlock = NoBlock
  Blocks <- MCBlocks
  Height <- MCHeight
  Parent <- MCParent
  Txs <- MCTxs
  Histories <- MCHistories
  Requests <- MCRequests
  SyncedTo = 3
  BufferCapacity = 2
  StateSynced = 2
  MaxBlockRange = 2
  MaxLogs = 3
  MinLogs = 1
  MinBlocks = 1
  MaxResponseSize = 4
  Gas <- MCGas
  Emits <- MCEmits
  TxSize <- MCTxSize
  HeaderSize = 3
  LengthWidth = 5
  CacheLen = 0
  MaxFaults = 1
INVARIANTS
  SettledAnswers
  StateNotInvented
  LogsExact
