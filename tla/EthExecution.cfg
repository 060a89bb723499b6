SPECIFICATION ExecutionSpec
CONSTANTS
  U64Max = 1000000
  U128Max = 2000000
  U256Max = 4000000
  ChainId = 1
  MaxCodeSize = 4
  TipSuggestion = 2
  MaxBlock = 4
  Retained = 3
  BufferDrift = 1
  ProviderCall = 150000
  ProviderEstimate = 180000
  ProviderSimulate = 190000
  MaxCalls = 3
  MaxBlocks = 2
  MaxResponse = 5
  CallStipend = 2300
  TransferGas = 21000
  BaseFee <- MCBaseFee
  GasLimit <- MCGasLimit
  Balance <- MCBalance
  Slots = {"s", "t"}
  CodeAt <- MCCodeAt
  MaxDepth = 5
  BlockTxs <- MCTxsOf
  Requests <- MCRequests
  Executors <- MCExecutors
INVARIANTS
  EstimateExact
  PinnedBlock
  FilledSignable
  ReadingsExact
