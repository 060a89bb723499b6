SPECIFICATION FairSpec
CONSTANTS
  NumFamilies = 2
  Blocks <- MCBlocks
  h0 = h0
  h1 = h1
  h2 = h2
  h3 = h3
  hx = hx
  x = x
  y = y
  w1 = w1
  w2 = w2
  Hash = {h0, h1, h2, h3, hx}
  NoHash = NoHash
  Filter = {w1, w2}
  Byte = {x, y}
  StartBlock = 1
  FlushEvery = 2
  ITEMS_PER_BLOB = 2
  PAGE_SPAN = 3
  MaxFails = 3
INVARIANTS
  Recoverable
  QueriesExact
  ValidatorQuiet
PROPERTIES
  CommittedStable
  ImplementsIndex
  AllIndexed
CHECK_DEADLOCK FALSE
