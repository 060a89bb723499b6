SPECIFICATION Spec
CONSTANTS
  a1 = a1
  a2 = a2
  b1 = b1
  b2 = b2
  t1 = t1
  t2 = t2
  Block = {a1, a2, b1, b2}
  Genesis = Genesis
  NoBlock = NoBlock
  Tx = {t1, t2}
  Parent <- MCParent
  Height <- MCHeight
  Txs <- MCTxs
  RingSize = 1
  ChannelSize = 2
  Capacity = 2
INVARIANTS
  MapsAgree
  FinalizedServed
CHECK_DEADLOCK FALSE
