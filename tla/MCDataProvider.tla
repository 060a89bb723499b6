-------------------------- MODULE MCDataProvider --------------------------
\* Two forks at height 2 that share a transaction; block 1 came by statesync.
EXTENDS DataProvider, TLC

CONSTANTS a1, a2, b2, a3, t1, t2, t3

MCBlocks == {a1, a2, b2, a3}
MCHeight == (a1 :> 1) @@ (a2 :> 2) @@ (b2 :> 2) @@ (a3 :> 3)
MCParent == (a1 :> NoBlock) @@ (a2 :> a1) @@ (b2 :> a1) @@ (a3 :> a2)
MCTxs    == (a1 :> <<t1>>) @@ (a2 :> <<t2, t3>>) @@ (b2 :> <<t3>>) @@ (a3 :> << >>)

P(b) == [state |-> "proposed", block |-> b]
V(b) == [state |-> "voted", block |-> b]
F(b) == [state |-> "finalized", block |-> b]

\* The fork that is abandoned is proposed first, or second.
MCHistories ==
  {<<P(a1), V(a1), F(a1), P(b2), P(a2), V(a2), P(a3), F(a2)>>,
   <<P(a1), V(a1), F(a1), P(a2), P(b2), V(a2), P(a3), F(a2)>>}

MCGas    == (t1 :> 1) @@ (t2 :> 2) @@ (t3 :> 4)
MCEmits  == (t1 :> 1) @@ (t2 :> 0) @@ (t3 :> 2)
MCTxSize == (t1 :> 2) @@ (t2 :> 1) @@ (t3 :> 1)

MCRequests ==
  {monad_debug_getRawHeader(Num(1)), monad_debug_getRawHeader(Tag("safe")),
   monad_debug_getRawBlock(Num(2)), monad_debug_getRawReceipts(Num(3)),
   monad_debug_getRawReceipts(Num(1)), monad_debug_getRawTransaction(t1),
   monad_eth_getBlockByHash(a2, TRUE), monad_eth_getBlockByNumber(Tag("latest"), FALSE),
   monad_eth_getBlockTransactionCountByHash(a2), monad_eth_getBlockTransactionCountByNumber(Num(1)),
   monad_eth_getBlockReceipts(Tag("finalized")), monad_eth_getBlockReceipts(Hash(a2)),
   monad_debug_traceBlock(Hash(a2)), monad_debug_traceBlock(Num(2)),
   monad_eth_getTransactionByBlockHashAndIndex(a2, 2),
   monad_eth_getTransactionByBlockNumberAndIndex(Tag("safe"), 2),
   monad_eth_getTransactionByHash(t3), monad_debug_traceTransaction(t3),
   monad_eth_getTransactionReceipt(t1), monad_eth_getTransactionReceipt(t3),
   monad_eth_getBalance(Num(1)), monad_eth_getTransactionCount(Hash(a2)),
   monad_eth_getStorageAt(Tag("latest")), monad_eth_getCode(Num(2)),
   monad_eth_getLogs(Num(1), Num(1), {t1, t3}, TRUE), monad_eth_getLogs(Hash(a2), Hash(a2), {t3}, TRUE),
   monad_eth_getLogs(Hash(a1), Hash(a1), {t1}, FALSE),
   monad_eth_getLogs(Num(1), Tag("latest"), {t1, t3}, TRUE)}
=============================================================================
