----------------------------- MODULE MCRpcServer -----------------------------
(* A small instance of RpcServer: an HTTP connection whose batches run two *)
(* calls at a time beside a WebSocket session, with two permits for them,  *)
(* on a chain whose transactions cannot be replayed.                       *)
EXTENDS RpcWire

MCCall(n, method) ==
  [readable |-> TRUE, id |-> [kind |-> "number", value |-> n], method |-> method,
   params |-> TRUE, replay |-> FALSE]
MCBody(kind, calls) == [encoding |-> "none", kind |-> kind, calls |-> calls]

MCBodies ==
  {MCBody("single", <<MCCall(1, "eth_call")>>),
   MCBody("single", <<[MCCall(-1, "debug_traceTransaction") EXCEPT !.replay = TRUE]>>),
   MCBody("single", <<[MCCall(1, "eth_call") EXCEPT !.readable = FALSE]>>),
   MCBody("single", <<MCCall(4, "eth_feeHistory")>>),
   MCBody("batch", <<MCCall(9, "eth_call"), MCCall(10, "eth_estimateGas"),
                     MCCall(11, "eth_feeHistory")>>),
   MCBody("batch", <<[MCCall(1, "eth_call") EXCEPT !.readable = FALSE],
                     [MCCall(2, "eth_getBalance") EXCEPT !.params = FALSE],
                     MCCall(3, "eth_feeHistory")>>),
   MCBody("batch", <<MCCall(1, "admin_ethCallStatistics"), MCCall(2, "no_such_method")>>),
   MCBody("batch", <<MCCall(5, "eth_blockNumber"), MCCall(6, "eth_simulateV1")>>),
   MCBody("batch", <<>>),
   MCBody("batch", [i \in 1..4 |-> MCCall(i, "eth_chainId")]),
   MCBody("unreadable", <<>>),
   [MCBody("single", <<MCCall(1, "eth_chainId")>>) EXCEPT !.encoding = "gzip"]}

MCResources == {"data", "eth_call", "statistics", "txpool"}

(* Values at the edges: absent fields, zero, the widths of numbers, every  *)
(* kind of character, nested frames, texts of up to five characters and    *)
(* all that are as long as a hash.                                         *)
MCOption(S) == {None} \cup {Some(v) : v \in S}
MCLogs ==
  [block_hash : MCOption({0}), block_number : MCOption({0, 16}), block_timestamp : MCOption({255}),
   data : {0, 2}, log_index : {None}, removed : BOOLEAN, topics : 0..2,
   transaction_hash : {None, Some(0)}, transaction_index : MCOption({15})]
MCStrings == {<<>>} \cup {<<c>> : c \in CharKind} \cup {<<"vtab", "ascii", c>> : c \in CharKind}
MCIds ==
  {[kind |-> "null"]} \cup {[kind |-> "string", value |-> s] : s \in MCStrings}
  \cup {[kind |-> "number", value |-> n] : n \in {-100, -99, -10, -9, -1, 0, 1, 9, 10, 99, 100, 2147483647}}
MCFrameLog == [topics |-> <<0, 0>>, data |-> 1, position |-> 0, index |-> 16]
MCLeaf ==
  [typ : {"CALL", "SELFDESTRUCT"}, to : MCOption({0}), value : MCOption({0, 256}), gas : {0, 21000},
   gas_used : {15}, input : {0, 4}, output : {0, 4}, error : MCOption({<<"quote", "ascii">>}),
   revert_reason : MCOption({<<"two_bytes">>}), calls : {<<>>}, logs : {<<>>, <<MCFrameLog>>}]
MCParent(calls) ==
  [typ |-> "CREATE2", to |-> None, value |-> Some(1), gas |-> 1, gas_used |-> 0, input |-> 1,
   output |-> 0, error |-> None, revert_reason |-> None, calls |-> calls,
   logs |-> <<MCFrameLog, MCFrameLog>>]
MCFrames == MCLeaf \cup {MCParent(<<f>>) : f \in MCLeaf} \cup {MCParent(<<f, MCParent(<<f>>)>>) : f \in MCLeaf}
MCChars == {"0", "x", "+", "a", "F", "g"}
MCTexts ==
  UNION {[1..n -> MCChars] : n \in 0..5} \cup {<<"latest">>, <<"earliest">>}
  \cup {<<"0", "x">> \o t : t \in [1..4 -> MCChars]}
=============================================================================
