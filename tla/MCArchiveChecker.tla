--------------------------- MODULE MCArchiveChecker ---------------------------
(* Two replicas whose archivers made different mistakes, in four scenarios. *)
(* The block of number n is <<"b", n>>, its receipts are <<"r", n>>, its   *)
(* traces with all their outputs <<"t", 1>>.                               *)
EXTENDS ArchiveChecker, TLC

MCBlocks == ({"b"} \X BlockNum) \cup {<<"altered", 2>>}
MCReceipts == {"r"} \X BlockNum
MCTraces == {"t"} \X {0, 1}

AttrTable ==
  [b \in MCBlocks |->
     [number |-> b[2], hash |-> b, parent |-> <<"b", b[2] - 1>>, txs |-> 1,
      txRoot |-> TRUE, receiptsRoot |-> b[2]]]
  @@ [r \in MCReceipts |-> [len |-> 1, root |-> r[2]]]
  @@ [t \in MCTraces |-> [len |-> 1, bytes |-> 4 + t[2], calls |-> 0, outputs |-> t[2]]]

MCAttr == AttrTable

Right(n) == Copy(<<"b", n>>, <<"r", n>>, <<"t", 1>>)
AllRight == [q \in Replica |-> [n \in BlockNum |-> Right(n)]]

(* What is late is right. *)
MCUploads == AllRight

MCInitData == {
  \* a header was altered: the next block does not follow it
  [AllRight EXCEPT ![1][2]["block"] = <<"altered", 2>>],
  \* one replica has the wrong receipts, the other traces without an output
  [AllRight EXCEPT ![1][2]["receipts"] = <<"r", 1>>, ![2][2]["traces"] = <<"t", 0>>],
  \* an object of the last block is late
  [AllRight EXCEPT ![2][3]["traces"] = None],
  \* an object of the first chunk is late
  [AllRight EXCEPT ![2][1]["traces"] = None] }

(* The archiver of replica 2 lags behind the last chunk. *)
MCTips == <<{5}, {2}>>

(* The read of a block that only replica 2 has right may fail. *)
MCLosses == {{<<2, 2>>}}
===============================================================================
