---------------------------- MODULE MCQueryWriter ----------------------------
(* A small instance of QueryWriter: three blocks of one finalized chain    *)
(* and one that does not link, two families, blobs of two ids and bitmap   *)
(* pages of three.                                                         *)
EXTENDS QueryValidator

CONSTANTS h0, h1, h2, h3, hx, x, y, w1, w2

MCRow(bytes, filters) == [bytes |-> bytes, filters |-> filters]
MCBlock(n, h, parent, header, txs) ==
  [number |-> n, hash |-> h, parent |-> parent,
   rows |-> [f \in 0 .. 1 |-> IF f = 0 THEN <<header>> ELSE txs]]

MCBlocks ==
  {MCBlock(1, h1, h0, MCRow(<<x>>, {w1}), <<MCRow(<<x, y>>, {w1}), MCRow(<<y>>, {w2})>>),
   MCBlock(2, h2, h1, MCRow(<<y, y>>, {w2}), <<>>),
   MCBlock(3, h3, h2, MCRow(<<x, y>>, {w1}), <<MCRow(<<y, x>>, {w1, w2}), MCRow(<<x>>, {w1})>>),
   MCBlock(2, hx, h3, MCRow(<<x>>, {w2}), <<>>)}

(* All three linked blocks are eventually indexed. *)
AllIndexed == IndexedThrough(3)
=============================================================================
