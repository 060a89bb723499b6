---------------------------- MODULE MCBlockBuffer ----------------------------
(* A small instance of BlockBuffer: two forks of two heights, and a         *)
(* transaction that is in blocks of both, at different heights.            *)
EXTENDS BlockBuffer, TLC

CONSTANTS a1, a2, b1, b2, t1, t2

MCParent == (a1 :> Genesis) @@ (a2 :> a1) @@ (b1 :> Genesis) @@ (b2 :> b1)
MCHeight == (a1 :> 1) @@ (a2 :> 2) @@ (b1 :> 1) @@ (b2 :> 2)
MCTxs == (a1 :> {}) @@ (a2 :> {t1}) @@ (b1 :> {t1}) @@ (b2 :> {t2})
=============================================================================
