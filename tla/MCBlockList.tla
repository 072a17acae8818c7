---------------------------- MODULE MCBlockList ----------------------------
(***************************************************************************)
(* BlockList with few threads and blocks and a short mark.                 *)
(***************************************************************************)
EXTENDS BlockList, TLC

CONSTANTS t1, t2, b1, b2, b3

TwoThreads == {t1, t2}
ThreeBlocks == {b1, b2, b3}
Symmetric == Permutations(TwoThreads) \cup Permutations(ThreeBlocks)
=============================================================================
