-------------------------- MODULE MCMisoRingCrash --------------------------
(***************************************************************************)
(* MisoRingCrash on a small ring.                                          *)
(***************************************************************************)
EXTENDS MisoRingCrash, TLC

CONSTANTS p1, p2
TwoThreads == {p1, p2}
Swap == Permutations(TwoThreads)
=============================================================================
