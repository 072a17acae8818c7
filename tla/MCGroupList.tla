---------------------------- MODULE MCGroupList ----------------------------
(***************************************************************************)
(* GroupList with few threads and groups.                                  *)
(***************************************************************************)
EXTENDS GroupList, TLC

CONSTANTS t1, t2, g1, g2, g3, g4

TwoThreads == {t1, t2}
FourGroups == {g1, g2, g3, g4}
Swap == Permutations(TwoThreads) \cup Permutations(FourGroups)
=============================================================================
