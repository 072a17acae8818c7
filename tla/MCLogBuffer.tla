---------------------------- MODULE MCLogBuffer ----------------------------
(***************************************************************************)
(* LogBuffer with few threads, groups and records.                         *)
(***************************************************************************)
EXTENDS LogBuffer, TLC

CONSTANTS t1, t2, g1, g2, g3

TwoThreads == {t1, t2}
ThreeAndTwo == t1 :> 3 @@ t2 :> 2
ThreeGroups == {g1, g2, g3}
SwapGroups == Permutations(ThreeGroups)
=============================================================================
