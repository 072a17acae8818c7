----------------------------- MODULE MCSisoRing -----------------------------
(***************************************************************************)
(* SisoRing with a small ring, and the snapshot, which is a user of such a *)
(* ring, in one run: a behaviour is one of SisoRing or one of LogSnapshot, *)
(* and the other rests.                                                    *)
(***************************************************************************)
EXTENDS SisoRing

CONSTANTS u1, u2, None

VARIABLES
    part,
    buffer, texts, index, continuous, lock, inWrite, records, resets, kept, refused, handed

\* Rings of four and eight blocks, with a record larger than half of each.
Snapshot == INSTANCE LogSnapshot WITH
    Users <- {u1, u2}, Capacities <- {4, 8}, Sizes <- {2, 3, 4, 6},
    MaxRecords <- 4, MaxResets <- 2, writing <- inWrite

ASSUME Snapshot!SnapshotConstants

snapshotVars == <<buffer, texts, index, continuous, lock, inWrite, records, resets,
                  kept, refused, handed>>

InRing     == part = "ring" /\ UNCHANGED <<part, snapshotVars>>
InSnapshot == part = "snapshot" /\ UNCHANGED <<part, vars>>

MCInit == /\ Init /\ Snapshot!Init
          /\ part \in {"ring", "snapshot"}
          /\ part = "ring" => buffer.blocks = 0

\* One disjunct for each action, so that TLC counts each.
MCNext ==
    \/ (\E k \in Sizes : Alloc(k)) /\ InRing
    \/ LowSpace /\ InRing
    \/ Fill /\ InRing
    \/ Commit /\ InRing
    \/ Publish /\ InRing
    \/ ReadOne /\ InRing
    \/ Discard /\ InRing
    \/ Return /\ InRing
    \/ BatchRead /\ InRing
    \/ NextOfBatch /\ InRing
    \/ ReturnBatch /\ InRing
    \/ PublishRead /\ InRing
    \/ Traverse /\ InRing
    \/ Renew /\ InRing
    \/ Crash /\ InRing
    \/ Snapshot!BeginWrite /\ InSnapshot
    \/ Snapshot!Write /\ InSnapshot
    \/ Snapshot!FilterOut /\ InSnapshot
    \/ Snapshot!Disable /\ InSnapshot
    \/ Snapshot!Resize /\ InSnapshot
    \/ (\E u \in {u1, u2} : Snapshot!Take(u)) /\ InSnapshot
    \/ (\E u \in {u1, u2} : Snapshot!Release(u)) /\ InSnapshot

MCSpec == MCInit /\ [][MCNext]_<<vars, snapshotVars, part>>

\* A text of the snapshot has no hole, is up to date, and stays until it is
\* released: see LogSnapshot.
SnapshotIsSound == Snapshot!SnapshotIsSound
=============================================================================
