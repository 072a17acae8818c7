------------------------- MODULE MisoRingRefinement -------------------------
(***************************************************************************)
(* MisoRing implements ReservationQueue: the places of the queue are the   *)
(* reservations of the threads that are not settled as a gap, and the      *)
(* committed chunks in memory, in the order of their cursors.              *)
(***************************************************************************)
EXTENDS MisoRing, SequencesExt

\* A place: the cursor where it begins, and what the queue shows of it.
Place(c, chunk, done) == [at |-> c, chunk |-> chunk, done |-> done]
Shown(x) == [chunk |-> x.chunk, done |-> x.done]

\* The reservations that are not committed and not (going to be) a gap.
HasPlace(p) ==
    \/ pc[p] \in {"over", "back", "filling", "filled"}
    \/ pc[p] = "mine" /\ Contiguous(p)
OpenPlace(p) == Place(cur[p], ChunkOf(p), FALSE)
OpenPlaces == {OpenPlace(p) : p \in {q \in Producers : HasPlace(q)}}

\* The committed chunks that the reader has still to hand on.
Readable(c) == c >= cacheCursor /\ BlockAt(c).status = "used"
DonePlace(c) == Place(c, BlockAt(c).chunk, TRUE)
DonePlaces == {DonePlace(c) : c \in {d \in Window : Readable(d)}}

Places == OpenPlaces \cup DonePlaces

\* s is the places S in the order of their cursors.
Arranges(s, S) ==
    /\ ToSet(s) = S
    /\ \A i, j \in DOMAIN s : i < j => s[i].at < s[j].at

Arranged(S) == CHOOSE s \in [1..Cardinality(S) -> S] : Arranges(s, S)

AllShown(s) == [i \in DOMAIN s |-> Shown(s[i])]

queue == AllShown(Arranged(Places))

Q == INSTANCE ReservationQueue

\* Each chunk is handed on exactly once, complete, in the order in which the
\* places were reserved, whatever the interleaving of reservations, rollbacks,
\* gaps and lazy publication.
ImplementsQueue == Q!Spec

\* A chunk that is committed is handed on, once the threads that reserved
\* before it have committed too.
CommittedIsTaken ==
    \A c \in Chunks : Contains(queue, Q!Done(c)) ~> last = c

\* Nobody who works on the ring does so in vain: a thread that has reserved too
\* much gets out again, and what is committed is handed on.
RingProgress == FallBackEnds /\ CommittedIsTaken

=============================================================================
