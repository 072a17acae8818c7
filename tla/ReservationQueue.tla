-------------------------- MODULE ReservationQueue --------------------------
(***************************************************************************)
(* What a ring buffer of BqLog promises to the threads that share it: a    *)
(* queue in which a producer first reserves a place, then either commits   *)
(* the chunk it put there or gives the place up, and from which the single *)
(* consumer takes the chunk at the front, once that chunk is committed.    *)
(*                                                                         *)
(* This is the reading of the interface that the class comments give       *)
(* (miso_ring_buffer.h, the list of steps for producer and consumer): no   *)
(* ring, no cursors, no blocks.  MisoRing is shown to implement it.        *)
(***************************************************************************)
EXTENDS Naturals, Sequences, SequencesExt

CONSTANTS
    Producers,  \* the threads that write
    Rounds      \* how many chunks a producer commits before it stops

NoChunk == <<>>
Chunks == Producers \X (1..Rounds)

VARIABLES
    queue,      \* the reserved places in order, each [chunk, done]
    sent,       \* how many chunks each producer has committed
    last        \* the chunk the consumer took last

vars == <<queue, sent, last>>

ChunkOf(p) == <<p, sent[p] + 1>>
Open(p) == [chunk |-> ChunkOf(p), done |-> FALSE]
Done(c) == [chunk |-> c, done |-> TRUE]

Init ==
    /\ queue = <<>>
    /\ sent = [p \in Producers |-> 0]
    /\ last = NoChunk

\* A place at the end of the queue, for the next chunk of p.
Reserve(p) ==
    /\ sent[p] < Rounds
    /\ ~Contains(queue, Open(p))
    /\ queue' = Append(queue, Open(p))
    /\ UNCHANGED <<sent, last>>

\* The place is given up, wherever in the queue it is.
GiveUp(p) ==
    \E i \in DOMAIN queue :
        /\ queue[i] = Open(p)
        /\ queue' = RemoveAt(queue, i)
        /\ UNCHANGED <<sent, last>>

\* The chunk is complete: the consumer may take it when its turn comes.
Commit(p) ==
    \E i \in DOMAIN queue :
        /\ queue[i] = Open(p)
        /\ queue' = [queue EXCEPT ![i].done = TRUE]
        /\ sent' = [sent EXCEPT ![p] = @ + 1]
        /\ UNCHANGED last

\* The consumer takes the chunk at the front, which must be complete.
Take ==
    /\ queue # <<>>
    /\ Head(queue).done
    /\ last' = Head(queue).chunk
    /\ queue' = Tail(queue)
    /\ UNCHANGED sent

Next ==
    \/ \E p \in Producers : Reserve(p) \/ GiveUp(p) \/ Commit(p)
    \/ Take

Spec == Init /\ [][Next]_vars
=============================================================================
