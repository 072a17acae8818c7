---------------------------- MODULE BlockStacks ----------------------------
(***************************************************************************)
(* What the three lists of blocks of a group promise: a block that a       *)
(* thread takes from free_ is the thread's alone until it has put it on    *)
(* stage_; the reader takes it from there, files it in used_, and in the   *)
(* end puts it back on free_.  Every operation is one step, and free_ and  *)
(* stage_ are last in, first out.  When the process dies, stage_ and used_ *)
(* stay; what was free or in a hand is free.                               *)
(***************************************************************************)
EXTENDS Naturals, Sequences, SequencesExt

CONSTANTS Threads, Reader, Blocks, None

VARIABLES
    free, stage, used,  \* the lists, first block first
    hand                \* the block each thread, and the reader, is moving

vars == <<free, stage, used, hand>>

Init ==
    /\ free \in SetToSeqs(Blocks)
    /\ stage = <<>> /\ used = <<>>
    /\ hand = [a \in Threads \cup {Reader} |-> None]

Takes(a, b) == hand[a] = None /\ hand' = [hand EXCEPT ![a] = b]
Gives(a) == hand[a] # None /\ hand' = [hand EXCEPT ![a] = None]

PopFree(t) ==
    /\ free # <<>> /\ free' = Tail(free) /\ Takes(t, Head(free))
    /\ UNCHANGED <<stage, used>>

PushStage(t) ==
    /\ Gives(t) /\ stage' = <<hand[t]>> \o stage
    /\ UNCHANGED <<free, used>>

PopStage ==
    /\ stage # <<>> /\ stage' = Tail(stage) /\ Takes(Reader, Head(stage))
    /\ UNCHANGED <<free, used>>

PutUsed ==
    /\ Gives(Reader)
    /\ \E i \in 1..(Len(used) + 1) : used' = InsertAt(used, i, hand[Reader])
    /\ UNCHANGED <<free, stage>>

TakeUsed ==
    /\ \E i \in 1..Len(used) : used' = RemoveAt(used, i) /\ Takes(Reader, used[i])
    /\ UNCHANGED <<free, stage>>

PushFree ==
    /\ Gives(Reader) /\ free' = <<hand[Reader]>> \o free
    /\ UNCHANGED <<stage, used>>

Die ==
    /\ free' \in SetToSeqs(Blocks \ (ToSet(stage) \cup ToSet(used)))
    /\ hand' = [a \in Threads \cup {Reader} |-> None]
    /\ UNCHANGED <<stage, used>>

Next ==
    \/ \E t \in Threads : PopFree(t) \/ PushStage(t)
    \/ PopStage \/ PutUsed \/ TakeUsed \/ PushFree \/ Die

Spec == Init /\ [][Next]_vars
=============================================================================
