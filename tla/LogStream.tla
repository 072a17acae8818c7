----------------------------- MODULE LogStream -----------------------------
(***************************************************************************)
(* What log_buffer promises those who log and the worker thread: each      *)
(* thread's records come out in the order in which it committed them, each *)
(* once, none left out.  Nothing is promised about records of different    *)
(* threads.                                                                *)
(***************************************************************************)
EXTENDS Naturals

CONSTANTS Threads, Rounds

VARIABLES
    sent,   \* how many records each thread has committed
    read    \* how many of them the reader was handed

vars == <<sent, read>>

Init ==
    /\ sent = [t \in Threads |-> 0]
    /\ read = [t \in Threads |-> 0]

Log(t) ==
    /\ sent[t] < Rounds[t]
    /\ sent' = [sent EXCEPT ![t] = @ + 1]
    /\ UNCHANGED read

HandOut(t) ==
    /\ read[t] < sent[t]
    /\ read' = [read EXCEPT ![t] = @ + 1]
    /\ UNCHANGED sent

Next == \E t \in Threads : Log(t) \/ HandOut(t)

Spec == Init /\ [][Next]_vars
=============================================================================
