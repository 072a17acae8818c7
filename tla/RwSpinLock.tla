----------------------------- MODULE RwSpinLock -----------------------------
(***************************************************************************)
(* spin_lock_rw_crazy (src/bq_common/platform/thread/spin_lock.h), the     *)
(* reader-writer lock of the group list, the oversize buffers and the list *)
(* of logs.                                                                *)
(*                                                                         *)
(* One signed counter.  A reader adds 1 FIRST and looks afterwards whether *)
(* a writer was there; if so it takes its 1 back and waits.  A writer puts *)
(* the least value of the type in place of 0, and puts 0 back in place of  *)
(* exactly that value: it cannot leave while a reader has not taken its 1  *)
(* back.  Each atomic operation on the counter is one step.                *)
(***************************************************************************)
EXTENDS Integers, FiniteSets

CONSTANTS
    Threads,    \* the threads that use the lock
    MarkValue   \* write_lock_mark_value, the least value of counter_type

\* "betting that you won't have more than INT32_MAX threads" (the comment on
\* the class).
ASSUME LockAssumption ==
    /\ IsFiniteSet(Threads)
    /\ MarkValue \in Int /\ Cardinality(Threads) < -MarkValue

VARIABLES
    counter,    \* counter_
    pc          \* where each thread is

vars == <<counter, pc>>

\* "backOut": added 1 under a writer, must subtract it again and wait;
\* "tryBackOut": the same in try_read_lock, which then gives up.
Places == {"idle", "backOut", "tryBackOut", "waitRead", "retryRead",
           "reading", "waitWrite", "writing", "unlockWrite"}

Init ==
    /\ counter = 0
    /\ pc = [t \in Threads |-> "idle"]

Goto(t, l) == pc' = [pc EXCEPT ![t] = l]

-----------------------------------------------------------------------------
\* Mutant: the counter is looked at with a load, the 1 added unconditionally.
ReadLockBlind(t) ==
    /\ pc[t] = "idle"
    /\ counter' = counter + 1
    /\ Goto(t, "reading")

\* read_lock: fetch_add, from the call or from the next turn of its loop.
ReadLock(t) ==
    /\ pc[t] \in {"idle", "retryRead"}
    /\ counter' = counter + 1
    /\ Goto(t, IF counter >= 0 THEN "reading" ELSE "backOut")

TryReadLock(t) ==
    /\ pc[t] = "idle"
    /\ counter' = counter + 1
    /\ Goto(t, IF counter >= 0 THEN "reading" ELSE "tryBackOut")

\* Mutant: no inner loop; the 1 is added again at once.
BackOutAtOnce(t) ==
    /\ pc[t] \in {"backOut", "tryBackOut"}
    /\ counter' = counter - 1
    /\ Goto(t, IF pc[t] = "backOut" THEN "retryRead" ELSE "idle")

BackOut(t) ==
    /\ pc[t] \in {"backOut", "tryBackOut"}
    /\ counter' = counter - 1
    /\ Goto(t, IF pc[t] = "backOut" THEN "waitRead" ELSE "idle")

\* The inner loop of read_lock sees no writer.  One may come before the thread
\* is back at its fetch_add.
SeeNoWriter(t) ==
    /\ pc[t] = "waitRead" /\ counter >= 0
    /\ Goto(t, "retryRead")
    /\ UNCHANGED counter

ReadUnlock(t) ==
    /\ pc[t] = "reading"
    /\ counter' = counter - 1
    /\ Goto(t, "idle")

WantWrite(t) ==
    /\ pc[t] = "idle"
    /\ Goto(t, "waitWrite")
    /\ UNCHANGED counter

\* Mutant: the writer only looks for another writer.
WriteLockOverReaders(t) ==
    /\ pc[t] \in {"idle", "waitWrite"} /\ counter >= 0
    /\ counter' = MarkValue
    /\ Goto(t, "writing")

\* The compare-and-swap of write_lock (from its loop) or of try_write_lock
\* (from the call) that succeeds; one that fails changes nothing.
WriteLock(t) ==
    /\ pc[t] \in {"idle", "waitWrite"} /\ counter = 0
    /\ counter' = MarkValue
    /\ Goto(t, "writing")

\* The end of the critical section: from here the thread only tries to leave.
Leave(t) ==
    /\ pc[t] = "writing"
    /\ Goto(t, "unlockWrite")
    /\ UNCHANGED counter

WriteUnlock(t) ==
    /\ pc[t] = "unlockWrite" /\ counter = MarkValue
    /\ counter' = 0
    /\ Goto(t, "idle")

ReaderStep(t) ==
    \/ ReadLock(t) \/ TryReadLock(t)
    \/ BackOut(t) \/ SeeNoWriter(t) \/ ReadUnlock(t)
WriterStep(t) == WantWrite(t) \/ WriteLock(t) \/ Leave(t) \/ WriteUnlock(t)
Next == \E t \in Threads : ReaderStep(t) \/ WriterStep(t)

Spec == Init /\ [][Next]_vars

\* A thread inside a lock operation runs, and a critical section ends: all are
\* scopes of finite code.  Nothing makes a thread call the lock.
Fairness ==
    \A t \in Threads :
        /\ WF_vars(BackOut(t))
        /\ WF_vars(SeeNoWriter(t))
        /\ WF_vars(pc[t] = "retryRead" /\ ReadLock(t))
        /\ WF_vars(ReadUnlock(t))
        /\ WF_vars(Leave(t))
        /\ WF_vars(WriteUnlock(t))

FairSpec == Spec /\ Fairness

-----------------------------------------------------------------------------
\* The threads that have a 1 in the counter, and those that wrote the mark.
Counted == {t \in Threads : pc[t] \in {"reading", "backOut", "tryBackOut"}}
Marked == {t \in Threads : pc[t] \in {"writing", "unlockWrite"}}
Reading == {t \in Threads : pc[t] = "reading"}

\* Each thread is at a place of the code, and the counter stays inside its
\* type although readers add to it before they look.
TypeOK ==
    /\ pc \in [Threads -> Places]
    /\ counter \in MarkValue..(-MarkValue - 1)

\* Readers and a writer are never inside together, nor are two writers: the
\* whole of what group_list, log_manager and the oversize buffers rely on.
Exclusion ==
    /\ Reading = {} \/ Marked = {}
    /\ \A t, u \in Marked : t = u

\* The counter is the number of threads that have a 1 in it, on top of the
\* mark if a writer is there; a thread that must back out proves that there is
\* a writer, so no reader is inside with it.
Accounting ==
    /\ Marked = {} => counter = Cardinality(Counted)
    /\ Marked # {} => counter = MarkValue + Cardinality(Counted)
    /\ \A t \in Counted : pc[t] = "reading" <=> Marked = {}

\* The inductive invariant of the proofs.
IInv == TypeOK /\ Exclusion /\ Accounting

\* The counter implements the reader-writer lock.
Lock == INSTANCE RwLock WITH readers <- Reading, writers <- Marked
ImplementsLock == Lock!Spec

\* Callers of try_read_lock may come back for ever and disturb the counter each
\* time, so the loops end only when no try fails any more.
TriesStop == <>[](\A t \in Threads : pc[t] # "tryBackOut")

\* write_unlock is a loop too, and it comes to an end: each call of read_lock
\* that comes by disturbs it only once.
WriterLeaves ==
    TriesStop => \A t \in Threads : pc[t] = "unlockWrite" ~> pc[t] = "idle"

\* A reader that waits gets in, unless writers keep coming.
ReaderEnters ==
    TriesStop /\ <>[](\A t \in Threads : pc[t] # "writing")
        => \A t \in Threads : pc[t] = "waitRead" ~> pc[t] = "reading"

\* Nobody stays for ever in a loop of the lock: not the writer that leaves, nor
\* the reader that comes behind the last writer.
EverybodyPasses == WriterLeaves /\ ReaderEnters
=============================================================================
