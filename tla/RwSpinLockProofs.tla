-------------------------- MODULE RwSpinLockProofs --------------------------
(***************************************************************************)
(* RwSpinLock for any finite set of threads: exclusion, and that the       *)
(* counter implements the lock of module RwLock.                           *)
(*                                                                         *)
(* The inductive invariant is IInv.  Exclusion alone is not inductive: that *)
(* no reader is inside when the counter is 0 needs the accounting of who   *)
(* has a 1 in the counter, those who must still take it back included.     *)
(***************************************************************************)
EXTENDS RwSpinLock, FiniteSetTheorems, TLAPS

\* How many threads have a 1 in the counter is a number, at most as many as
\* there are threads, and it is 0 only if there is none.
LEMMA Counting ==
  /\ IsFiniteSet(Counted)
  /\ Cardinality(Counted) \in Nat
  /\ Cardinality(Counted) < -MarkValue
  /\ Cardinality(Counted) = 0 <=> Counted = {}
  <1>1. Counted \in SUBSET Threads BY DEF Counted
  <1>2. IsFiniteSet(Counted) /\ Cardinality(Counted) <= Cardinality(Threads)
    BY <1>1, FS_Subset, LockAssumption
  <1>3. Cardinality(Counted) \in Nat /\ Cardinality(Threads) \in Nat
    BY <1>2, FS_CardinalityType, LockAssumption
  <1> QED BY <1>2, <1>3, FS_EmptySet, LockAssumption

\* The sign of the counter tells whether a writer is there.
LEMMA Sign ==
  ASSUME IInv
  PROVE  /\ counter >= 0 <=> Marked = {}
         /\ counter = 0 => Marked = {} /\ Counted = {}
         /\ counter = MarkValue => Counted = {}
  BY Counting, LockAssumption DEF IInv, Accounting

\* The invariant at the next state, from how the two sets and the counter
\* change: no more than this distinguishes the actions.
LEMMA Settle ==
  ASSUME IInv, pc' \in [Threads -> Places], Exclusion', Accounting'
  PROVE  IInv'
  <1>1. /\ Cardinality(Counted') \in Nat
        /\ Cardinality(Counted') < -MarkValue
    <2>1. Counted' \in SUBSET Threads BY DEF Counted
    <2>2. /\ IsFiniteSet(Counted')
          /\ Cardinality(Counted') <= Cardinality(Threads)
      BY <2>1, FS_Subset, LockAssumption
    <2>3. Cardinality(Counted') \in Nat /\ Cardinality(Threads) \in Nat
      BY <2>2, FS_CardinalityType, LockAssumption
    <2> QED BY <2>2, <2>3, LockAssumption
  <1>2. \/ counter' = Cardinality(Counted')
        \/ counter' = MarkValue + Cardinality(Counted')
    BY DEF Accounting
  <1>3. counter' \in MarkValue..(-MarkValue - 1)
    <2>1. PICK n \in Nat : n = Cardinality(Counted') BY <1>1
    <2>2. n < -MarkValue /\ (counter' = n \/ counter' = MarkValue + n)
      BY <1>1, <1>2, <2>1
    <2> QED BY <2>2, LockAssumption
  <1> QED BY <1>3 DEF IInv, TypeOK

\* A reader adds its 1.
LEMMA AddOne ==
  ASSUME IInv, NEW t \in Threads, pc[t] \in {"idle", "retryRead"},
         counter' = counter + 1,
         NEW l \in {"backOut", "tryBackOut"},
         Goto(t, IF counter >= 0 THEN "reading" ELSE l)
  PROVE  IInv'
  <1> USE DEF IInv, TypeOK, Goto, Places
  <1>1. pc' \in [Threads -> Places] OBVIOUS
  <1>2. t \notin Counted /\ Counted' = Counted \cup {t} BY DEF Counted
  <1>3. Marked' = Marked BY DEF Marked
  <1>4. Cardinality(Counted') = Cardinality(Counted) + 1
    BY <1>2, Counting, FS_AddElement
  <1>5. Exclusion'
    BY <1>3, Sign DEF Exclusion, Reading
  <1>6. Accounting'
    <2>1. \A u \in Counted' : pc'[u] = "reading" <=> Marked = {}
      BY <1>2, Sign DEF Accounting, Counted
    <2> QED BY <1>3, <1>4, <2>1, Counting, LockAssumption DEF Accounting
  <1> QED BY <1>1, <1>5, <1>6, Settle

\* A thread takes its 1 back, by backing out or by leaving.
LEMMA TakeOneBack ==
  ASSUME IInv, NEW t \in Threads, t \in Counted, counter' = counter - 1,
         NEW l \in {"waitRead", "idle"}, Goto(t, l)
  PROVE  IInv'
  <1> USE DEF IInv, TypeOK, Goto, Places
  <1>1. pc' \in [Threads -> Places] OBVIOUS
  <1>2. Counted' = Counted \ {t} BY DEF Counted
  <1>3. Marked' = Marked BY DEF Marked, Counted
  <1>4. Cardinality(Counted') = Cardinality(Counted) - 1
    BY <1>2, Counting, FS_RemoveElement
  <1>5. Exclusion' BY <1>3 DEF Exclusion, Reading, Counted
  <1>6. Accounting'
    <2>1. \A u \in Counted' : pc'[u] = "reading" <=> Marked = {}
      BY <1>2 DEF Accounting, Counted
    <2> QED BY <1>3, <1>4, <2>1, Counting, LockAssumption DEF Accounting
  <1> QED BY <1>1, <1>5, <1>6, Settle

\* A step between places that count for nothing, or inside the writer.
LEMMA Elsewhere ==
  ASSUME IInv, NEW t \in Threads, UNCHANGED counter,
         NEW l \in Places, Goto(t, l),
         \/ /\ pc[t] \in {"idle", "waitRead"}
            /\ l \in {"retryRead", "waitWrite"}
         \/ pc[t] = "writing" /\ l = "unlockWrite"
  PROVE  IInv'
  <1> USE DEF IInv, TypeOK, Goto, Places
  <1>1. pc' \in [Threads -> Places] OBVIOUS
  <1>2. Counted' = Counted /\ Marked' = Marked /\ Reading' = Reading
    BY DEF Counted, Marked, Reading
  <1>3. Exclusion' BY <1>2 DEF Exclusion
  <1>4. Accounting'
    <2>1. \A u \in Counted : pc'[u] = "reading" <=> pc[u] = "reading"
      BY DEF Counted
    <2> QED BY <1>2, <2>1 DEF Accounting
  <1> QED BY <1>1, <1>3, <1>4, Settle

\* The mark goes in: nobody was inside.
LEMMA MarkIn ==
  ASSUME IInv, NEW t \in Threads, WriteLock(t)
  PROVE  IInv' /\ Reading = {} /\ Marked = {} /\ Reading' = {} /\ Marked' = {t}
  <1> USE DEF IInv, TypeOK, Goto, Places, WriteLock
  <1>1. pc' \in [Threads -> Places] OBVIOUS
  <1>2. Marked = {} /\ Counted = {} BY Sign
  <1>3. Counted' = {} BY <1>2 DEF Counted
  <1>4. Marked' = {t} BY <1>2 DEF Marked
  <1>5. Reading = {} /\ Reading' = {} BY <1>2, <1>3 DEF Reading, Counted
  <1>6. Exclusion' BY <1>4, <1>5 DEF Exclusion
  <1>7. Accounting'
    BY <1>3, <1>4, FS_EmptySet, LockAssumption DEF Accounting
  <1> QED BY <1>1, <1>2, <1>4, <1>5, <1>6, <1>7, Settle

\* The mark goes out, and with it the only writer.
LEMMA MarkOut ==
  ASSUME IInv, NEW t \in Threads, WriteUnlock(t)
  PROVE  IInv' /\ Reading' = Reading /\ Marked = {t} /\ Marked' = {}
  <1> USE DEF IInv, TypeOK, Goto, Places, WriteUnlock
  <1>1. pc' \in [Threads -> Places] OBVIOUS
  <1>2. Counted = {} BY Sign
  <1>3. Marked = {t} BY DEF Marked, Exclusion
  <1>4. Marked' = {} BY <1>3 DEF Marked
  <1>5. Counted' = {} BY <1>2 DEF Counted
  <1>6. Reading' = {} /\ Reading = {} BY <1>2, <1>5 DEF Reading, Counted
  <1>7. Exclusion' BY <1>4, <1>6 DEF Exclusion
  <1>8. Accounting' BY <1>4, <1>5, FS_EmptySet DEF Accounting
  <1> QED BY <1>1, <1>3, <1>4, <1>6, <1>7, <1>8, Settle

LEMMA InitInv == Init => IInv
  <1> SUFFICES ASSUME Init PROVE IInv OBVIOUS
  <1>1. Counted = {} /\ Marked = {} /\ Reading = {}
    BY DEF Init, Counted, Marked, Reading
  <1>2. TypeOK
    <2>1. Cardinality(Threads) \in Nat BY LockAssumption, FS_CardinalityType
    <2> QED BY <2>1, LockAssumption DEF Init, TypeOK, Places
  <1> QED BY <1>1, <1>2, FS_EmptySet DEF Init, IInv, Exclusion, Accounting

LEMMA StepInv == IInv /\ [Next]_vars => IInv'
  <1> SUFFICES ASSUME IInv, [Next]_vars PROVE IInv' OBVIOUS
  <1>1. ASSUME NEW t \in Threads, ReadLock(t) PROVE IInv'
    BY <1>1, AddOne DEF ReadLock
  <1>2. ASSUME NEW t \in Threads, TryReadLock(t) PROVE IInv'
    BY <1>2, AddOne DEF TryReadLock
  <1>3. ASSUME NEW t \in Threads, BackOut(t) PROVE IInv'
    BY <1>3, TakeOneBack DEF BackOut, Counted
  <1>4. ASSUME NEW t \in Threads, SeeNoWriter(t) PROVE IInv'
    BY <1>4, Elsewhere DEF SeeNoWriter, Places
  <1>5. ASSUME NEW t \in Threads, ReadUnlock(t) PROVE IInv'
    BY <1>5, TakeOneBack DEF ReadUnlock, Counted
  <1>6. ASSUME NEW t \in Threads, WantWrite(t) PROVE IInv'
    BY <1>6, Elsewhere DEF WantWrite, Places
  <1>7. ASSUME NEW t \in Threads, WriteLock(t) PROVE IInv'
    BY <1>7, MarkIn
  <1>8. ASSUME NEW t \in Threads, Leave(t) PROVE IInv'
    BY <1>8, Elsewhere DEF Leave, Places
  <1>9. ASSUME NEW t \in Threads, WriteUnlock(t) PROVE IInv'
    BY <1>9, MarkOut
  <1>10. CASE UNCHANGED vars
    BY <1>10 DEF vars, IInv, TypeOK, Exclusion, Accounting, Counted, Marked,
                 Reading
  <1> QED BY <1>1, <1>2, <1>3, <1>4, <1>5, <1>6, <1>7, <1>8, <1>9, <1>10
          DEF Next, ReaderStep, WriterStep

\* For any finite set of threads smaller than the range of the counter, the
\* inductive invariant holds in every state.
THEOREM LockInvariant == Spec => []IInv
  BY InitInv, StepInv, PTL DEF Spec

\* The counter never leaves its type, the 1s of readers that will back out
\* included.
THEOREM CounterInRange == Spec => []TypeOK
  <1>1. IInv => TypeOK BY DEF IInv
  <1> QED BY <1>1, LockInvariant, PTL

\* Readers and a writer are never inside together, nor two writers.
THEOREM MutualExclusion == Spec => []Exclusion
  <1>1. IInv => Exclusion BY DEF IInv
  <1> QED BY <1>1, LockInvariant, PTL

-----------------------------------------------------------------------------
\* Refinement: which step of the counter is which step of the lock.

LEMMA LockStep ==
  ASSUME IInv, [Next]_vars
  PROVE  [Lock!Next]_<<Reading, Marked>>
  <1> USE DEF Lock!Next, Lock!LockRead, Lock!UnlockRead, Lock!LockWrite,
              Lock!UnlockWrite
  <1>t. pc \in [Threads -> Places] BY DEF IInv, TypeOK
  <1>1. ASSUME NEW t \in Threads, ReadLock(t) \/ TryReadLock(t)
        PROVE  [Lock!Next]_<<Reading, Marked>>
    <2>1. Marked' = Marked BY <1>1, <1>t DEF ReadLock, TryReadLock, Goto, Marked
    <2>2. CASE counter >= 0
      <3>1. Marked = {} BY <2>2, Sign
      <3>2. t \notin Reading /\ Reading' = Reading \cup {t}
        BY <1>1, <1>t, <2>2 DEF ReadLock, TryReadLock, Goto, Reading
      <3>3. Lock!LockRead(t) BY <2>1, <3>1, <3>2
      <3> QED BY <3>3
    <2>3. CASE ~(counter >= 0)
      <3>1. Reading' = Reading
        BY <1>1, <1>t, <2>3 DEF ReadLock, TryReadLock, Goto, Reading
      <3> QED BY <2>1, <3>1
    <2> QED BY <2>2, <2>3
  <1>2. ASSUME NEW t \in Threads,
               BackOut(t) \/ SeeNoWriter(t) \/ WantWrite(t) \/ Leave(t)
        PROVE  [Lock!Next]_<<Reading, Marked>>
    BY <1>2, <1>t DEF BackOut, SeeNoWriter, WantWrite, Leave, Goto, Reading, Marked
  <1>3. ASSUME NEW t \in Threads, ReadUnlock(t)
        PROVE  [Lock!Next]_<<Reading, Marked>>
    <2>1. t \in Reading /\ Reading' = Reading \ {t} /\ Marked' = Marked
      BY <1>3, <1>t DEF ReadUnlock, Goto, Reading, Marked
    <2>2. Lock!UnlockRead(t) BY <2>1
    <2> QED BY <2>2
  <1>4. ASSUME NEW t \in Threads, WriteLock(t)
        PROVE  [Lock!Next]_<<Reading, Marked>>
    <2>1. Lock!LockWrite(t) BY <1>4, MarkIn
    <2> QED BY <2>1
  <1>5. ASSUME NEW t \in Threads, WriteUnlock(t)
        PROVE  [Lock!Next]_<<Reading, Marked>>
    <2>1. Lock!UnlockWrite(t) BY <1>5, MarkOut
    <2> QED BY <2>1
  <1>6. CASE UNCHANGED vars
    BY <1>6 DEF vars, Reading, Marked
  <1> QED BY <1>1, <1>2, <1>3, <1>4, <1>5, <1>6
          DEF Next, ReaderStep, WriterStep

\* The spin lock implements the reader-writer lock.
THEOREM LockRefinement == Spec => ImplementsLock
  <1>1. Init => Lock!Init
    BY DEF Init, Lock!Init, Reading, Marked
  <1>2. IInv /\ [Next]_vars => [Lock!Next]_(Lock!lock)
    BY LockStep DEF Lock!lock
  <1> QED BY <1>1, <1>2, LockInvariant, PTL DEF Spec, ImplementsLock, Lock!Spec
=============================================================================
