------------------------------- MODULE RwLock -------------------------------
(***************************************************************************)
(* What spin_lock_rw_crazy promises the code that uses it                  *)
(* (src/bq_common/platform/thread/spin_lock.h): any number of readers, or  *)
(* one writer.                                                             *)
(***************************************************************************)

CONSTANT Threads

VARIABLES
    readers,    \* the threads that hold the read lock
    writers     \* the threads that hold the write lock: one at most

lock == <<readers, writers>>

Init ==
    /\ readers = {}
    /\ writers = {}

LockRead(t) ==
    /\ writers = {} /\ t \notin readers
    /\ readers' = readers \cup {t}
    /\ UNCHANGED writers

UnlockRead(t) ==
    /\ t \in readers
    /\ readers' = readers \ {t}
    /\ UNCHANGED writers

LockWrite(t) ==
    /\ writers = {} /\ readers = {}
    /\ writers' = {t}
    /\ UNCHANGED readers

UnlockWrite(t) ==
    /\ t \in writers
    /\ writers' = writers \ {t}
    /\ UNCHANGED readers

Next ==
    \E t \in Threads :
        LockRead(t) \/ UnlockRead(t) \/ LockWrite(t) \/ UnlockWrite(t)

Spec == Init /\ [][Next]_lock
=============================================================================
