----------------------------- MODULE MCWaiting -----------------------------
(***************************************************************************)
(* Two places where threads wait for each other, in one run: a behaviour   *)
(* is one of RwSpinLock or one of NodeConsole, and the other rests.  Four  *)
(* threads at the lock are enough for a writer, a reader that waits, one   *)
(* that backs out of a try and a second writer.  Two environments and one  *)
(* native thread are enough for a chunk that is not committed before one   *)
(* that is, and for a note that one environment gets while the other reads.*)
(***************************************************************************)
EXTENDS RwSpinLock, TLC

CONSTANTS
    t1, t2, t3, t4, e1, e2,
    RingRoom, QueueSize, MaxLines, MaxTokens, Ring, None

VARIABLES
    part,
    registered, entries, owner, queue, mutex, place, line, what, primary, ring,
    printed, orphans, shown, clash

MCThreads == {t1, t2, t3, t4}
MCMarkValue == -5

Console == INSTANCE NodeConsole WITH Natives <- {t1}, Envs <- {e1, e2}, pc <- place

ASSUME Console!ConsoleConstants

consoleVars == <<registered, entries, owner, queue, mutex, place, line, what, primary,
                 ring, printed, orphans, shown, clash>>

AtLock    == part = "lock" /\ UNCHANGED <<part, consoleVars>>
AtConsole == part = "console" /\ UNCHANGED <<part, vars>>

MCInit == Init /\ Console!Init /\ part \in {"lock", "console"}

\* One disjunct for each action, so that TLC counts each.
MCNext ==
    \/ (\E t \in Threads : ReadLock(t)) /\ AtLock
    \/ (\E t \in Threads : TryReadLock(t)) /\ AtLock
    \/ (\E t \in Threads : BackOut(t)) /\ AtLock
    \/ (\E t \in Threads : SeeNoWriter(t)) /\ AtLock
    \/ (\E t \in Threads : ReadUnlock(t)) /\ AtLock
    \/ (\E t \in Threads : WantWrite(t)) /\ AtLock
    \/ (\E t \in Threads : WriteLock(t)) /\ AtLock
    \/ (\E t \in Threads : Leave(t)) /\ AtLock
    \/ (\E t \in Threads : WriteUnlock(t)) /\ AtLock
    \/ (\E t \in Console!Callers : Console!BeginLine(t)) /\ AtConsole
    \/ (\E t \in Console!Callers : Console!Alloc(t)) /\ AtConsole
    \/ (\E t \in Console!Callers : Console!Commit(t)) /\ AtConsole
    \/ (\E t \in Console!Callers : Console!Invoke(t)) /\ AtConsole
    \/ (\E t \in Console!Callers : Console!Post(t)) /\ AtConsole
    \/ (\E e \in {e1, e2} : Console!Receive(e)) /\ AtConsole
    \/ (\E e \in {e1, e2} : Console!Handle(e)) /\ AtConsole
    \/ (\E e \in {e1, e2} : Console!Finish(e)) /\ AtConsole
    \/ (\E e \in {e1, e2} : Console!CallRegister(e)) /\ AtConsole
    \/ (\E e \in {e1, e2} : Console!Register(e)) /\ AtConsole
    \/ (\E e \in {e1, e2} : Console!Enable(e)) /\ AtConsole
    \/ (\E e \in {e1, e2} : Console!Unregister(e)) /\ AtConsole
    \/ (\E e \in {e1, e2} : Console!CallEnd(e)) /\ AtConsole
    \/ (\E e \in {e1, e2} : Console!End(e)) /\ AtConsole

MCSpec == /\ MCInit /\ [][MCNext]_<<vars, consoleVars, part>>
          /\ Fairness /\ Console!Fairness

\* Each chunk for the console has its note, and no line is shown twice: see
\* NodeConsole.
NotesMatchChunks == Console!NotesMatchChunks

\* Who prints a line comes back and the line is shown, with the exceptions that
\* NodeConsole names.
LinesAreShown == Console!LinesAreShown
=============================================================================
