----------------------------- MODULE LogManager -----------------------------
(***************************************************************************)
(* log_manager, its workers and the calls that meet in it: creating and    *)
(* resetting logs, logging, force_flush, uninit, and the watch dog that    *)
(* replaces a worker thread which somebody else has killed.                *)
(*                                                                         *)
(* A log's buffer is what LogBuffer promises: chunks are reserved, filled  *)
(* and committed, a chunk that is reserved hides those behind it, and one  *)
(* answer "empty" in a row may be wrong.  The reader-writer lock           *)
(* logs_lock_ is RwLock; who holds it, uninit_lock_ and the spin_lock_ of  *)
(* a log follows from where the actors stand.                              *)
(***************************************************************************)
EXTENDS Naturals, Sequences, FiniteSets, SequencesExt

CONSTANTS
    Callers,    \* threads that call the API
    Logs,
    Mode,       \* each log's thread_mode: "sync", "async" or "independent"
    Blocking,   \* the logs with buffer_policy_when_full = block
    Room,       \* the capacity of a buffer, in chunks
    Pub,        \* the public worker
    Created,    \* the logs that exist before
    MaxCalls,   \* how many calls there are
    MaxKills    \* how many worker threads are killed from outside

Independent == {l \in Logs : Mode[l] = "independent"}
Buffered    == {l \in Logs : Mode[l] # "sync"}
Workers     == {Pub} \cup Independent   \* an independent log's worker has its name
Actors      == Callers \cup Workers
Serves(w)   == IF w = Pub THEN {l \in Logs : Mode[l] = "async"} ELSE {w}

ASSUME ManagerAssumption ==
    /\ Mode \in [Logs -> {"sync", "async", "independent"}]
    /\ Blocking \subseteq Logs
    /\ Room \in Nat \ {0} /\ MaxCalls \in Nat /\ MaxKills \in Nat
    /\ Pub \notin Callers \cup Logs
    /\ Callers \cap Logs = {}
    /\ Created \in Seq(Logs) /\ IsInjective(Created)

VARIABLES
    phase,      \* log_manager::phase_
    list,       \* log_imp_list_
    pc,         \* where each actor stands
    todo,       \* the logs an actor has still to go through
    worked,     \* did_work of a worker
    cancelled,  \* status_ = pendding_cancel
    buf,        \* per log: who reserved, and whether it is committed
    filed,      \* per log: how many entries the appenders were given
    written,    \* per log: how many of them are out of the write caches
    due,        \* per log: flush_io_min_interval_ms has passed
    late,       \* per log: its last answer "empty" was wrong
    owed,       \* per caller that flushes: what was committed as it called
    calls, kills,
    closed      \* some uninit has returned

vars == <<phase, list, pc, todo, worked, cancelled, buf, filed, written, due,
          late, owed, calls, kills, closed>>
logVars  == <<buf, filed, written, due, late>>
history  == <<owed, calls, kills, closed>>

CallerPlaces == {"idle", "create", "reset", "reserve", "fill", "sync", "logging", "flush",
                 "flushing", "uninit", "close", "join_pub", "join_ind"}
WorkerPlaces == {"none", "top", "reading", "nap", "dying", "watch", "gone"}

TypeOK ==
    /\ phase \in {"working", "uninitialized"}
    /\ list \in Seq(Logs)
    /\ pc \in [Actors -> CallerPlaces \cup WorkerPlaces]
    /\ \A a \in Actors : pc[a] \in IF a \in Callers THEN CallerPlaces ELSE WorkerPlaces
    /\ todo \in [Actors -> Seq(Logs)]
    /\ worked \in [Workers -> BOOLEAN] /\ cancelled \in [Workers -> BOOLEAN]
    /\ closed \in BOOLEAN

Init ==
    /\ phase = "working"
    /\ list = Created
    /\ pc = [a \in Actors |-> IF a \in Callers THEN "idle"
                            ELSE IF a \in {Pub} \cup ToSet(Created) THEN "top" ELSE "none"]
    /\ todo = [a \in Actors |-> <<>>]
    /\ worked = [w \in Workers |-> FALSE]
    /\ cancelled = [w \in Workers |-> FALSE]
    /\ buf = [l \in Logs |-> <<>>]
    /\ filed = [l \in Logs |-> 0]
    /\ written = [l \in Logs |-> 0]
    /\ due = [l \in Logs |-> FALSE]
    /\ late = [l \in Logs |-> FALSE]
    /\ owed = [c \in Callers |-> [l \in Logs |-> 0]]
    /\ calls = 0
    /\ kills = 0
    /\ closed = FALSE

------------------------------------------------------------------------------
(* The locks. *)

At(a, p)    == pc' = [pc EXCEPT ![a] = p]
HoldsRead   == {a \in Actors : pc[a] \in {"reading", "close", "join_pub", "join_ind"}}
HoldsWrite  == {a \in Actors : pc[a] \in {"reset", "flushing"}}
CanRead     == HoldsWrite = {}

(* Mutant: the write lock does not wait for those that read.               *)
CanWriteAmongReaders == HoldsWrite = {}

CanWrite    == HoldsWrite = {} /\ HoldsRead = {}
Closing     == {a \in Actors : pc[a] \in {"join_pub", "join_ind"}}   \* holds uninit_lock_
InSpin(l)   == {c \in Callers : pc[c] \in {"logging", "reset"} /\ todo[c] = <<l>>}

(* A loop over the list that passes over what is not in S goes on here.    *)
Onward(s, S) ==
    {SubSeq(s, n, Len(s)) :
        n \in {k \in 1..(Len(s) + 1) : /\ k <= Len(s) => s[k] \in S
                                      /\ \A i \in 1..(k - 1) : s[i] \notin S}}

------------------------------------------------------------------------------
(* The buffer and the appenders of a log. *)

(* A chunk that is reserved hides those behind it.                         *)
Ready(b)     == {n \in DOMAIN b : \A i \in 1..n : b[i].committed}
Committed(l) == Cardinality(Ready(buf[l]))

(* read_chunk succeeds and process_log_chunk hands the entry out.          *)
TakeEntry(l) ==
    /\ Committed(l) > 0
    /\ buf' = [buf EXCEPT ![l] = Tail(@)]
    /\ filed' = [filed EXCEPT ![l] = @ + 1]
    /\ late' = [late EXCEPT ![l] = FALSE]
    /\ UNCHANGED <<written, due>>

(* Mutant: the caches are only written if the interval has passed.         *)
FoundEmptyUnforced(l, force) ==
    /\ Committed(l) > 0 => ~late[l]
    /\ late' = [late EXCEPT ![l] = Committed(l) > 0]
    /\ written' = [written EXCEPT ![l] = IF due[l] THEN filed[l] ELSE @]
    /\ due' = [due EXCEPT ![l] = FALSE]
    /\ UNCHANGED <<buf, filed>>

(* read_chunk answers "empty", which ends log_imp::process: the caches are *)
(* written if that is forced or the interval has passed.                   *)
FoundEmpty(l, force) ==
    /\ Committed(l) > 0 => ~late[l]
    /\ late' = [late EXCEPT ![l] = Committed(l) > 0]
    /\ written' = [written EXCEPT ![l] = IF force \/ due[l] THEN filed[l] ELSE @]
    /\ due' = [due EXCEPT ![l] = FALSE]
    /\ UNCHANGED <<buf, filed>>

IntervalPasses(l) ==
    /\ ~due[l] /\ written[l] < filed[l]
    /\ due' = [due EXCEPT ![l] = TRUE]
    /\ UNCHANGED <<phase, list, pc, todo, worked, cancelled, buf, filed, written, late, history>>

------------------------------------------------------------------------------
(* Calls of the API. *)

Call(c, p, ls) ==
    /\ pc[c] = "idle" /\ calls < MaxCalls
    /\ calls' = calls + 1
    /\ At(c, p)
    /\ todo' = [todo EXCEPT ![c] = ls]
    /\ UNCHANGED <<phase, list, worked, cancelled, logVars, kills, closed>>

CallCreate(c, l) == Call(c, "create", <<l>>) /\ UNCHANGED owed

CallLog(c, l) ==
    /\ l \in ToSet(list)
    /\ Call(c, IF Mode[l] = "sync" THEN "sync" ELSE "reserve", <<l>>)
    /\ UNCHANGED owed

CallFlush(c, l) ==
    /\ l \in ToSet(list) \cap Buffered
    /\ Call(c, "flush", <<l>>)
    /\ owed' = [owed EXCEPT ![c] = [k \in Logs |-> IF k = l THEN filed[k] + Committed(k) ELSE 0]]

(* force_flush_all: which logs there are is asked under the lock.          *)
CallFlushAll(c) ==
    /\ Call(c, "flush", <<>>)
    /\ owed' = [owed EXCEPT ![c] = [k \in Logs |-> filed[k] + Committed(k)]]

CallUninit(c) == Call(c, "uninit", <<>>) /\ UNCHANGED owed

Return(c) == At(c, "idle") /\ todo' = [todo EXCEPT ![c] = <<>>]

(* Mutant: create_log does not ask for the phase.                          *)
CreateAlways(c) ==
    LET l == todo[c][1] IN
    /\ pc[c] = "create" /\ CanWrite
    /\ \/ /\ l \notin ToSet(list)
          /\ list' = Append(list, l)
          /\ pc' = [a \in Actors |-> CASE a = c -> "idle"
                                       [] a = l /\ l \in Independent -> "top"
                                       [] OTHER -> pc[a]]
          /\ todo' = [todo EXCEPT ![c] = <<>>]
       \/ /\ l \in ToSet(list)
          /\ InSpin(l) = {}
          /\ At(c, "reset") /\ UNCHANGED <<list, todo>>
    /\ UNCHANGED <<phase, worked, cancelled, logVars, history>>

(* create_log under the write lock: a name that exists is reset, under the *)
(* spin_lock_ of the log too; an independent log starts its worker.        *)
Create(c) ==
    LET l == todo[c][1] IN
    /\ pc[c] = "create" /\ CanWrite
    /\ \/ /\ phase # "working"
          /\ Return(c) /\ UNCHANGED list
       \/ /\ phase = "working" /\ l \notin ToSet(list)
          /\ list' = Append(list, l)
          /\ pc' = [a \in Actors |-> CASE a = c -> "idle"
                                       [] a = l /\ l \in Independent -> "top"
                                       [] OTHER -> pc[a]]
          /\ todo' = [todo EXCEPT ![c] = <<>>]
       \/ /\ phase = "working" /\ l \in ToSet(list)
          /\ InSpin(l) = {}
          /\ At(c, "reset") /\ UNCHANGED <<list, todo>>
    /\ UNCHANGED <<phase, worked, cancelled, logVars, history>>

(* What is in the caches is written before the appenders are replaced.     *)
Reset(c) ==
    LET l == todo[c][1] IN
    /\ pc[c] = "reset"
    /\ written' = [written EXCEPT ![l] = filed[l]]
    /\ Return(c)
    /\ UNCHANGED <<phase, list, worked, cancelled, buf, filed, due, late, history>>

(* __api_log_write_begin: with a full buffer the call fails, or wakes the  *)
(* worker and tries again for as long as it takes.                         *)
Reserve(c) ==
    LET l == todo[c][1] IN
    /\ pc[c] = "reserve"
    /\ \/ /\ Len(buf[l]) < Room
          /\ buf' = [buf EXCEPT ![l] = Append(@, [by |-> c, committed |-> FALSE])]
          /\ At(c, "fill") /\ UNCHANGED todo
       \/ /\ Len(buf[l]) = Room /\ l \notin Blocking
          /\ Return(c) /\ UNCHANGED buf
    /\ UNCHANGED <<phase, list, worked, cancelled, filed, written, due, late, history>>

(* __api_log_write_finish.                                                 *)
Commit(c) ==
    LET l == todo[c][1] IN
    /\ pc[c] = "fill"
    /\ buf' = [buf EXCEPT ![l] = [i \in DOMAIN @ |->
                  IF @[i].by = c THEN [@[i] EXCEPT !.committed = TRUE] ELSE @[i]]]
    /\ Return(c)
    /\ UNCHANGED <<phase, list, worked, cancelled, filed, written, due, late, history>>

(* sync_process: the logging thread is the one that writes.                *)
SyncLock(c) ==
    /\ pc[c] = "sync" /\ InSpin(todo[c][1]) = {}
    /\ At(c, "logging")
    /\ UNCHANGED <<phase, list, todo, worked, cancelled, logVars, history>>

SyncProcess(c) ==
    LET l == todo[c][1] IN
    /\ pc[c] = "logging"
    /\ filed' = [filed EXCEPT ![l] = @ + 1]
    /\ written' = [written EXCEPT ![l] = filed[l] + 1]
    /\ Return(c)
    /\ UNCHANGED <<phase, list, worked, cancelled, buf, due, late, history>>

(* force_flush, force_flush_all.                                           *)
FlushLock(c) ==
    /\ pc[c] = "flush" /\ CanWrite
    /\ At(c, "flushing")
    /\ \E s \in Onward(IF todo[c] # <<>> THEN todo[c] ELSE list, Buffered) :
          todo' = [todo EXCEPT ![c] = s]
    /\ UNCHANGED <<phase, list, worked, cancelled, logVars, history>>

FlushTake(c) ==
    /\ pc[c] = "flushing" /\ todo[c] # <<>>
    /\ TakeEntry(todo[c][1])
    /\ UNCHANGED <<phase, list, pc, todo, worked, cancelled, history>>

FlushNext(c) ==
    /\ pc[c] = "flushing" /\ todo[c] # <<>>
    /\ FoundEmpty(todo[c][1], TRUE)
    /\ \E s \in Onward(Tail(todo[c]), Buffered) : todo' = [todo EXCEPT ![c] = s]
    /\ UNCHANGED <<phase, list, pc, worked, cancelled, history>>

FlushReturn(c) ==
    /\ pc[c] = "flushing" /\ todo[c] = <<>>
    /\ Return(c)
    /\ owed' = [owed EXCEPT ![c] = [l \in Logs |-> 0]]
    /\ UNCHANGED <<phase, list, worked, cancelled, logVars, calls, kills, closed>>

(* uninit takes logs_lock_ for reading, then uninit_lock_, changes the     *)
(* phase, cancels and joins the public worker, then the others.            *)
UninitRead(c) ==
    /\ pc[c] = "uninit" /\ CanRead
    /\ At(c, "close")
    /\ UNCHANGED <<phase, list, todo, worked, cancelled, logVars, history>>

(* Mutant: the public worker is joined and not cancelled before.           *)
UninitPhaseWithoutCancel(c) ==
    /\ pc[c] = "close" /\ Closing = {}
    /\ \/ /\ phase = "working"
          /\ phase' = "uninitialized"
          /\ At(c, "join_pub") /\ UNCHANGED <<todo, closed>>
       \/ /\ phase # "working"
          /\ Return(c) /\ closed' = TRUE /\ UNCHANGED phase
    /\ UNCHANGED <<list, worked, cancelled, logVars, owed, calls, kills>>

UninitPhase(c) ==
    /\ pc[c] = "close" /\ Closing = {}
    /\ \/ /\ phase = "working"
          /\ phase' = "uninitialized"
          /\ cancelled' = [cancelled EXCEPT ![Pub] = TRUE]
          /\ At(c, "join_pub") /\ UNCHANGED <<todo, closed>>
       \/ /\ phase # "working"
          /\ Return(c) /\ closed' = TRUE /\ UNCHANGED <<phase, cancelled>>
    /\ UNCHANGED <<list, worked, logVars, owed, calls, kills>>

JoinPublic(c) ==
    /\ pc[c] = "join_pub" /\ pc[Pub] = "gone"
    /\ cancelled' = [w \in Workers |-> cancelled[w] \/ w \in ToSet(list)]
    /\ At(c, "join_ind")
    /\ UNCHANGED <<phase, list, todo, worked, logVars, history>>

JoinIndependent(c) ==
    /\ pc[c] = "join_ind"
    /\ \A w \in Independent \cap ToSet(list) : pc[w] = "gone"
    /\ Return(c) /\ closed' = TRUE
    /\ UNCHANGED <<phase, list, worked, cancelled, logVars, owed, calls, kills>>

------------------------------------------------------------------------------
(* The worker threads. *)

(* process_by_worker, behind the read lock.                                *)
ProcessBegin(w) ==
    /\ pc[w] = "top" /\ CanRead
    /\ \E s \in Onward(IF phase # "working" THEN <<>> ELSE IF w = Pub THEN list ELSE <<w>>,
                       Serves(w)) :
          todo' = [todo EXCEPT ![w] = s]
    /\ At(w, "reading")
    /\ UNCHANGED <<phase, list, worked, cancelled, logVars, history>>

WorkerTake(w) ==
    /\ pc[w] = "reading" /\ todo[w] # <<>>
    /\ TakeEntry(todo[w][1])
    /\ worked' = [worked EXCEPT ![w] = TRUE]
    /\ UNCHANGED <<phase, list, pc, todo, cancelled, history>>

WorkerNext(w) ==
    /\ pc[w] = "reading" /\ todo[w] # <<>>
    /\ FoundEmpty(todo[w][1], FALSE)
    /\ \E s \in Onward(Tail(todo[w]), Serves(w)) : todo' = [todo EXCEPT ![w] = s]
    /\ UNCHANGED <<phase, list, pc, worked, cancelled, history>>

ProcessEnd(w) ==
    /\ pc[w] = "reading" /\ todo[w] = <<>>
    /\ At(w, IF cancelled[w] THEN "dying" ELSE IF worked[w] THEN "top" ELSE "nap")
    /\ worked' = [worked EXCEPT ![w] = FALSE]
    /\ UNCHANGED <<phase, list, todo, cancelled, logVars, history>>

(* The wait ends after 66 ms at the latest; awake() only shortens it.      *)
Wake(w) ==
    /\ pc[w] = "nap"
    /\ At(w, "top")
    /\ UNCHANGED <<phase, list, todo, worked, cancelled, logVars, history>>

(* Something outside ends the thread; the locks it holds are released as   *)
(* its stack is unwound.                                                   *)
Killed(w) ==
    /\ pc[w] \in {"top", "reading", "nap"} /\ kills < MaxKills
    /\ kills' = kills + 1
    /\ At(w, "dying")
    /\ todo' = [todo EXCEPT ![w] = <<>>]
    /\ worked' = [worked EXCEPT ![w] = FALSE]
    /\ UNCHANGED <<phase, list, cancelled, logVars, owed, calls, closed>>

(* The watch dog, a thread-local object, is destroyed with every worker    *)
(* thread: try_restart_worker looks at the phase before and behind         *)
(* uninit_lock_.                                                           *)
WatchDog(w) ==
    /\ pc[w] = "dying"
    /\ At(w, IF phase = "working" THEN "watch" ELSE "gone")
    /\ UNCHANGED <<phase, list, todo, worked, cancelled, logVars, history>>

(* Mutant: a worker that was killed stays away.                            *)
RestartNever(w) ==
    /\ pc[w] = "watch" /\ Closing = {}
    /\ At(w, "gone") /\ UNCHANGED cancelled
    /\ UNCHANGED <<phase, list, todo, worked, logVars, history>>

Restart(w) ==
    /\ pc[w] = "watch" /\ Closing = {}
    /\ IF phase = "working"
       THEN At(w, "top") /\ cancelled' = [cancelled EXCEPT ![w] = FALSE]
       ELSE At(w, "gone") /\ UNCHANGED cancelled
    /\ UNCHANGED <<phase, list, todo, worked, logVars, history>>

------------------------------------------------------------------------------
StartCall(c) ==
    \/ \E l \in Logs : CallCreate(c, l) \/ CallLog(c, l) \/ CallFlush(c, l)
    \/ CallFlushAll(c) \/ CallUninit(c)

CallerStep(c) ==
    \/ Create(c) \/ Reset(c) \/ Reserve(c) \/ Commit(c) \/ SyncLock(c) \/ SyncProcess(c)
    \/ FlushLock(c) \/ FlushTake(c) \/ FlushNext(c) \/ FlushReturn(c)
    \/ UninitRead(c) \/ UninitPhase(c) \/ JoinPublic(c) \/ JoinIndependent(c)

WorkerStep(w) ==
    ProcessBegin(w) \/ WorkerTake(w) \/ WorkerNext(w) \/ ProcessEnd(w) \/ Wake(w)
    \/ WatchDog(w) \/ Restart(w)

Next ==
    \/ \E c \in Callers : StartCall(c) \/ CallerStep(c)
    \/ \E w \in Workers : WorkerStep(w) \/ Killed(w)
    \/ \E l \in Logs : IntervalPasses(l)

(* A thread inside a call goes on, a worker comes round, time passes.      *)
Fairness ==
    /\ \A c \in Callers : WF_vars(CallerStep(c))
    /\ \A w \in Workers : WF_vars(WorkerStep(w))
    /\ \A l \in Logs : WF_vars(IntervalPasses(l))

Spec == Init /\ [][Next]_vars /\ Fairness

------------------------------------------------------------------------------
(* Appenders, caches and the reading side of a buffer have no lock of      *)
(* their own: whoever works on a log's, a worker, a thread that flushes,   *)
(* resets or logs in sync mode, is alone there.                            *)
InAppenders(l) ==
    {a \in Actors : /\ pc[a] \in {"reading", "flushing", "logging", "reset"}
                    /\ todo[a] # <<>> /\ Head(todo[a]) = l}
AppendersOwned == \A l \in Logs : \A a, b \in InAppenders(l) : a = b

(* When uninit has returned to anybody, no worker thread is alive or will  *)
(* be: the log manager may be destroyed.                                   *)
NoWorkerAfterUninit == closed => \A w \in Workers : pc[w] \in {"none", "gone"}

(* When force_flush returns, all that was committed as it was called has   *)
(* been handed to the appenders, by it or by a worker it waited for, and   *)
(* is written.  Excepted is what was behind a chunk somebody had not       *)
(* committed, and the one wrong "empty" the buffer may give.               *)
FlushKeepsItsWord ==
    [][\A c \in Callers : FlushReturn(c) =>
          \A l \in Buffered : owed[c][l] > written[l] => late[l]]_vars

(* uninit returns, but for one case: a worker was killed, its watch dog    *)
(* has looked at the phase and waits for uninit_lock_, which uninit holds  *)
(* while it waits for that thread to end.                                  *)
UninitReturns ==
    \A c \in Callers :
        pc[c] = "join_pub" ~> \/ pc[c] = "idle"
                              \/ \E w \in Workers : pc[w] = "watch"

(* Whatever is committed is written to the files within bounded time,      *)
(* however often the worker is killed, until uninit.                       *)
EverythingIsWritten ==
    \A l \in Logs :
        filed[l] + Committed(l) > written[l]
            ~> (written[l] = filed[l] /\ Committed(l) = 0) \/ phase # "working"

(* A thread that waits for room gets in, until uninit: then it waits       *)
(* forever.                                                                *)
BlockedGetsIn ==
    \A c \in Callers : pc[c] = "reserve" ~> pc[c] # "reserve" \/ phase # "working"

(* Nothing that was begun waits for ever: while the manager works entries  *)
(* reach the files and a thread behind a full buffer gets in, and its end  *)
(* comes to an end.                                                        *)
NothingWaitsForEver == EverythingIsWritten /\ BlockedGetsIn /\ UninitReturns
=============================================================================
