---------------------------- MODULE NodeConsole ----------------------------
(***************************************************************************)
(* How a line for the console reaches the callback of a Node.js program:   *)
(* the console appender calls on_console_callback in whatever thread it    *)
(* works, which puts the line into a ring, and a note that there is one    *)
(* into the queue of the environment that registered first; the thread of  *)
(* that environment reads the ring, one chunk for each note.  A line that  *)
(* the ring has no room for is carried by its note.                        *)
(*                                                                         *)
(* The ring is what MisoRing promises: chunks come out in the order of     *)
(* their reservation, and one that is not committed hides those behind it. *)
(* The queue is a thread-safe function of Node.js with blocking calls.     *)
(* A JavaScript callback is taken to print nothing itself.                 *)
(***************************************************************************)
EXTENDS Naturals, Sequences, FiniteSets, SequencesExt

CONSTANTS
    Natives,    \* threads of the program that are not JavaScript threads
    Envs,       \* JavaScript environments, each with its thread
    RingRoom,   \* chunks in console_msg_buffer_
    QueueSize,  \* max_queue_size of a queue, 1024 in the code
    MaxLines, MaxTokens,    \* bounds: lines printed, callbacks registered
    Ring, None

\* What the constants must be.
ConsoleConstants ==
    /\ Natives \cap Envs = {}
    /\ RingRoom \in Nat \ {0} /\ QueueSize \in Nat \ {0}
    /\ MaxLines \in Nat /\ MaxTokens \in Nat
    /\ Ring \notin 1..MaxLines /\ None \notin Natives \cup Envs

VARIABLES
    registered, \* console_callback_ is on_console_callback
    entries,    \* entries_, by their tokens
    owner,      \* the environment each token was made for
    ring,       \* console_msg_buffer_: [line, committed]
    queue,      \* of each token: notes, each Ring or a line
    mutex,      \* who holds napi_env_mutex_
    pc,
    line,       \* the line each thread prints or reads
    what,       \* its note
    primary,    \* the entry it posts to
    printed,
    orphans,    \* chunks for which there is no note any more
    shown,      \* how often each line was given to a callback
    clash       \* two environments have read the ring at the same time

vars == <<registered, entries, owner, queue, mutex, pc, line, what, primary, ring,
          printed, orphans, shown, clash>>
registry == <<registered, entries, owner>>
history  == <<printed, shown, clash>>

Callers == Natives \cup Envs
Lines   == 1..MaxLines
Tokens  == 1..MaxTokens
Note    == Lines \cup {Ring}
InApi   == {"call", "fill", "invoke", "post", "register", "enable", "ending"}

TypeOK ==
    /\ registered \in BOOLEAN /\ clash \in BOOLEAN
    /\ entries \in Seq(Tokens) /\ owner \in [Tokens -> Envs \cup {None}]
    /\ ring \in Seq([line : Lines, committed : BOOLEAN])
    /\ queue \in [Tokens -> Seq(Note)]
    /\ mutex \in Callers \cup {None}
    /\ pc \in [Callers -> InApi \cup {"idle", "handle", "calling", "gone"}]
    /\ line \in [Callers -> 0..MaxLines] /\ what \in [Callers -> Note]
    /\ primary \in [Callers -> 0..MaxTokens]
    /\ printed \in 0..MaxLines /\ orphans \in Nat /\ shown \in [Lines -> Nat]

Init ==
    /\ registered = FALSE /\ entries = <<>> /\ owner = [k \in Tokens |-> None]
    /\ ring = <<>>
    /\ queue = [k \in Tokens |-> <<>>]
    /\ mutex = None
    /\ pc = [t \in Callers |-> "idle"]
    /\ line = [t \in Callers |-> 0]
    /\ what = [t \in Callers |-> Ring]
    /\ primary = [t \in Callers |-> 0]
    /\ printed = 0 /\ orphans = 0
    /\ shown = [l \in Lines |-> 0]
    /\ clash = FALSE

At(t, p) == pc' = [pc EXCEPT ![t] = p]
Has(e)   == \E i \in DOMAIN entries : owner[entries[i]] = e
Others(e) == SelectSeq(entries, LAMBDA k : owner[k] # e)
Lost(w)  == IF w = Ring THEN 1 ELSE 0   \* a note that goes leaves its chunk
Done(t) ==      \* the call returns, and its variables are gone
    /\ At(t, "idle")
    /\ line' = [line EXCEPT ![t] = 0]
    /\ what' = [what EXCEPT ![t] = Ring]
    /\ primary' = [primary EXCEPT ![t] = 0]
Unlock(t) == mutex' = IF mutex = t THEN None ELSE mutex

------------------------------------------------------------------------------
(* A thread prints. *)

\* The dispatcher of the appender sees that there is a callback.
BeginLine(t) ==
    /\ pc[t] = "idle" /\ registered /\ printed < MaxLines
    /\ printed' = printed + 1
    /\ line' = [line EXCEPT ![t] = printed + 1]
    /\ At(t, "call")
    /\ UNCHANGED <<registry, ring, queue, mutex, what, primary, orphans, shown, clash>>

\* Mutant: the note speaks of the ring, whether the line is there or not.
AllocAlwaysRing(t) ==
    /\ pc[t] = "call"
    /\ what' = [what EXCEPT ![t] = Ring]
    /\ \/ /\ Len(ring) < RingRoom
          /\ ring' = Append(ring, [line |-> line[t], committed |-> FALSE])
          /\ At(t, "fill")
       \/ At(t, "invoke") /\ UNCHANGED ring
    /\ UNCHANGED <<registry, queue, mutex, line, primary, orphans, history>>

\* on_console_callback, whatever has become of the callback since: a line the
\* ring has no room for, or that is longer than the ring, is allocated.
Alloc(t) ==
    /\ pc[t] = "call"
    /\ \/ /\ Len(ring) < RingRoom
          /\ ring' = Append(ring, [line |-> line[t], committed |-> FALSE])
          /\ what' = [what EXCEPT ![t] = Ring]
          /\ At(t, "fill")
       \/ /\ what' = [what EXCEPT ![t] = line[t]]
          /\ At(t, "invoke") /\ UNCHANGED ring
    /\ UNCHANGED <<registry, queue, mutex, line, primary, orphans, history>>

Commit(t) ==
    /\ pc[t] = "fill"
    /\ ring' = [i \in DOMAIN ring |-> IF ring[i].line = line[t]
                                      THEN [ring[i] EXCEPT !.committed = TRUE] ELSE ring[i]]
    /\ At(t, "invoke")
    /\ UNCHANGED <<registry, queue, mutex, line, what, primary, orphans, history>>

\* Mutant: the early return forgets the mutex.
InvokeKeepsMutex(t) ==
    /\ pc[t] = "invoke" /\ mutex = None
    /\ mutex' = t
    /\ \/ /\ entries = <<>>
          /\ orphans' = orphans + Lost(what[t])
          /\ Done(t)
       \/ /\ Has(t)
          /\ At(t, "handle") /\ UNCHANGED <<orphans, line, what, primary>>
       \/ /\ entries # <<>> /\ ~Has(t)
          /\ primary' = [primary EXCEPT ![t] = entries[1]]
          /\ At(t, "post") /\ UNCHANGED <<orphans, line, what>>
    /\ UNCHANGED <<registry, ring, queue, history>>

\* invoke under the mutex.  Nobody has registered: the note is dropped.  A
\* thread of an environment that has, handles it at once.  Otherwise it goes
\* to the environment that registered first.
Invoke(t) ==
    /\ pc[t] = "invoke" /\ mutex = None
    /\ \/ /\ entries = <<>>
          /\ orphans' = orphans + Lost(what[t])
          /\ Done(t) /\ UNCHANGED mutex
       \/ /\ Has(t)
          /\ mutex' = t
          /\ At(t, "handle") /\ UNCHANGED <<orphans, line, what, primary>>
       \/ /\ entries # <<>> /\ ~Has(t)
          /\ mutex' = t
          /\ primary' = [primary EXCEPT ![t] = entries[1]]
          /\ At(t, "post") /\ UNCHANGED <<orphans, line, what>>
    /\ UNCHANGED <<registry, ring, queue, history>>

\* The call blocks while the queue is full, with the mutex; it fails when the
\* environment has ended.
Post(t) ==
    LET k == primary[t] IN
    /\ pc[t] = "post"
    /\ \/ /\ pc[owner[k]] # "gone" /\ Len(queue[k]) < QueueSize
          /\ queue' = [queue EXCEPT ![k] = Append(@, what[t])]
          /\ UNCHANGED orphans
       \/ /\ pc[owner[k]] = "gone"
          /\ orphans' = orphans + Lost(what[t]) /\ UNCHANGED queue
    /\ Unlock(t) /\ Done(t)
    /\ UNCHANGED <<registry, ring, history>>

------------------------------------------------------------------------------
(* The thread of an environment. *)

\* The event loop takes a note: it is void if the callback it was meant for
\* is not registered any more.
Receive(e) ==
    \E k \in Tokens :
    /\ pc[e] = "idle" /\ owner[k] = e /\ queue[k] # <<>>
    /\ queue' = [queue EXCEPT ![k] = Tail(@)]
    /\ \/ /\ k \in Range(entries)
          /\ what' = [what EXCEPT ![e] = Head(queue[k])]
          /\ At(e, "handle") /\ UNCHANGED orphans
       \/ /\ k \notin Range(entries)
          /\ orphans' = orphans + Lost(Head(queue[k])) /\ UNCHANGED <<what, pc>>
    /\ UNCHANGED <<registry, ring, mutex, line, primary, history>>

ReadsRing(e) == pc[e] = "calling" /\ what[e] = Ring

\* console_callback_handler reads the ring, or has the line.  If the first
\* chunk is not committed, the code asserts that it is; without assertions it
\* goes on with an address that has not been set: it calls with something that
\* is no line (0), or not at all.
Handle(e) ==
    LET committed == ring # <<>> /\ ring[1].committed IN
    /\ pc[e] = "handle"
    /\ \/ /\ what[e] = Ring /\ committed
          /\ line' = [line EXCEPT ![e] = ring[1].line]
          /\ clash' = (clash \/ \E d \in Envs : ReadsRing(d))
          /\ At(e, "calling") /\ UNCHANGED <<mutex, what, primary, orphans>>
       \/ /\ what[e] = Ring /\ ~committed
          /\ orphans' = orphans + 1
          /\ Unlock(e) /\ Done(e) /\ UNCHANGED clash
       \/ /\ what[e] = Ring /\ ~committed
          /\ line' = [line EXCEPT ![e] = 0]
          /\ At(e, "calling") /\ UNCHANGED <<mutex, what, primary, orphans, clash>>
       \/ /\ what[e] # Ring
          /\ line' = [line EXCEPT ![e] = what[e]]
          /\ At(e, "calling") /\ UNCHANGED <<mutex, what, primary, orphans, clash>>
    /\ UNCHANGED <<registry, ring, queue, printed, shown>>

\* The callback has run, and a chunk that was read is returned.
Finish(e) ==
    /\ pc[e] = "calling"
    /\ IF line[e] = 0
       THEN orphans' = orphans + 1 /\ UNCHANGED <<ring, shown>>
       ELSE /\ shown' = [shown EXCEPT ![line[e]] = @ + 1]
            /\ ring' = IF what[e] = Ring /\ ring # <<>> THEN Tail(ring) ELSE ring
            /\ UNCHANGED orphans
    /\ Unlock(e) /\ Done(e)
    /\ UNCHANGED <<registry, queue, printed, clash>>

\* set_console_callback with a function, which replaces the one there was.
CallRegister(e) ==
    /\ pc[e] = "idle"
    /\ Cardinality({k \in Tokens : owner[k] = None}) > Cardinality({d \in Envs : pc[d] = "register"})
    /\ At(e, "register")
    /\ UNCHANGED <<registry, ring, queue, mutex, line, what, primary, orphans, history>>

Register(e) ==
    /\ pc[e] = "register" /\ mutex = None
    /\ \E k \in Tokens : /\ owner[k] = None /\ \A j \in 1..(k - 1) : owner[j] # None
                         /\ owner' = [owner EXCEPT ![k] = e]
                         /\ entries' = Append(Others(e), k)
    /\ At(e, "enable")
    /\ UNCHANGED <<registered, ring, queue, mutex, line, what, primary, orphans, history>>

Enable(e) ==
    /\ pc[e] = "enable"
    /\ registered' = TRUE
    /\ At(e, "idle")
    /\ UNCHANGED <<entries, owner, ring, queue, mutex, line, what, primary, orphans, history>>

\* set_console_callback without one: without the mutex, and for all
\* environments.
Unregister(e) ==
    /\ pc[e] = "idle"
    /\ entries' = Others(e)
    /\ registered' = FALSE
    /\ UNCHANGED <<owner, ring, queue, mutex, pc, line, what, primary, orphans, history>>

\* The notes in the queues that speak of the ring.
Queued == {n \in Tokens \X (1..QueueSize) :
              n[2] <= Len(queue[n[1]]) /\ queue[n[1]][n[2]] = Ring}

\* The environment ends: cleanup_hook.  What is in its queue is void; the
\* appender goes on calling.  One that has not registered takes nothing away.
CallEnd(e) ==
    /\ pc[e] = "idle" /\ Has(e)
    /\ At(e, "ending")
    /\ UNCHANGED <<registry, ring, queue, mutex, line, what, primary, orphans, history>>

End(e) ==
    /\ pc[e] = "ending" /\ mutex = None
    /\ entries' = Others(e)
    /\ orphans' = orphans + Cardinality({n \in Queued : owner[n[1]] = e})
    /\ queue' = [k \in Tokens |-> IF owner[k] = e THEN <<>> ELSE queue[k]]
    /\ At(e, "gone")
    /\ UNCHANGED <<registered, owner, ring, mutex, line, what, primary, history>>

------------------------------------------------------------------------------
Step(t) ==
    \/ Alloc(t) \/ Commit(t) \/ Invoke(t) \/ Post(t)
    \/ t \in Envs /\ (Receive(t) \/ Handle(t) \/ Finish(t) \/ Register(t) \/ Enable(t) \/ End(t))

Next ==
    \/ \E t \in Callers : BeginLine(t) \/ Step(t)
    \/ \E e \in Envs : CallRegister(e) \/ Unregister(e) \/ CallEnd(e)

\* Threads go on, and an event loop comes round.
Fairness == \A t \in Callers : WF_vars(Step(t))

Spec == Init /\ [][Next]_vars /\ Fairness

------------------------------------------------------------------------------
\* The threads that are about to put such a note into a queue, or to follow it.
Carried == {t \in Callers : /\ pc[t] \in {"fill", "invoke", "post", "handle", "calling"}
                            /\ what[t] = Ring}

\* Each chunk of the ring has its note or is one of the orphans, and no line is
\* shown twice, as long as only one environment reads at a time: each note that
\* is dropped, or comes before its chunk is committed, leaves one chunk for
\* ever, and every line behind it is shown one note late.
NotesMatchChunks ==
    ~clash => /\ Len(ring) = Cardinality(Queued) + Cardinality(Carried) + orphans
              /\ \A l \in Lines : shown[l] <= 1

\* A thread with the mutex waits for room in the queue of a thread that waits
\* for the mutex.
Deadlocked ==
    \E t \in Callers : /\ pc[t] = "post" /\ mutex = t
                       /\ pc[owner[primary[t]]] \in {"invoke", "register", "ending"}
                       /\ Len(queue[primary[t]]) = QueueSize

\* A call that prints, registers or ends returns, and a line in the ring is
\* shown, if no note has been lost; but for the deadlock above.
LinesAreShown ==
    /\ \A t \in Callers : pc[t] \in InApi ~> pc[t] \notin InApi \/ Deadlocked
    /\ \A l \in Lines : (\E i \in DOMAIN ring : ring[i].line = l)
                            ~> shown[l] > 0 \/ orphans > 0 \/ clash \/ Deadlocked
=============================================================================
