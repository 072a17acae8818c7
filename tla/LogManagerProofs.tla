-------------------------- MODULE LogManagerProofs --------------------------
(***************************************************************************)
(* LogManager for any callers, logs, modes, buffers, calls and kills: who  *)
(* works on a log is alone there, no worker survives uninit, and           *)
(* force_flush keeps its word.                                             *)
(*                                                                         *)
(* None is inductive.  IInv adds who holds which lock (LockExcludes,       *)
(* SpinExcludes), that each actor's list of logs is fit for it (OwnWork),  *)
(* which is what keeps readers of the lock apart, and how far uninit has   *)
(* come (Shutdown).                                                        *)
(***************************************************************************)
EXTENDS LogManager, FiniteSetTheorems, FunctionTheorems, TLAPS

\* Whoever holds the write lock is the only one who holds the lock at all.
LockExcludes == \A a \in HoldsWrite, b \in HoldsWrite \cup HoldsRead : a = b

\* Each actor works on logs it is there for.
OwnWork ==
    /\ \A w \in Workers : pc[w] = "reading" /\ todo[w] # <<>> => todo[w][1] \in Serves(w)
    /\ \A c \in Callers : pc[c] = "flushing" /\ todo[c] # <<>> => todo[c][1] \in Buffered
    /\ \A c \in Callers : pc[c] \in {"create", "reset", "reserve", "fill", "sync", "logging"} =>
          \E l \in Logs : todo[c] = <<l>> /\ (pc[c] \in {"sync", "logging"} => l \notin Buffered)

SpinExcludes == \A l \in Logs : \A a, b \in InSpin(l) : a = b

\* How far uninit has come tells which workers may still be there.
Shutdown ==
    /\ \A a, b \in Closing : a = b
    /\ phase = "working" => ~closed /\ Closing = {}
    /\ closed => Closing = {}
    /\ \A c \in Callers : pc[c] = "join_ind" => pc[Pub] = "gone"
    /\ \A l \in Independent : l \notin ToSet(list) => pc[l] = "none"
    /\ phase # "working" /\ Closing = {} => \A w \in Workers : pc[w] \in {"none", "gone"}

IInv == TypeOK /\ LockExcludes /\ OwnWork /\ SpinExcludes /\ Shutdown
------------------------------------------------------------------------------
\* Callers and workers are different threads.
LEMMA Apart == Callers \cap Workers = {} /\ Actors = Callers \cup Workers /\ Pub \in Workers
  BY ManagerAssumption DEF Workers, Independent, Actors

\* What is left of a list, passing over what is not in S, begins in S.
LEMMA OnwardBegins ==
  ASSUME NEW s \in Seq(Logs), NEW S, NEW t \in Onward(s, S)
  PROVE  t \in Seq(Logs) /\ (t # <<>> => t[1] \in S)
  <1>1. PICK k \in 1..(Len(s) + 1) : /\ k <= Len(s) => s[k] \in S
                                    /\ t = SubSeq(s, k, Len(s))
    BY DEF Onward
  <1>2. Len(s) \in Nat OBVIOUS
  <1>3. CASE k <= Len(s)
    <2>1. k \in 1..Len(s) /\ Len(s) \in 1..Len(s) BY <1>2, <1>3
    <2>2. t \in Seq(Logs) /\ Len(t) = Len(s) - k + 1 BY <1>1, <2>1
    <2>3. t[1] = s[k] BY <1>1, <2>1, <2>2
    <2> QED BY <1>1, <1>3, <2>2, <2>3
  <1>4. CASE k = Len(s) + 1
    <2>1. t = <<>> BY <1>1, <1>2, <1>4
    <2> QED BY <2>1
  <1> QED BY <1>2, <1>3, <1>4

\* A caller goes to another place, outside the part of uninit that closes.
LEMMA CallerMoves ==
  ASSUME IInv, NEW c \in Callers, NEW q \in CallerPlaces, NEW s \in Seq(Logs),
         At(c, q), todo' = [todo EXCEPT ![c] = s],
         UNCHANGED <<phase, list, worked, cancelled, closed>>,
         q \in {"reset", "flushing"} => CanWrite,
         q = "close" => CanRead,
         q \notin {"join_pub", "join_ind"}, pc[c] \notin {"join_pub", "join_ind"},
         q \in {"reset", "logging"} => \A l \in Logs : s = <<l>> => InSpin(l) = {},
         q = "flushing" /\ s # <<>> => s[1] \in Buffered,
         q \in {"create", "reset", "reserve", "fill", "sync", "logging"} =>
            \E l \in Logs : s = <<l>> /\ (q \in {"sync", "logging"} => l \notin Buffered)
  PROVE  IInv'
  <1> USE DEF IInv
  <1>1. TypeOK' BY Apart DEF TypeOK, At
  <1>2. /\ pc'[c] = q /\ todo'[c] = s
        /\ \A a \in Actors \ {c} : pc'[a] = pc[a] /\ todo'[a] = todo[a]
    BY Apart DEF TypeOK, At
  <1>3. LockExcludes'
    <2> SUFFICES ASSUME NEW a \in HoldsWrite', NEW b \in (HoldsWrite \cup HoldsRead)', a # b
                 PROVE  FALSE
      BY DEF LockExcludes
    <2>1. a # c => a \in HoldsWrite BY <1>2 DEF HoldsWrite
    <2>2. b # c => b \in HoldsWrite \cup HoldsRead BY <1>2 DEF HoldsWrite, HoldsRead
    <2>3. CASE a = c BY <1>2, <2>2, <2>3 DEF HoldsWrite, CanWrite
    <2>4. CASE b = c BY <1>2, <2>1, <2>4 DEF HoldsWrite, HoldsRead, CanWrite, CanRead, CallerPlaces
    <2> QED BY <2>1, <2>2, <2>3, <2>4 DEF LockExcludes
  <1>4. OwnWork' BY <1>2, Apart DEF OwnWork
  <1>5. SpinExcludes' BY <1>2, Apart DEF SpinExcludes, InSpin
  <1>6. Shutdown'
    <2>1. Closing' = Closing BY <1>2, Apart DEF Closing
    <2> QED BY <1>2, <2>1, Apart DEF Shutdown, Independent, Workers
  <1> QED BY <1>1, <1>3, <1>4, <1>5, <1>6

\* A worker goes to another place; none comes back when uninit is through.
LEMMA WorkerMoves ==
  ASSUME IInv, NEW w \in Workers, NEW q \in WorkerPlaces \ {"none"}, NEW s \in Seq(Logs),
         At(w, q), todo' = [todo EXCEPT ![w] = s],
         worked' \in [Workers -> BOOLEAN], cancelled' \in [Workers -> BOOLEAN],
         UNCHANGED <<phase, list, closed>>,
         pc[w] \notin {"none", "gone"},
         q = "reading" => CanRead /\ (s # <<>> => s[1] \in Serves(w))
  PROVE  IInv'
  <1> USE DEF IInv
  <1>1. TypeOK' BY Apart DEF TypeOK, At
  <1>2. /\ pc'[w] = q /\ todo'[w] = s
        /\ \A a \in Actors \ {w} : pc'[a] = pc[a] /\ todo'[a] = todo[a]
    BY Apart DEF TypeOK, At
  <1>3. LockExcludes'
    BY <1>2, Apart DEF LockExcludes, HoldsWrite, HoldsRead, CanRead, WorkerPlaces
  <1>4. OwnWork' BY <1>2, Apart DEF OwnWork
  <1>5. SpinExcludes' BY <1>2, Apart DEF SpinExcludes, InSpin
  <1>6. Shutdown'
    <2>1. Closing' = Closing BY <1>2, Apart DEF Closing, WorkerPlaces, TypeOK
    <2>2. w \in Independent => w \in ToSet(list) BY DEF Shutdown
    <2> QED BY <1>2, <2>1, <2>2, Apart DEF Shutdown, Workers
  <1> QED BY <1>1, <1>3, <1>4, <1>5, <1>6

\* Nothing moves.
LEMMA NobodyMoves ==
  ASSUME IInv, UNCHANGED <<phase, list, pc, todo, cancelled, closed>>,
         worked' \in [Workers -> BOOLEAN]
  PROVE  IInv'
  BY DEF IInv, TypeOK, LockExcludes, HoldsWrite, HoldsRead, OwnWork, SpinExcludes, InSpin,
         Shutdown, Closing
------------------------------------------------------------------------------
\* The invariant holds at the start.
LEMMA InitSound == Init => IInv
  <1> SUFFICES ASSUME Init PROVE IInv OBVIOUS
  <1> USE DEF Init
  <1>1. TypeOK
    <2>1. list \in Seq(Logs) /\ todo \in [Actors -> Seq(Logs)] BY ManagerAssumption
    <2>2. pc \in [Actors -> CallerPlaces \cup WorkerPlaces] BY DEF CallerPlaces, WorkerPlaces
    <2>3. \A a \in Actors : pc[a] \in IF a \in Callers THEN CallerPlaces ELSE WorkerPlaces
      BY DEF CallerPlaces, WorkerPlaces
    <2> QED BY <2>1, <2>2, <2>3 DEF TypeOK
  <1>2. \A a \in Actors : pc[a] \in {"idle", "top", "none"} OBVIOUS
  <1>3. HoldsWrite = {} /\ HoldsRead = {} /\ Closing = {} /\ \A l \in Logs : InSpin(l) = {}
    BY <1>2, Apart DEF HoldsWrite, HoldsRead, Closing, InSpin
  <1>4. LockExcludes /\ SpinExcludes BY <1>3 DEF LockExcludes, SpinExcludes
  <1>5. OwnWork BY <1>2, Apart DEF OwnWork
  <1>6. Shutdown
    <2>1. \A l \in Independent : l \notin ToSet(list) => pc[l] = "none"
      BY ManagerAssumption, Apart DEF Independent, Workers
    <2> QED BY <1>2, <1>3, <2>1, Apart DEF Shutdown
  <1> QED BY <1>1, <1>4, <1>5, <1>6 DEF IInv

\* A call begins.
LEMMA CallSound ==
  ASSUME IInv, NEW c \in Callers, StartCall(c)
  PROVE  IInv'
  <1>1. ASSUME NEW p \in {"create", "sync", "reserve", "flush", "uninit"}, NEW s \in Seq(Logs),
               Call(c, p, s),
               p \in {"create", "sync", "reserve"} =>
                  \E l \in Logs : s = <<l>> /\ (p = "sync" => l \notin Buffered)
        PROVE  IInv'
    <2>1. /\ At(c, p) /\ todo' = [todo EXCEPT ![c] = s] /\ pc[c] = "idle"
          /\ UNCHANGED <<phase, list, worked, cancelled, closed>>
      BY <1>1 DEF Call
    <2> QED BY <1>1, <2>1, CallerMoves DEF CallerPlaces
  <1>0. <<>> \in Seq(Logs) /\ \A l \in Logs : <<l>> \in Seq(Logs) OBVIOUS
  <1>2. ASSUME NEW l \in Logs, CallCreate(c, l) PROVE IInv' BY <1>0, <1>1, <1>2 DEF CallCreate
  <1>3. ASSUME NEW l \in Logs, CallLog(c, l) PROVE IInv'
    BY <1>0, <1>1, <1>3 DEF CallLog, Buffered
  <1>4. ASSUME NEW l \in Logs, CallFlush(c, l) PROVE IInv' BY <1>0, <1>1, <1>4 DEF CallFlush
  <1>5. CASE CallFlushAll(c) BY <1>0, <1>1, <1>5 DEF CallFlushAll
  <1>6. CASE CallUninit(c) BY <1>0, <1>1, <1>6 DEF CallUninit
  <1> QED BY <1>2, <1>3, <1>4, <1>5, <1>6 DEF StartCall

\* A caller that returns has nothing left to hold.
LEMMA ReturnSound ==
  ASSUME IInv, NEW c \in Callers, Return(c), pc[c] \notin {"join_pub", "join_ind"},
         UNCHANGED <<phase, list, worked, cancelled, closed>>
  PROVE  IInv'
  <1>1. At(c, "idle") /\ todo' = [todo EXCEPT ![c] = <<>>] BY DEF Return
  <1>2. <<>> \in Seq(Logs) OBVIOUS
  <1> QED BY <1>1, <1>2, CallerMoves DEF CallerPlaces

\* A new log and, if it is independent, its worker.
LEMMA CreateNewSound ==
  ASSUME IInv, NEW c \in Callers, NEW l \in Logs, Create(c), todo[c] = <<l>>,
         phase = "working", l \notin ToSet(list)
  PROVE  IInv'
  <1> USE DEF IInv
  <1>1. /\ list' = Append(list, l) /\ todo' = [todo EXCEPT ![c] = <<>>]
        /\ pc[c] = "create" /\ pc' = [a \in Actors |-> CASE a = c -> "idle"
                                                  [] a = l /\ l \in Independent -> "top"
                                                  [] OTHER -> pc[a]]
        /\ UNCHANGED <<phase, worked, cancelled, closed>>
    BY DEF Create, history
  <1>2. c # l BY ManagerAssumption
  <1>3. /\ pc'[c] = "idle" /\ todo'[c] = <<>>
        /\ \A a \in Actors \ {c} : todo'[a] = todo[a]
        /\ \A a \in Actors \ {c, l} : pc'[a] = pc[a]
        /\ l \in Independent => pc'[l] = "top" /\ pc[l] = "none"
        /\ l \in Callers \cup {Pub} => FALSE
        /\ l \in Actors <=> l \in Independent
    <2>1. l \notin Callers \cup {Pub} BY ManagerAssumption
    <2>2. l \in Actors <=> l \in Independent BY <2>1 DEF Actors, Workers
    <2>3. l \in Independent => pc[l] = "none" BY DEF Shutdown
    <2> QED BY <1>1, <1>2, <2>1, <2>2, <2>3, Apart DEF TypeOK
  <1>4. TypeOK'
    <2>1. list' \in Seq(Logs) /\ todo' \in [Actors -> Seq(Logs)]
      <3>1. <<>> \in Seq(Logs) OBVIOUS
      <3>2. Append(list, l) \in Seq(Logs) BY DEF TypeOK
      <3> QED BY <1>1, <3>1, <3>2 DEF TypeOK
    <2>2. \A a \in Actors : pc'[a] \in IF a \in Callers THEN CallerPlaces ELSE WorkerPlaces
      BY <1>3 DEF TypeOK, CallerPlaces, WorkerPlaces
    <2>3. pc' \in [Actors -> CallerPlaces \cup WorkerPlaces]
      BY <1>1, <2>2
    <2> QED BY <1>1, <2>1, <2>2, <2>3 DEF TypeOK
  <1>5. HoldsWrite' = HoldsWrite /\ HoldsRead' = HoldsRead /\ Closing' = Closing
    BY <1>1, <1>3 DEF HoldsWrite, HoldsRead, Closing
  <1>6. LockExcludes' BY <1>5 DEF LockExcludes
  <1>7. OwnWork'
    <2>1. \A w \in Workers : w # c BY Apart
    <2> QED BY <1>3, <2>1, Apart DEF OwnWork
  <1>8. SpinExcludes' BY <1>3, Apart DEF SpinExcludes, InSpin
  <1>9. Shutdown'
    <2>1. \A k \in Logs : k \notin ToSet(list') => k \notin ToSet(list) /\ k # l
      <3>1. Len(list) \in Nat /\ Len(list') = Len(list) + 1 /\ list'[Len(list) + 1] = l
        BY <1>1 DEF TypeOK
      <3>2. \A i \in 1..Len(list) : list'[i] = list[i] BY <1>1 DEF TypeOK
      <3> QED BY <3>1, <3>2 DEF ToSet
    <2>2. \A k \in Independent : k \notin ToSet(list') => pc'[k] = "none"
      <3> SUFFICES ASSUME NEW k \in Independent, k \notin ToSet(list') PROVE pc'[k] = "none"
        OBVIOUS
      <3>1. k \in Logs /\ k # c /\ k \in Actors
        BY ManagerAssumption DEF Independent, Actors, Workers
      <3> QED BY <1>3, <2>1, <3>1 DEF Shutdown
    <2> QED BY <1>1, <1>3, <1>5, <2>2, Apart DEF Shutdown
  <1> QED BY <1>4, <1>6, <1>7, <1>8, <1>9

\* create_log, which resets a log that exists.
LEMMA CreateSound ==
  ASSUME IInv, NEW c \in Callers, Create(c)
  PROVE  IInv'
  <1> DEFINE l == todo[c][1]
  <1>0. l \in Logs /\ todo[c] = <<l>> BY DEF Create, IInv, OwnWork
  <1>1. CASE phase # "working" BY <1>1, ReturnSound DEF Create, Return, logVars, history
  <1>2. CASE phase = "working" /\ l \in ToSet(list)
    <2>1. /\ At(c, "reset") /\ InSpin(l) = {} /\ CanWrite
          /\ UNCHANGED <<phase, list, todo, worked, cancelled, closed>>
      BY <1>2 DEF Create, history
    <2>2. todo' = [todo EXCEPT ![c] = <<l>>] BY <1>0, <2>1 DEF IInv, TypeOK
    <2>3. pc[c] = "create" BY DEF Create
    <2>4. <<l>> \in Seq(Logs) BY <1>0
    <2>5. \A k \in Logs : <<l>> = <<k>> => InSpin(k) = {} BY <2>1
    <2> HIDE DEF l
    <2> QED BY <1>0, <2>1, <2>2, <2>3, <2>4, <2>5, CallerMoves DEF CallerPlaces
  <1>3. CASE phase = "working" /\ l \notin ToSet(list) BY <1>0, <1>3, CreateNewSound
  <1> QED BY <1>1, <1>2, <1>3
\* uninit returns: the workers are gone, or somebody else has seen to that.
LEMMA UninitReturnsSound ==
  ASSUME IInv, NEW c \in Callers, pc[c] \in {"close", "join_ind"}, phase # "working",
         pc' = [pc EXCEPT ![c] = "idle"], todo' = [todo EXCEPT ![c] = <<>>], closed' = TRUE,
         UNCHANGED <<phase, list, worked, cancelled>>,
         Closing \subseteq {c},
         \A w \in Workers : pc[w] \in {"none", "gone"}
  PROVE  IInv'
  <1> USE DEF IInv
  <1>1. /\ pc'[c] = "idle" /\ todo'[c] = <<>>
        /\ \A a \in Actors \ {c} : pc'[a] = pc[a] /\ todo'[a] = todo[a]
    BY Apart DEF TypeOK
  <1>2. TypeOK'
    <2>1. <<>> \in Seq(Logs) OBVIOUS
    <2> QED BY <1>1, <2>1, Apart DEF TypeOK, CallerPlaces
  <1>3. Closing' = {} BY <1>1, Apart DEF Closing
  <1>4. LockExcludes' BY <1>1, Apart DEF LockExcludes, HoldsWrite, HoldsRead
  <1>5. OwnWork' BY <1>1, Apart DEF OwnWork
  <1>6. SpinExcludes' BY <1>1, Apart DEF SpinExcludes, InSpin
  <1>7. Shutdown' BY <1>1, <1>3, Apart DEF Shutdown, Workers, Independent
  <1> QED BY <1>2, <1>4, <1>5, <1>6, <1>7

\* The first uninit changes the phase; later ones find it changed.
LEMMA UninitPhaseSound ==
  ASSUME IInv, NEW c \in Callers, UninitPhase(c)
  PROVE  IInv'
  <1> USE DEF IInv, logVars, history
  <1>1. CASE phase # "working"
    <2>1. /\ pc' = [pc EXCEPT ![c] = "idle"] /\ todo' = [todo EXCEPT ![c] = <<>>]
          /\ pc[c] = "close" /\ Closing = {} /\ closed' = TRUE
          /\ UNCHANGED <<phase, list, worked, cancelled>>
      BY <1>1 DEF UninitPhase, Return, At
    <2>2. \A w \in Workers : pc[w] \in {"none", "gone"} BY <1>1, <2>1 DEF Shutdown
    <2> QED BY <1>1, <2>1, <2>2, UninitReturnsSound
  <1>2. CASE phase = "working"
    <2>1. /\ pc' = [pc EXCEPT ![c] = "join_pub"]
          /\ pc[c] = "close" /\ Closing = {} /\ phase' = "uninitialized"
          /\ cancelled' = [cancelled EXCEPT ![Pub] = TRUE]
          /\ UNCHANGED <<list, todo, worked, closed>>
      BY <1>2 DEF UninitPhase, At
    <2>2. pc'[c] = "join_pub" /\ \A a \in Actors \ {c} : pc'[a] = pc[a]
      BY <2>1, Apart DEF TypeOK
    <2>3. TypeOK' BY <2>1, <2>2, Apart DEF TypeOK, CallerPlaces
    <2>4. Closing' = {c} BY <2>1, <2>2, Apart DEF Closing
    <2>5. LockExcludes' BY <2>1, <2>2, Apart DEF LockExcludes, HoldsWrite, HoldsRead
    <2>6. OwnWork' BY <2>1, <2>2, Apart DEF OwnWork
    <2>7. SpinExcludes' BY <2>1, <2>2, Apart DEF SpinExcludes, InSpin
    <2>8. Shutdown'
      BY <1>2, <2>1, <2>2, <2>4, Apart DEF Shutdown, TypeOK, Workers, Independent
    <2> QED BY <2>3, <2>5, <2>6, <2>7, <2>8
  <1> QED BY <1>1, <1>2

\* The public worker is gone, the others are cancelled.
LEMMA JoinPublicSound ==
  ASSUME IInv, NEW c \in Callers, JoinPublic(c)
  PROVE  IInv'
  <1> USE DEF IInv, logVars, history
  <1>1. /\ pc' = [pc EXCEPT ![c] = "join_ind"] /\ pc[c] = "join_pub" /\ pc[Pub] = "gone"
        /\ cancelled' \in [Workers -> BOOLEAN]
        /\ UNCHANGED <<phase, list, todo, worked, closed>>
    BY DEF JoinPublic, At
  <1>2. pc'[c] = "join_ind" /\ \A a \in Actors \ {c} : pc'[a] = pc[a]
    BY <1>1, Apart DEF TypeOK
  <1>3. TypeOK' BY <1>1, <1>2, Apart DEF TypeOK, CallerPlaces
  <1>4. Closing' = Closing BY <1>1, <1>2, Apart DEF Closing
  <1>5. LockExcludes' BY <1>1, <1>2, Apart DEF LockExcludes, HoldsWrite, HoldsRead
  <1>6. OwnWork' BY <1>1, <1>2, Apart DEF OwnWork
  <1>7. SpinExcludes' BY <1>1, <1>2, Apart DEF SpinExcludes, InSpin
  <1>8. Shutdown' BY <1>1, <1>2, <1>4, Apart DEF Shutdown, Workers, Independent, Closing
  <1> QED BY <1>3, <1>5, <1>6, <1>7, <1>8

\* The independent workers are gone too, so all are.
LEMMA JoinIndependentSound ==
  ASSUME IInv, NEW c \in Callers, JoinIndependent(c)
  PROVE  IInv'
  <1> USE DEF IInv, logVars, history
  <1>1. /\ pc' = [pc EXCEPT ![c] = "idle"] /\ todo' = [todo EXCEPT ![c] = <<>>]
        /\ pc[c] = "join_ind" /\ closed' = TRUE
        /\ \A w \in Independent : w \in ToSet(list) => pc[w] = "gone"
        /\ UNCHANGED <<phase, list, worked, cancelled>>
    BY DEF JoinIndependent, Return, At
  <1>2. c \in Closing /\ Closing \subseteq {c} /\ phase # "working"
    BY <1>1, Apart DEF Closing, Shutdown
  <1>3. \A w \in Workers : pc[w] \in {"none", "gone"}
    BY <1>1 DEF Shutdown, Workers
  <1> QED BY <1>1, <1>2, <1>3, UninitReturnsSound

\* The holder of a lock goes on to another log.
LEMMA FlushGoesOn ==
  ASSUME IInv, NEW c \in Callers, NEW s \in Seq(Logs), pc[c] = "flushing",
         todo' = [todo EXCEPT ![c] = s], s # <<>> => s[1] \in Buffered,
         UNCHANGED <<phase, list, pc, worked, cancelled, closed>>
  PROVE  IInv'
  <1> USE DEF IInv
  <1>1. todo'[c] = s /\ \A a \in Actors \ {c} : todo'[a] = todo[a] BY Apart DEF TypeOK
  <1>2. TypeOK' BY Apart DEF TypeOK
  <1>3. LockExcludes' BY DEF LockExcludes, HoldsWrite, HoldsRead
  <1>4. OwnWork' BY <1>1, Apart DEF OwnWork
  <1>5. SpinExcludes' BY <1>1, Apart DEF SpinExcludes, InSpin
  <1>6. Shutdown' BY DEF Shutdown, Closing
  <1> QED BY <1>2, <1>3, <1>4, <1>5, <1>6

\* A worker goes on to another log.
LEMMA WorkerGoesOn ==
  ASSUME IInv, NEW w \in Workers, NEW s \in Seq(Logs), pc[w] = "reading",
         todo' = [todo EXCEPT ![w] = s], s # <<>> => s[1] \in Serves(w),
         UNCHANGED <<phase, list, pc, worked, cancelled, closed>>
  PROVE  IInv'
  <1> USE DEF IInv
  <1>1. todo'[w] = s /\ \A a \in Actors \ {w} : todo'[a] = todo[a] BY Apart DEF TypeOK
  <1>2. TypeOK' /\ w \in Actors \ Callers BY Apart DEF TypeOK
  <1>3. LockExcludes' BY DEF LockExcludes, HoldsWrite, HoldsRead
  <1>4. OwnWork' BY <1>1, Apart DEF OwnWork
  <1>5. SpinExcludes' BY <1>1, <1>2, Apart DEF SpinExcludes, InSpin
  <1>6. Shutdown' BY DEF Shutdown, Closing
  <1> QED BY <1>2, <1>3, <1>4, <1>5, <1>6

\* Each step of a caller.
LEMMA CallerSound ==
  ASSUME IInv, NEW c \in Callers, CallerStep(c)
  PROVE  IInv'
  <1> USE DEF logVars, history
  <1>0. /\ <<>> \in Seq(Logs) /\ todo[c] \in Seq(Logs) /\ list \in Seq(Logs)
        /\ todo' = todo => todo' = [todo EXCEPT ![c] = todo[c]]
    BY Apart DEF IInv, TypeOK
  <1>1. CASE Create(c) BY <1>1, CreateSound
  <1>2. CASE Reset(c) BY <1>2, ReturnSound DEF Reset
  <1>3. CASE Reserve(c)
    <2>1. CASE Return(c) BY <1>3, <2>1, ReturnSound DEF Reserve
    <2>2. CASE At(c, "fill") /\ UNCHANGED todo
      <3>1. \E l \in Logs : todo[c] = <<l>> BY <1>3 DEF Reserve, IInv, OwnWork
      <3> QED BY <1>0, <1>3, <2>2, <3>1, CallerMoves DEF Reserve, CallerPlaces
    <2> QED BY <1>3, <2>1, <2>2 DEF Reserve
  <1>4. CASE Commit(c) BY <1>4, ReturnSound DEF Commit
  <1>5. CASE SyncLock(c)
    <2>1. \E l \in Logs : todo[c] = <<l>> /\ l \notin Buffered
      BY <1>5 DEF SyncLock, IInv, OwnWork
    <2>2. \A l \in Logs : todo[c] = <<l>> => InSpin(l) = {} BY <1>5 DEF SyncLock
    <2> QED BY <1>0, <1>5, <2>1, <2>2, CallerMoves DEF SyncLock, CallerPlaces
  <1>6. CASE SyncProcess(c) BY <1>6, ReturnSound DEF SyncProcess
  <1>7. CASE FlushLock(c)
    <2>1. PICK s \in Onward(IF todo[c] # <<>> THEN todo[c] ELSE list, Buffered) :
             todo' = [todo EXCEPT ![c] = s]
      BY <1>7 DEF FlushLock
    <2>2. s \in Seq(Logs) /\ (s # <<>> => s[1] \in Buffered) BY <1>0, <2>1, OnwardBegins
    <2> QED BY <1>7, <2>1, <2>2, CallerMoves DEF FlushLock, CallerPlaces
  <1>8. CASE FlushTake(c) BY <1>8, NobodyMoves DEF FlushTake, IInv, TypeOK
  <1>9. CASE FlushNext(c)
    <2>0. Tail(todo[c]) \in Seq(Logs) BY <1>0, <1>9 DEF FlushNext
    <2>1. PICK rest \in Seq(Logs) : rest = Tail(todo[c]) BY <2>0
    <2>2. PICK s \in Onward(rest, Buffered) : todo' = [todo EXCEPT ![c] = s]
      BY <1>9, <2>1 DEF FlushNext
    <2>3. s \in Seq(Logs) /\ (s # <<>> => s[1] \in Buffered) BY <2>2, OnwardBegins
    <2>4. pc' = [pc EXCEPT ![c] = "flushing"] BY <1>9 DEF FlushNext, IInv, TypeOK
    <2> QED BY <1>9, <2>2, <2>3, <2>4, FlushGoesOn DEF FlushNext
  <1>10. CASE FlushReturn(c) BY <1>10, ReturnSound DEF FlushReturn
  <1>11. CASE UninitRead(c)
    BY <1>0, <1>11, CallerMoves DEF UninitRead, CallerPlaces
  <1>12. CASE UninitPhase(c) BY <1>12, UninitPhaseSound
  <1>13. CASE JoinPublic(c) BY <1>13, JoinPublicSound
  <1>14. CASE JoinIndependent(c) BY <1>14, JoinIndependentSound
  <1> QED
    BY <1>1, <1>2, <1>3, <1>4, <1>5, <1>6, <1>7, <1>8, <1>9, <1>10, <1>11, <1>12, <1>13, <1>14
    DEF CallerStep

\* Each step of a worker.
LEMMA WorkerSound ==
  ASSUME IInv, NEW w \in Workers, WorkerStep(w) \/ Killed(w)
  PROVE  IInv'
  <1> USE DEF logVars, history
  <1>0. /\ <<>> \in Seq(Logs) /\ todo[w] \in Seq(Logs) /\ list \in Seq(Logs)
        /\ todo' = todo => todo' = [todo EXCEPT ![w] = todo[w]]
        /\ pc' = pc => pc' = [pc EXCEPT ![w] = pc[w]]
        /\ worked \in [Workers -> BOOLEAN] /\ cancelled \in [Workers -> BOOLEAN]
    BY Apart DEF IInv, TypeOK
  <1>1. CASE ProcessBegin(w)
    <2> DEFINE all == IF phase # "working" THEN <<>> ELSE IF w = Pub THEN list ELSE <<w>>
    <2>0. all \in Seq(Logs) BY <1>0 DEF Workers, Independent
    <2>1. PICK rest \in Seq(Logs) : rest = all BY <2>0
    <2>2. PICK s \in Onward(rest, Serves(w)) : todo' = [todo EXCEPT ![w] = s]
      BY <1>1, <2>1 DEF ProcessBegin
    <2>3. s \in Seq(Logs) /\ (s # <<>> => s[1] \in Serves(w)) BY <2>2, OnwardBegins
    <2> QED BY <1>0, <1>1, <2>2, <2>3, WorkerMoves DEF ProcessBegin, WorkerPlaces
  <1>2. CASE WorkerTake(w) BY <1>0, <1>2, NobodyMoves DEF WorkerTake
  <1>3. CASE WorkerNext(w)
    <2>0. Tail(todo[w]) \in Seq(Logs) BY <1>0, <1>3 DEF WorkerNext
    <2>1. PICK rest \in Seq(Logs) : rest = Tail(todo[w]) BY <2>0
    <2>2. PICK s \in Onward(rest, Serves(w)) : todo' = [todo EXCEPT ![w] = s]
      BY <1>3, <2>1 DEF WorkerNext
    <2>3. s \in Seq(Logs) /\ (s # <<>> => s[1] \in Serves(w)) BY <2>2, OnwardBegins
    <2> QED BY <1>3, <2>2, <2>3, WorkerGoesOn DEF WorkerNext
  <1>4. CASE ProcessEnd(w) BY <1>0, <1>4, WorkerMoves DEF ProcessEnd, WorkerPlaces, At
  <1>5. CASE Wake(w) BY <1>0, <1>5, WorkerMoves DEF Wake, WorkerPlaces
  <1>6. CASE WatchDog(w) BY <1>0, <1>6, WorkerMoves DEF WatchDog, WorkerPlaces
  <1>7. CASE Restart(w) BY <1>0, <1>7, WorkerMoves DEF Restart, WorkerPlaces
  <1>8. CASE Killed(w) BY <1>0, <1>8, WorkerMoves DEF Killed, WorkerPlaces
  <1> QED BY <1>1, <1>2, <1>3, <1>4, <1>5, <1>6, <1>7, <1>8 DEF WorkerStep

\* Each step keeps the invariant.
LEMMA Inductive == IInv /\ [Next]_vars => IInv'
  <1> SUFFICES ASSUME IInv, [Next]_vars PROVE IInv' OBVIOUS
  <1>1. ASSUME NEW c \in Callers, StartCall(c) PROVE IInv' BY <1>1, CallSound
  <1>2. ASSUME NEW c \in Callers, CallerStep(c) PROVE IInv' BY <1>2, CallerSound
  <1>3. ASSUME NEW w \in Workers, WorkerStep(w) \/ Killed(w) PROVE IInv' BY <1>3, WorkerSound
  <1>4. ASSUME NEW l \in Logs, IntervalPasses(l) PROVE IInv'
    BY <1>4, NobodyMoves DEF IntervalPasses, history, IInv, TypeOK
  <1>5. CASE UNCHANGED vars BY <1>5, NobodyMoves DEF vars, IInv, TypeOK
  <1> QED BY <1>1, <1>2, <1>3, <1>4, <1>5 DEF Next

\* The inductive invariant of the log manager holds in every reachable state.
THEOREM ManagerInvariant == Spec => []IInv
  <1> QED BY InitSound, Inductive, PTL DEF Spec

\* Two actors never work on the appenders, caches and reading side of one log
\* at the same time: process, force_flush, sync_process and reset_config, kept
\* apart by logs_lock_, the logs' spin_lock_ and the modes of the logs.
THEOREM NobodyMeets == Spec => []AppendersOwned
  <1>1. IInv => AppendersOwned
    <2> SUFFICES ASSUME IInv, NEW l \in Logs, NEW a \in InAppenders(l), NEW b \in InAppenders(l)
                 PROVE  a = b
      BY DEF AppendersOwned
    <2>1. /\ todo[a] # <<>> /\ todo[a][1] = l /\ todo[b] # <<>> /\ todo[b][1] = l
          /\ pc[a] \in {"reading", "flushing", "logging", "reset"}
          /\ pc[b] \in {"reading", "flushing", "logging", "reset"}
      BY DEF InAppenders
    <2>2. /\ \A w \in Actors : pc[w] = "reading" => w \in Workers /\ l \in Logs
          /\ \A c \in Actors : pc[c] \in {"flushing", "logging", "reset"} => c \in Callers
      BY Apart DEF IInv, TypeOK, CallerPlaces, WorkerPlaces
    <2>3. a \in Actors /\ b \in Actors BY DEF InAppenders
    <2>4. CASE a \in HoldsWrite /\ b \in HoldsWrite \cup HoldsRead
      BY <2>4 DEF IInv, LockExcludes
    <2>5. CASE b \in HoldsWrite /\ a \in HoldsWrite \cup HoldsRead
      BY <2>5 DEF IInv, LockExcludes
    <2>6. CASE pc[a] = "reading" /\ pc[b] = "reading"
      <3>1. l \in Serves(a) /\ l \in Serves(b) BY <2>1, <2>2, <2>3, <2>6 DEF IInv, OwnWork
      <3> QED BY <2>2, <2>3, <2>6, <3>1 DEF Serves, Workers, Independent
    <2>7. ASSUME NEW c \in {a, b}, pc[c] = "logging" PROVE a = b
      <3>1. c \in Callers /\ todo[c] = <<l>> /\ l \notin Buffered
        BY <2>1, <2>2, <2>3, <2>7 DEF IInv, OwnWork
      <3>2. ASSUME NEW d \in {a, b}, pc[d] \in {"reading", "flushing"} PROVE FALSE
        <4>1. CASE pc[d] = "flushing" BY <2>1, <2>2, <2>3, <3>1, <4>1 DEF IInv, OwnWork
        <4>2. CASE pc[d] = "reading"
          <5>1. d \in Workers /\ l \in Serves(d) BY <2>1, <2>2, <2>3, <4>2 DEF IInv, OwnWork
          <5>2. Mode[l] \in {"async", "independent"} BY <5>1 DEF Serves, Workers, Independent
          <5> QED BY <3>1, <5>2 DEF Buffered
        <4> QED BY <3>2, <4>1, <4>2
      <3>3. \A d \in {a, b} : d \in InSpin(l)
        BY <2>1, <2>2, <2>3, <3>2 DEF IInv, OwnWork, InSpin
      <3> QED BY <3>3 DEF IInv, SpinExcludes
    <2> QED BY <2>1, <2>3, <2>4, <2>5, <2>6, <2>7 DEF HoldsWrite, HoldsRead
  <1> QED BY <1>1, ManagerInvariant, PTL

\* After uninit has returned to anybody there is no worker thread left, and none
\* that was killed is started again: what uninit and try_restart_worker agree
\* on through phase_ and uninit_lock_.
THEOREM NobodyAfterUninit == Spec => []NoWorkerAfterUninit
  <1>1. IInv => NoWorkerAfterUninit
    BY DEF IInv, TypeOK, Shutdown, NoWorkerAfterUninit
  <1> QED BY <1>1, ManagerInvariant, PTL

-----------------------------------------------------------------------------
(***************************************************************************)
(* force_flush keeps its word, for any callers, logs and buffers.          *)
(*                                                                         *)
(* FInv follows what a caller is owed: it is no more than what is filed or *)
(* committed (which only grows, Growth); and once the caller has been at a *)
(* log, it is no more than what is written, and nobody else changes that,  *)
(* as the caller holds the write lock (LockExcludes, from IInv).           *)
(***************************************************************************)

Chunk == [by : Callers, committed : BOOLEAN]

\* How many chunks are ready is a number.
LEMMA ReadyCount ==
  ASSUME NEW b \in Seq(Chunk)
  PROVE  /\ IsFiniteSet(Ready(b))
         /\ Cardinality(Ready(b)) \in Nat
         /\ b = <<>> => Cardinality(Ready(b)) = 0
  <1>1. Len(b) \in Nat /\ DOMAIN b = 1..Len(b) OBVIOUS
  <1>2. IsFiniteSet(1..Len(b)) BY <1>1, FS_Interval
  <1>3. Ready(b) \in SUBSET (1..Len(b)) BY <1>1 DEF Ready
  <1>4. IsFiniteSet(Ready(b)) BY <1>2, <1>3, FS_Subset
  <1>5. b = <<>> => Ready(b) = {} BY <1>1, <1>3
  <1> QED BY <1>4, <1>5, FS_CardinalityType, FS_EmptySet

\* The chunk at the head goes: one less.
LEMMA ReadyTail ==
  ASSUME NEW b \in Seq(Chunk), Cardinality(Ready(b)) > 0
  PROVE  /\ b # <<>> /\ Tail(b) \in Seq(Chunk)
         /\ Cardinality(Ready(Tail(b))) = Cardinality(Ready(b)) - 1
  <1>1. b # <<>> BY ReadyCount
  <1>2. /\ Len(b) \in Nat \ {0} /\ DOMAIN b = 1..Len(b)
        /\ Tail(b) \in Seq(Chunk) /\ Len(Tail(b)) = Len(b) - 1
        /\ DOMAIN Tail(b) = 1..(Len(b) - 1)
        /\ \A i \in 1..(Len(b) - 1) : Tail(b)[i] = b[i + 1]
    BY <1>1
  <1>3. IsFiniteSet(Ready(b)) /\ IsFiniteSet(Ready(Tail(b))) BY <1>2, ReadyCount
  <1>4. Ready(b) # {}
    <2>1. Ready(b) = {} => Cardinality(Ready(b)) = 0 BY FS_EmptySet, Zenon
    <2>2. Cardinality(Ready(b)) # 0 OBVIOUS
    <2> QED BY <2>1, <2>2
  <1>5. 1 \in Ready(b) BY <1>2, <1>4 DEF Ready
  <1> DEFINE f == [n \in Ready(Tail(b)) |-> n + 1]
  <1>6. \A n \in Ready(Tail(b)) : n + 1 \in Ready(b) \ {1}
    <2> SUFFICES ASSUME NEW n \in Ready(Tail(b)) PROVE n + 1 \in Ready(b) \ {1} OBVIOUS
    <2>1. n \in 1..(Len(b) - 1) /\ \A i \in 1..n : Tail(b)[i].committed BY <1>2 DEF Ready
    <2>2. \A i \in 1..(n + 1) : b[i].committed
      <3> SUFFICES ASSUME NEW i \in 1..(n + 1) PROVE b[i].committed OBVIOUS
      <3>1. CASE i = 1 BY <1>5, <3>1 DEF Ready
      <3>2. CASE i # 1
        <4>1. i - 1 \in 1..n /\ i - 1 \in 1..(Len(b) - 1) /\ (i - 1) + 1 = i
          BY <1>2, <2>1, <3>2
        <4>2. Tail(b)[i - 1].committed /\ Tail(b)[i - 1] = b[(i - 1) + 1] BY <1>2, <2>1, <4>1
        <4> QED BY <4>1, <4>2
      <3> QED BY <3>1, <3>2
    <2> QED BY <1>2, <2>1, <2>2 DEF Ready
  <1>7. \A m \in Ready(b) \ {1} : m - 1 \in Ready(Tail(b))
    <2> SUFFICES ASSUME NEW m \in Ready(b) \ {1} PROVE m - 1 \in Ready(Tail(b)) OBVIOUS
    <2>1. m \in 2..Len(b) /\ \A i \in 1..m : b[i].committed BY <1>2 DEF Ready
    <2>2. m - 1 \in 1..(Len(b) - 1) BY <1>2, <2>1
    <2>3. \A i \in 1..(m - 1) : Tail(b)[i].committed
      <3> SUFFICES ASSUME NEW i \in 1..(m - 1) PROVE Tail(b)[i].committed OBVIOUS
      <3>1. i \in 1..(Len(b) - 1) /\ i + 1 \in 1..m BY <1>2, <2>1
      <3>2. Tail(b)[i] = b[i + 1] BY <1>2, <3>1
      <3> QED BY <2>1, <3>1, <3>2
    <2> QED BY <1>2, <2>2, <2>3 DEF Ready
  <1>8. \A n \in Ready(Tail(b)) : n \in Nat BY <1>2 DEF Ready
  <1>9. f \in Bijection(Ready(Tail(b)), Ready(b) \ {1})
    <2>1. f \in [Ready(Tail(b)) -> Ready(b) \ {1}] BY <1>6
    <2>2. \A n, m \in Ready(Tail(b)) : f[n] = f[m] => n = m BY <1>8
    <2>3. \A m \in Ready(b) \ {1} : \E n \in Ready(Tail(b)) : f[n] = m
      <3> SUFFICES ASSUME NEW m \in Ready(b) \ {1} PROVE \E n \in Ready(Tail(b)) : f[n] = m OBVIOUS
      <3>1. m \in Nat BY <1>2 DEF Ready
      <3>2. m - 1 \in Ready(Tail(b)) BY <1>7
      <3>3. f[m - 1] = m BY <3>1, <3>2
      <3> QED BY <3>2, <3>3
    <2>4. DOMAIN f = Ready(Tail(b)) OBVIOUS
    <2> HIDE DEF f
    <2> QED BY <2>1, <2>2, <2>3, <2>4 DEF Bijection, Injection, Surjection, IsInjective
  <1>10. ExistsBijection(Ready(Tail(b)), Ready(b) \ {1}) BY <1>9 DEF ExistsBijection
  <1>11. Cardinality(Ready(b) \ {1}) = Cardinality(Ready(Tail(b)))
    BY <1>3, <1>10, FS_Bijection
  <1> QED BY <1>1, <1>2, <1>3, <1>5, <1>11, FS_RemoveElement

\* A chunk that is reserved adds nothing yet, one that is committed takes nothing away.
LEMMA ReadyAppend ==
  ASSUME NEW b \in Seq(Chunk), NEW c \in Callers
  PROVE  LET e == [by |-> c, committed |-> FALSE]
         IN  Append(b, e) \in Seq(Chunk) /\ Ready(Append(b, e)) = Ready(b)
  <1> DEFINE e == [by |-> c, committed |-> FALSE]
  <1>1. e \in Chunk /\ e.committed = FALSE BY DEF Chunk
  <1> HIDE DEF e
  <1>2. /\ Len(b) \in Nat /\ DOMAIN b = 1..Len(b)
        /\ Append(b, e) \in Seq(Chunk) /\ DOMAIN Append(b, e) = 1..(Len(b) + 1)
        /\ \A i \in 1..Len(b) : Append(b, e)[i] = b[i]
        /\ Append(b, e)[Len(b) + 1] = e
    BY <1>1
  <1>3. Ready(Append(b, e)) \subseteq Ready(b)
    <2> SUFFICES ASSUME NEW n \in Ready(Append(b, e)) PROVE n \in Ready(b) OBVIOUS
    <2>1. n \in 1..(Len(b) + 1) /\ \A i \in 1..n : Append(b, e)[i].committed BY <1>2 DEF Ready
    <2>2. n # Len(b) + 1 BY <1>1, <1>2, <2>1
    <2>3. n \in 1..Len(b) BY <1>2, <2>1, <2>2
    <2> QED BY <1>2, <2>1, <2>3 DEF Ready
  <1>4. Ready(b) \subseteq Ready(Append(b, e))
    <2> SUFFICES ASSUME NEW n \in Ready(b) PROVE n \in Ready(Append(b, e)) OBVIOUS
    <2>1. n \in 1..Len(b) /\ \A i \in 1..n : b[i].committed BY <1>2 DEF Ready
    <2>2. n \in 1..(Len(b) + 1) /\ \A i \in 1..n : i \in 1..Len(b) BY <1>2, <2>1
    <2> QED BY <1>2, <2>1, <2>2 DEF Ready
  <1> QED BY <1>2, <1>3, <1>4 DEF e

\* Committing a chunk takes nothing away.
LEMMA ReadyCommit ==
  ASSUME NEW b \in Seq(Chunk), NEW c \in Callers
  PROVE  LET d == [i \in DOMAIN b |->
                     IF b[i].by = c THEN [b[i] EXCEPT !.committed = TRUE] ELSE b[i]]
         IN  d \in Seq(Chunk) /\ Cardinality(Ready(d)) >= Cardinality(Ready(b))
  <1> DEFINE d == [i \in DOMAIN b |->
                     IF b[i].by = c THEN [b[i] EXCEPT !.committed = TRUE] ELSE b[i]]
  <1>1. Len(b) \in Nat /\ DOMAIN b = 1..Len(b) /\ \A i \in 1..Len(b) : b[i] \in Chunk OBVIOUS
  <1>2. \A i \in 1..Len(b) : d[i] \in Chunk /\ (b[i].committed => d[i].committed)
    BY <1>1 DEF Chunk
  <1>3. DOMAIN d = 1..Len(b) BY <1>1
  <1>4. d \in Seq(Chunk) BY <1>1, <1>2
  <1> HIDE DEF d
  <1>5. Ready(b) \in SUBSET Ready(d) BY <1>1, <1>2, <1>3 DEF Ready
  <1>6. IsFiniteSet(Ready(d)) BY <1>4, ReadyCount
  <1>7. Cardinality(Ready(b)) <= Cardinality(Ready(d)) BY <1>5, <1>6, FS_Subset
  <1>8. Cardinality(Ready(b)) \in Nat /\ Cardinality(Ready(d)) \in Nat BY <1>4, ReadyCount
  <1> QED BY <1>4, <1>7, <1>8 DEF d
------------------------------------------------------------------------------
DataOK ==
    /\ buf \in [Logs -> Seq(Chunk)]
    /\ filed \in [Logs -> Nat] /\ written \in [Logs -> Nat]
    /\ due \in [Logs -> BOOLEAN] /\ late \in [Logs -> BOOLEAN]
    /\ \A l \in Logs : written[l] <= filed[l]

\* Only logs that were created have entries.
Listed ==
    /\ \A c \in Callers : pc[c] \in {"reset", "reserve", "fill", "sync", "logging"} =>
          todo[c][1] \in ToSet(list)
    /\ \A l \in Logs : l \notin ToSet(list) => buf[l] = <<>> /\ filed[l] = 0

\* Until force_flush comes to a log, what it owes there is somewhere between
\* the buffer and the files; when it has been there, it is in the files.
PromiseOf(c) ==
    \A l \in Buffered :
        /\ pc[c] \in {"flush", "flushing"} => owed[c][l] <= filed[l] + Committed(l)
        /\ pc[c] = "flush" /\ owed[c][l] > 0 =>
              IF todo[c] = <<>> THEN l \in ToSet(list) ELSE todo[c] = <<l>>
        /\ pc[c] = "flushing" =>
              l \in ToSet(todo[c]) \/ owed[c][l] <= written[l] \/ late[l]

FInv ==
    /\ IInv /\ DataOK /\ Listed
    /\ owed \in [Callers -> [Logs -> Nat]]
    /\ \A c \in Callers : PromiseOf(c)

\* What a step does to the logs' data.
Growth ==
    /\ DataOK'
    /\ \A l \in Logs : /\ filed[l] + Committed(l) <= filed'[l] + Committed(l)'
                       /\ written[l] <= written'[l]
                       /\ l \notin ToSet(list') => buf'[l] = <<>> /\ filed'[l] = 0

\* The same for the buffer of a log.
LEMMA CommittedNat ==
  ASSUME DataOK, NEW l \in Logs
  PROVE  /\ Committed(l) \in Nat
         /\ buf[l] = <<>> => Committed(l) = 0
  BY ReadyCount DEF DataOK, Committed

\* An entry goes from the buffer to the appenders: nothing is lost between.
LEMMA TakeGrowth ==
  ASSUME DataOK, Listed, NEW k \in Logs, TakeEntry(k), UNCHANGED list
  PROVE  /\ Growth
         /\ \A l \in Logs : filed'[l] + Committed(l)' = filed[l] + Committed(l)
         /\ \A l \in Logs \ {k} : late'[l] = late[l]
         /\ written' = written
  <1> USE DEF DataOK
  <1>1. /\ buf' = [buf EXCEPT ![k] = Tail(@)] /\ filed' = [filed EXCEPT ![k] = @ + 1]
        /\ late' = [late EXCEPT ![k] = FALSE] /\ UNCHANGED <<written, due>>
        /\ Cardinality(Ready(buf[k])) > 0
    BY DEF TakeEntry, Committed
  <1>2. /\ buf[k] # <<>> /\ Tail(buf[k]) \in Seq(Chunk)
        /\ Cardinality(Ready(Tail(buf[k]))) = Cardinality(Ready(buf[k])) - 1
    BY <1>1, ReadyTail
  <1>3. /\ buf'[k] = Tail(buf[k]) /\ filed'[k] = filed[k] + 1
        /\ \A l \in Logs \ {k} : buf'[l] = buf[l] /\ filed'[l] = filed[l] /\ late'[l] = late[l]
    BY <1>1
  <1>4. DataOK'
    <2>1. buf' \in [Logs -> Seq(Chunk)] BY <1>1, <1>2
    <2>2. filed' \in [Logs -> Nat] /\ late' \in [Logs -> BOOLEAN] BY <1>1
    <2>3. ASSUME NEW l \in Logs PROVE written[l] <= filed'[l]
      <3>1. written[l] \in Nat /\ filed[l] \in Nat /\ written[l] <= filed[l] OBVIOUS
      <3>2. filed'[l] = filed[l] \/ filed'[l] = filed[l] + 1 BY <1>3
      <3> QED BY <3>1, <3>2
    <2> QED BY <1>1, <2>1, <2>2, <2>3
  <1>5. \A l \in Logs : filed'[l] + Committed(l)' = filed[l] + Committed(l)
    <2> SUFFICES ASSUME NEW l \in Logs
                 PROVE  filed'[l] + Committed(l)' = filed[l] + Committed(l)
      OBVIOUS
    <2>1. CASE l # k BY <1>3, <2>1 DEF Committed
    <2>2. CASE l = k
      <3>1. Committed(l)' = Committed(l) - 1 BY <1>2, <1>3, <2>2 DEF Committed
      <3>2. Committed(l) \in Nat /\ filed[l] \in Nat BY CommittedNat
      <3> QED BY <1>3, <2>2, <3>1, <3>2
    <2> QED BY <2>1, <2>2
  <1>6. \A l \in Logs : l \notin ToSet(list) => buf'[l] = <<>> /\ filed'[l] = 0
    BY <1>2, <1>3 DEF Listed
  <1>7. \A l \in Logs : filed[l] + Committed(l) \in Nat BY CommittedNat
  <1> QED BY <1>1, <1>3, <1>4, <1>5, <1>6, <1>7 DEF Growth

\* The buffer is found empty: what is forced is written.
LEMMA EmptyGrowth ==
  ASSUME DataOK, Listed, NEW k \in Logs, NEW force \in BOOLEAN, FoundEmpty(k, force), UNCHANGED list
  PROVE  /\ Growth
         /\ \A l \in Logs : filed'[l] + Committed(l)' = filed[l] + Committed(l)
         /\ \A l \in Logs \ {k} : late'[l] = late[l] /\ written'[l] = written[l]
         /\ force => written'[k] = filed[k] /\ late'[k] = (Committed(k) > 0)
  <1> USE DEF DataOK
  <1>1. /\ late' = [late EXCEPT ![k] = Committed(k) > 0]
        /\ written' = [written EXCEPT ![k] = IF force \/ due[k] THEN filed[k] ELSE @]
        /\ due' = [due EXCEPT ![k] = FALSE]
        /\ UNCHANGED <<buf, filed>>
    BY DEF FoundEmpty
  <1>2. /\ written'[k] = IF force \/ due[k] THEN filed[k] ELSE written[k]
        /\ late'[k] = (Committed(k) > 0)
        /\ \A l \in Logs \ {k} : late'[l] = late[l] /\ written'[l] = written[l]
    BY <1>1
  <1>3. DataOK'
    <2>1. late' \in [Logs -> BOOLEAN] /\ due' \in [Logs -> BOOLEAN] BY <1>1
    <2>2. written' \in [Logs -> Nat] BY <1>1
    <2>3. ASSUME NEW l \in Logs PROVE written'[l] <= filed[l]
      <3>1. written[l] \in Nat /\ filed[l] \in Nat /\ written[l] <= filed[l] OBVIOUS
      <3>2. written'[l] = filed[l] \/ written'[l] = written[l] BY <1>2
      <3> QED BY <3>1, <3>2
    <2> QED BY <1>1, <2>1, <2>2, <2>3
  <1>4. \A l \in Logs : Committed(l)' = Committed(l) BY <1>1 DEF Committed
  <1>5. ASSUME NEW l \in Logs
        PROVE  filed[l] + Committed(l) \in Nat /\ written[l] <= written'[l]
    <2>1. written[l] \in Nat /\ filed[l] \in Nat /\ written[l] <= filed[l] OBVIOUS
    <2>2. written'[l] = filed[l] \/ written'[l] = written[l] BY <1>2
    <2>3. Committed(l) \in Nat BY CommittedNat
    <2> QED BY <2>1, <2>2, <2>3
  <1> QED BY <1>1, <1>2, <1>3, <1>4, <1>5 DEF Growth, Listed

\* Nothing happens to the data.
LEMMA StillGrowth ==
  ASSUME DataOK, Listed, UNCHANGED <<buf, filed, written, late>>, due' \in [Logs -> BOOLEAN],
         ToSet(list) \subseteq ToSet(list')
  PROVE  Growth
  <1>1. \A l \in Logs : filed[l] + Committed(l) \in Nat /\ Committed(l)' = Committed(l)
    BY CommittedNat DEF Committed, DataOK
  <1>2. DataOK' BY DEF DataOK
  <1>3. \A l \in Logs : written[l] \in Nat BY DEF DataOK
  <1> QED BY <1>1, <1>2, <1>3 DEF Growth, Listed
\* The data of one log changes: what has to be shown of it.
LEMMA OneGrows ==
  ASSUME DataOK, Listed, NEW l \in Logs, l \in ToSet(list), UNCHANGED list,
         NEW b \in Seq(Chunk), buf' = [buf EXCEPT ![l] = b],
         NEW f \in Nat, filed' = [filed EXCEPT ![l] = f],
         NEW w \in Nat, written' = [written EXCEPT ![l] = w],
         UNCHANGED <<due, late>>,
         Cardinality(Ready(b)) >= Committed(l), f >= filed[l], f >= w, w >= written[l]
  PROVE  Growth
  <1> USE DEF DataOK
  <1>1. /\ buf'[l] = b /\ filed'[l] = f /\ written'[l] = w
        /\ \A k \in Logs \ {l} : /\ buf'[k] = buf[k] /\ filed'[k] = filed[k]
                                 /\ written'[k] = written[k]
    OBVIOUS
  <1>2. DataOK'
    <2>1. buf' \in [Logs -> Seq(Chunk)] OBVIOUS
    <2>2. filed' \in [Logs -> Nat] /\ written' \in [Logs -> Nat] OBVIOUS
    <2>3. ASSUME NEW k \in Logs PROVE written'[k] <= filed'[k] BY <1>1
    <2> QED BY <2>1, <2>2, <2>3
  <1>3. ASSUME NEW k \in Logs
        PROVE  filed[k] + Committed(k) <= filed'[k] + Committed(k)' /\ written[k] <= written'[k]
    <2>1. /\ filed[k] \in Nat /\ Committed(k) \in Nat /\ written[k] \in Nat
          /\ Cardinality(Ready(b)) \in Nat
      BY CommittedNat, ReadyCount
    <2>2. CASE k # l
      <3>1. Committed(k)' = Committed(k) BY <1>1, <2>2 DEF Committed
      <3> QED BY <1>1, <2>1, <2>2, <3>1
    <2>3. CASE k = l
      <3>1. Committed(k)' = Cardinality(Ready(b)) BY <1>1, <2>3 DEF Committed
      <3> QED BY <1>1, <2>1, <2>3, <3>1
    <2> QED BY <2>2, <2>3
  <1>4. \A k \in Logs : k \notin ToSet(list) => buf'[k] = <<>> /\ filed'[k] = 0
    BY <1>1 DEF Listed
  <1> QED BY <1>2, <1>3, <1>4 DEF Growth

\* The actions of callers and workers that touch the data.
LEMMA CallerGrowth ==
  ASSUME IInv, DataOK, Listed, NEW c \in Callers, StartCall(c) \/ CallerStep(c),
         ToSet(list) \subseteq ToSet(list')
  PROVE  Growth /\ (late' = late \/ pc[c] = "flushing")
  <1> DEFINE l == todo[c][1]
  <1> USE DEF logVars, history
  <1>0. /\ due \in [Logs -> BOOLEAN]
        /\ pc[c] \in {"reset", "reserve", "fill", "sync", "logging"} =>
              l \in Logs /\ l \in ToSet(list)
        /\ pc[c] = "flushing" /\ todo[c] # <<>> => l \in Logs
    BY DEF IInv, OwnWork, DataOK, Listed, Buffered
  <1>1. ASSUME UNCHANGED logVars PROVE Growth /\ late' = late
    BY <1>0, <1>1, StillGrowth
  <1>2. CASE StartCall(c)
    <2>1. UNCHANGED logVars
      BY <1>2 DEF StartCall, CallCreate, CallLog, CallFlush, CallFlushAll, CallUninit, Call
    <2> QED BY <1>1, <2>1
  <1>3. CASE \/ Create(c) \/ SyncLock(c) \/ FlushLock(c) \/ FlushReturn(c)
             \/ UninitRead(c) \/ UninitPhase(c) \/ JoinPublic(c) \/ JoinIndependent(c)
    <2>1. UNCHANGED logVars
      BY <1>3 DEF Create, SyncLock, FlushLock, FlushReturn, UninitRead, UninitPhase,
                  JoinPublic, JoinIndependent
    <2> QED BY <1>1, <2>1
  <1>4. ASSUME l \in Logs
        PROVE  /\ buf[l] \in Seq(Chunk) /\ filed[l] \in Nat /\ written[l] \in Nat
               /\ written[l] <= filed[l] /\ Committed(l) \in Nat
               /\ buf = [buf EXCEPT ![l] = buf[l]]
               /\ filed = [filed EXCEPT ![l] = filed[l]]
               /\ written = [written EXCEPT ![l] = written[l]]
               /\ Cardinality(Ready(buf[l])) = Committed(l)
    BY <1>4, CommittedNat DEF DataOK, Committed
  <1>5. CASE Reset(c)
    <2>1. /\ pc[c] = "reset" /\ written' = [written EXCEPT ![l] = filed[l]]
          /\ UNCHANGED <<list, buf, filed, due, late>>
      BY <1>5 DEF Reset
    <2>2. l \in Logs /\ l \in ToSet(list) BY <1>0, <2>1
    <2> HIDE DEF l
    <2>3. filed[l] >= filed[l] /\ filed[l] >= written[l] /\ Committed(l) >= Committed(l)
      BY <1>4, <2>2
    <2> QED BY <1>4, <2>1, <2>2, <2>3, OneGrows
  <1>6. CASE Reserve(c)
    <2>1. CASE UNCHANGED buf BY <1>1, <1>6, <2>1 DEF Reserve
    <2>2. CASE buf' = [buf EXCEPT ![l] = Append(@, [by |-> c, committed |-> FALSE])]
      <3>1. pc[c] = "reserve" /\ UNCHANGED <<list, filed, written, due, late>>
        BY <1>6 DEF Reserve
      <3>2. l \in Logs /\ l \in ToSet(list) BY <1>0, <3>1
      <3> HIDE DEF l
      <3>3. PICK b \in Seq(Chunk) : /\ b = Append(buf[l], [by |-> c, committed |-> FALSE])
                                    /\ Ready(b) = Ready(buf[l])
        BY <1>4, <3>2, ReadyAppend
      <3>4. buf' = [buf EXCEPT ![l] = b] BY <1>4, <2>2, <3>2, <3>3
      <3>5. /\ Cardinality(Ready(b)) >= Committed(l) /\ filed[l] >= filed[l]
            /\ filed[l] >= written[l] /\ written[l] >= written[l]
        BY <1>4, <3>2, <3>3
      <3> QED BY <1>4, <3>1, <3>2, <3>4, <3>5, OneGrows
    <2> QED BY <1>6, <2>1, <2>2 DEF Reserve
  <1>7. CASE Commit(c)
    <2>1. /\ pc[c] = "fill" /\ UNCHANGED <<list, filed, written, due, late>>
          /\ buf' = [buf EXCEPT ![l] = [i \in DOMAIN @ |->
                  IF @[i].by = c THEN [@[i] EXCEPT !.committed = TRUE] ELSE @[i]]]
      BY <1>7 DEF Commit
    <2>2. l \in Logs /\ l \in ToSet(list) BY <1>0, <2>1
    <2> HIDE DEF l
    <2>3. PICK b \in Seq(Chunk) :
            /\ b = [i \in DOMAIN buf[l] |->
                  IF buf[l][i].by = c THEN [buf[l][i] EXCEPT !.committed = TRUE] ELSE buf[l][i]]
            /\ Cardinality(Ready(b)) >= Cardinality(Ready(buf[l]))
      BY <1>4, <2>2, ReadyCommit
    <2>4. buf' = [buf EXCEPT ![l] = b] BY <1>4, <2>1, <2>2, <2>3
    <2>5. /\ Cardinality(Ready(b)) >= Committed(l) /\ filed[l] >= filed[l]
          /\ filed[l] >= written[l] /\ written[l] >= written[l]
      BY <1>4, <2>2, <2>3
    <2> QED BY <1>4, <2>1, <2>2, <2>4, <2>5, OneGrows
  <1>8. CASE SyncProcess(c)
    <2>1. /\ pc[c] = "logging" /\ UNCHANGED <<list, buf, due, late>>
          /\ filed' = [filed EXCEPT ![l] = @ + 1]
          /\ written' = [written EXCEPT ![l] = filed[l] + 1]
      BY <1>8 DEF SyncProcess
    <2>2. l \in Logs /\ l \in ToSet(list) BY <1>0, <2>1
    <2> HIDE DEF l
    <2>3. PICK f \in Nat : f = filed[l] + 1 BY <1>4, <2>2
    <2>4. filed' = [filed EXCEPT ![l] = f] /\ written' = [written EXCEPT ![l] = f]
      BY <2>1, <2>2, <2>3
    <2>5. Committed(l) >= Committed(l) /\ f >= filed[l] /\ f >= f /\ f >= written[l]
      BY <1>4, <2>2, <2>3
    <2>6. PICK b \in Seq(Chunk) : b = buf[l] BY <1>4, <2>2
    <2>7. buf' = [buf EXCEPT ![l] = b] BY <1>4, <2>1, <2>2, <2>6
    <2>8. UNCHANGED list /\ UNCHANGED <<due, late>> BY <2>1
    <2>9. Cardinality(Ready(b)) >= Committed(l) /\ f >= filed[l] /\ f >= f /\ f >= written[l]
      BY <2>5, <2>6 DEF Committed
    <2> QED BY <1>4, <2>2, <2>4, <2>7, <2>8, <2>9, OneGrows
  <1>9. CASE FlushTake(c)
    <2>1. l \in Logs /\ TakeEntry(l) /\ UNCHANGED list /\ pc[c] = "flushing"
      BY <1>0, <1>9 DEF FlushTake
    <2> QED BY <2>1, TakeGrowth
  <1>10. CASE FlushNext(c)
    <2>1. l \in Logs /\ FoundEmpty(l, TRUE) /\ UNCHANGED list /\ pc[c] = "flushing"
      BY <1>0, <1>10 DEF FlushNext
    <2> QED BY <2>1, EmptyGrowth
  <1> HIDE DEF l
  <1> QED BY <1>2, <1>3, <1>5, <1>6, <1>7, <1>8, <1>9, <1>10 DEF CallerStep

\* A worker only takes and writes, and only while it reads.
LEMMA WorkerGrowth ==
  ASSUME IInv, DataOK, Listed, NEW w \in Workers, WorkerStep(w) \/ Killed(w)
  PROVE  Growth /\ (late' = late \/ pc[w] = "reading") /\ UNCHANGED <<list, owed>>
  <1> USE DEF logVars, history
  <1>0. due \in [Logs -> BOOLEAN] BY DEF DataOK
  <1>1. CASE \/ ProcessBegin(w) \/ ProcessEnd(w) \/ Wake(w) \/ WatchDog(w) \/ Restart(w)
             \/ Killed(w)
    <2>1. UNCHANGED logVars /\ UNCHANGED <<list, owed>>
      BY <1>1 DEF ProcessBegin, ProcessEnd, Wake, WatchDog, Restart, Killed
    <2> QED BY <1>0, <2>1, StillGrowth
  <1>2. ASSUME pc[w] = "reading", todo[w] # <<>> PROVE todo[w][1] \in Logs
    BY <1>2, ManagerAssumption DEF IInv, OwnWork, Serves, Workers, Independent
  <1>3. CASE WorkerTake(w)
    <2>1. /\ TakeEntry(todo[w][1]) /\ UNCHANGED <<list, owed>> /\ pc[w] = "reading"
          /\ todo[w] # <<>>
      BY <1>3 DEF WorkerTake
    <2> QED BY <1>2, <2>1, TakeGrowth
  <1>4. CASE WorkerNext(w)
    <2>1. /\ FoundEmpty(todo[w][1], FALSE) /\ UNCHANGED <<list, owed>> /\ pc[w] = "reading"
          /\ todo[w] # <<>>
      BY <1>4 DEF WorkerNext
    <2> QED BY <1>2, <2>1, EmptyGrowth
  <1> QED BY <1>1, <1>3, <1>4 DEF WorkerStep

\* What is owed to a caller that does not act.
LEMMA PromiseStands ==
  ASSUME FInv, NEW c \in Callers, Growth, ToSet(list) \subseteq ToSet(list'),
         pc'[c] = pc[c], todo'[c] = todo[c], owed'[c] = owed[c],
         late' = late \/ pc[c] # "flushing"
  PROVE  PromiseOf(c)'
  <1> SUFFICES ASSUME NEW l \in Buffered
      PROVE  /\ pc'[c] \in {"flush", "flushing"} => owed'[c][l] <= filed'[l] + Committed(l)'
             /\ pc'[c] = "flush" /\ owed'[c][l] > 0 =>
                   IF todo'[c] = <<>> THEN l \in ToSet(list') ELSE todo'[c] = <<l>>
             /\ pc'[c] = "flushing" =>
                   l \in ToSet(todo'[c]) \/ owed'[c][l] <= written'[l] \/ late'[l]
    BY DEF PromiseOf
  <1>1. l \in Logs BY DEF Buffered
  <1>2. /\ owed[c][l] \in Nat /\ filed[l] \in Nat /\ Committed(l) \in Nat /\ written[l] \in Nat
        /\ filed'[l] \in Nat /\ Committed(l)' \in Nat /\ written'[l] \in Nat
    <2>1. Committed(l)' \in Nat
      <3>1. buf'[l] \in Seq(Chunk) BY <1>1 DEF Growth, DataOK
      <3>2. Cardinality(Ready(buf'[l])) \in Nat BY <3>1, ReadyCount
      <3> QED BY <3>2 DEF Committed
    <2> QED BY <1>1, <2>1, CommittedNat DEF FInv, DataOK, Growth
  <1>3. filed[l] + Committed(l) <= filed'[l] + Committed(l)' /\ written[l] <= written'[l]
    BY <1>1 DEF Growth
  <1>4. owed[c][l] <= filed[l] + Committed(l) => owed[c][l] <= filed'[l] + Committed(l)'
    <2>1. PICK m \in Nat, n \in Nat : m = filed[l] + Committed(l) /\ n = filed'[l] + Committed(l)'
      BY <1>2
    <2> QED BY <1>2, <1>3, <2>1
  <1>5. owed[c][l] <= written[l] => owed[c][l] <= written'[l]
    <2>1. PICK m \in Nat, n \in Nat : m = written[l] /\ n = written'[l] BY <1>2
    <2> QED BY <1>2, <1>3, <2>1
  <1>6. CASE pc[c] = "flush" BY <1>4, <1>6 DEF FInv, PromiseOf
  <1>7. CASE pc[c] = "flushing" BY <1>4, <1>5, <1>7 DEF FInv, PromiseOf
  <1> QED BY <1>6, <1>7
\* The list only grows, and who is about to log has a log that is in it.
LEMMA ListGrows ==
  ASSUME IInv, [Next]_vars
  PROVE  ToSet(list) \subseteq ToSet(list')
  <1>1. list' = list \/ \E l \in Logs : list' = Append(list, l)
    <2>1. ASSUME NEW c \in Callers, Create(c)
          PROVE  list' = list \/ \E l \in Logs : list' = Append(list, l)
      <3>1. todo[c][1] \in Logs BY <2>1 DEF Create, IInv, OwnWork
      <3> QED BY <2>1, <3>1 DEF Create, Return
    <2>2. ASSUME NEW c \in Callers, StartCall(c) PROVE list' = list
      BY <2>2 DEF StartCall, CallCreate, CallLog, CallFlush, CallFlushAll, CallUninit, Call
    <2>3. ASSUME NEW c \in Callers, CallerStep(c), ~Create(c) PROVE list' = list
      BY <2>3 DEF CallerStep, Reset, Reserve, Commit, SyncLock, SyncProcess, FlushLock, FlushTake,
                  FlushNext, FlushReturn, UninitRead, UninitPhase, JoinPublic, JoinIndependent
    <2>4. ASSUME NEW w \in Workers, WorkerStep(w) \/ Killed(w) PROVE list' = list
      BY <2>4 DEF WorkerStep, ProcessBegin, WorkerTake, WorkerNext, ProcessEnd, Wake, WatchDog,
                  Restart, Killed
    <2>5. ASSUME NEW l \in Logs, IntervalPasses(l) PROVE list' = list
      BY <2>5 DEF IntervalPasses
    <2> QED BY <2>1, <2>2, <2>3, <2>4, <2>5 DEF Next, vars
  <1>2. list \in Seq(Logs) BY DEF IInv, TypeOK
  <1>3. ASSUME NEW l \in Logs, list' = Append(list, l) PROVE ToSet(list) \subseteq ToSet(list')
    <2>1. /\ Len(list) \in Nat /\ DOMAIN list = 1..Len(list)
          /\ DOMAIN list' = 1..(Len(list) + 1)
          /\ \A i \in 1..Len(list) : list'[i] = list[i]
      BY <1>2, <1>3
    <2>2. 1..Len(list) \subseteq 1..(Len(list) + 1) BY <2>1
    <2> QED BY <2>1, <2>2 DEF ToSet
  <1> QED BY <1>1, <1>3

Moves(c) == StartCall(c) \/ CallerStep(c)

\* Nobody else moves a caller.
LEMMA OthersStand ==
  ASSUME IInv, owed \in [Callers -> [Logs -> Nat]], [Next]_vars, NEW c \in Callers, ~Moves(c)
  PROVE  pc'[c] = pc[c] /\ todo'[c] = todo[c] /\ owed'[c] = owed[c]
  <1> USE DEF IInv, TypeOK, At, Return, history, logVars
  <1>0. c \in Actors /\ c \notin Logs BY Apart, ManagerAssumption
  <1>1. ASSUME NEW d \in Callers, Moves(d)
        PROVE  pc'[c] = pc[c] /\ todo'[c] = todo[c] /\ owed'[c] = owed[c]
    <2>1. d # c /\ d \in Actors BY <1>1, Apart
    <2>2. CASE StartCall(d)
      BY <1>0, <2>1, <2>2 DEF StartCall, CallCreate, CallLog, CallFlush, CallFlushAll,
                                   CallUninit, Call
    <2>3. CASE Create(d)
      <3>1. todo[d][1] \in Logs BY <2>3 DEF Create, OwnWork
      <3> QED BY <1>0, <2>1, <2>3, <3>1 DEF Create
    <2>4. CASE Reset(d) \/ Reserve(d) \/ Commit(d) \/ SyncLock(d) \/ SyncProcess(d)
      BY <1>0, <2>1, <2>4 DEF Reset, Reserve, Commit, SyncLock, SyncProcess
    <2>5. CASE FlushLock(d) \/ FlushTake(d) \/ FlushNext(d) \/ FlushReturn(d)
      BY <1>0, <2>1, <2>5 DEF FlushLock, FlushTake, FlushNext, FlushReturn
    <2>6. CASE UninitRead(d) \/ UninitPhase(d) \/ JoinPublic(d) \/ JoinIndependent(d)
      BY <1>0, <2>1, <2>6 DEF UninitRead, UninitPhase, JoinPublic, JoinIndependent
    <2> QED BY <1>1, <2>2, <2>3, <2>4, <2>5, <2>6 DEF Moves, CallerStep
  <1>2. ASSUME NEW w \in Workers, WorkerStep(w) \/ Killed(w)
        PROVE  pc'[c] = pc[c] /\ todo'[c] = todo[c] /\ owed'[c] = owed[c]
    <2>1. w # c /\ w \in Actors BY Apart
    <2> QED BY <1>0, <1>2, <2>1 DEF WorkerStep, ProcessBegin, WorkerTake, WorkerNext, ProcessEnd,
                   Wake, WatchDog, Restart, Killed
  <1>3. ASSUME NEW l \in Logs, IntervalPasses(l)
        PROVE  pc'[c] = pc[c] /\ todo'[c] = todo[c] /\ owed'[c] = owed[c]
    BY <1>3 DEF IntervalPasses
  <1>4. CASE UNCHANGED vars BY <1>4 DEF vars
  <1> QED BY <1>1, <1>2, <1>3, <1>4 DEF Next, Moves

\* Who logs does so to a log that is in the list.
LEMMA LoggedIsListed ==
  ASSUME IInv, Listed, owed \in [Callers -> [Logs -> Nat]], [Next]_vars, NEW c \in Callers,
         pc'[c] \in {"reset", "reserve", "fill", "sync", "logging"}
  PROVE  todo'[c][1] \in ToSet(list')
  <1> USE DEF IInv, TypeOK, At, Return, history, logVars
  <1>0. ToSet(list) \subseteq ToSet(list') /\ c \in Actors BY ListGrows, Apart
  <1>1. CASE ~Moves(c)
    <2>1. pc'[c] = pc[c] /\ todo'[c] = todo[c] BY <1>1, OthersStand
    <2> QED BY <1>0, <2>1 DEF Listed
  <1>2. CASE StartCall(c)
    <2>1. \E l \in Logs : CallLog(c, l)
      BY <1>0, <1>2 DEF StartCall, CallCreate, CallFlush, CallFlushAll, CallUninit, Call
    <2> QED BY <1>0, <2>1 DEF CallLog, Call
  <1>3. CASE Create(c)
    <2>1. pc'[c] = "reset" /\ todo[c][1] \in ToSet(list) /\ UNCHANGED todo
      BY <1>0, <1>3 DEF Create
    <2> QED BY <1>0, <2>1
  <1>4. CASE Reset(c) \/ Commit(c) \/ SyncProcess(c)
    BY <1>0, <1>4 DEF Reset, Commit, SyncProcess
  <1>5. CASE Reserve(c)
    <2>1. pc[c] = "reserve" /\ UNCHANGED todo BY <1>0, <1>5 DEF Reserve
    <2> QED BY <1>0, <2>1 DEF Listed
  <1>6. CASE SyncLock(c)
    <2>1. pc[c] = "sync" /\ UNCHANGED todo BY <1>6 DEF SyncLock
    <2> QED BY <1>0, <2>1 DEF Listed
  <1>7. CASE FlushLock(c) \/ FlushTake(c) \/ FlushNext(c) \/ FlushReturn(c)
    BY <1>0, <1>7 DEF FlushLock, FlushTake, FlushNext, FlushReturn
  <1>8. CASE UninitRead(c) \/ UninitPhase(c) \/ JoinPublic(c) \/ JoinIndependent(c)
    BY <1>0, <1>8 DEF UninitRead, UninitPhase, JoinPublic, JoinIndependent
  <1> QED BY <1>1, <1>2, <1>3, <1>4, <1>5, <1>6, <1>7, <1>8 DEF Moves, CallerStep

\* What is left of a list has all of S that was in it.
LEMMA OnwardKeeps ==
  ASSUME NEW s \in Seq(Logs), NEW S, NEW t \in Onward(s, S)
  PROVE  ToSet(s) \cap S \subseteq ToSet(t)
  <1>1. PICK k \in 1..(Len(s) + 1) : /\ \A i \in 1..(k - 1) : s[i] \notin S
                                    /\ t = SubSeq(s, k, Len(s))
    BY DEF Onward
  <1>2. Len(s) \in Nat /\ DOMAIN s = 1..Len(s) OBVIOUS
  <1> SUFFICES ASSUME NEW i \in 1..Len(s), s[i] \in S PROVE s[i] \in ToSet(t)
    BY <1>2 DEF ToSet
  <1>3. k <= i /\ k \in 1..Len(s) BY <1>1, <1>2
  <1>4. Len(t) = Len(s) - k + 1 /\ DOMAIN t = 1..Len(t) BY <1>1, <1>2, <1>3
  <1>5. i - k + 1 \in 1..Len(t) /\ k + (i - k + 1) - 1 = i BY <1>2, <1>3, <1>4
  <1>6. t[i - k + 1] = s[k + (i - k + 1) - 1] BY <1>1, <1>2, <1>3, <1>4, <1>5
  <1> QED BY <1>4, <1>5, <1>6 DEF ToSet

\* What is left behind the head has all but the head.
LEMMA TailKeeps ==
  ASSUME NEW s \in Seq(Logs), s # <<>>
  PROVE  /\ Tail(s) \in Seq(Logs)
         /\ ToSet(s) \subseteq ToSet(Tail(s)) \cup {s[1]}
  <1>1. /\ Len(s) \in Nat \ {0} /\ DOMAIN s = 1..Len(s) /\ Tail(s) \in Seq(Logs)
        /\ DOMAIN Tail(s) = 1..(Len(s) - 1)
        /\ \A i \in 1..(Len(s) - 1) : Tail(s)[i] = s[i + 1]
    OBVIOUS
  <1>2. ASSUME NEW i \in 1..Len(s), i # 1 PROVE s[i] \in ToSet(Tail(s))
    <2>1. i - 1 \in 1..(Len(s) - 1) /\ (i - 1) + 1 = i BY <1>1, <1>2
    <2>2. Tail(s)[i - 1] = s[i] BY <1>1, <2>1
    <2> QED BY <1>1, <2>1, <2>2 DEF ToSet
  <1> QED BY <1>1, <1>2 DEF ToSet

\* What is owed to the caller that acts.
LEMMA PromiseMade ==
  ASSUME FInv, [Next]_vars, NEW c \in Callers, Moves(c), Growth
  PROVE  PromiseOf(c)' /\ owed' \in [Callers -> [Logs -> Nat]]
  <1> USE DEF FInv, IInv, TypeOK, At, Return, history, logVars
  <1>0. /\ c \in Actors /\ todo[c] \in Seq(Logs) /\ list \in Seq(Logs) /\ Buffered \subseteq Logs
        /\ ToSet(list) \subseteq ToSet(list')
    BY Apart, ListGrows DEF Buffered
  <1>1. ASSUME NEW l \in Logs
        PROVE  /\ owed[c][l] \in Nat /\ filed[l] \in Nat /\ written[l] \in Nat
               /\ Committed(l) \in Nat /\ filed[l] + Committed(l) \in Nat
               /\ filed'[l] \in Nat /\ written'[l] \in Nat
    BY CommittedNat DEF DataOK, Growth
  <1>2. CASE StartCall(c)
    <2>1. CASE \E l \in Logs : CallCreate(c, l) \/ CallLog(c, l)
      <3>1. pc'[c] \in {"create", "sync", "reserve"} /\ UNCHANGED owed
        BY <1>0, <2>1 DEF CallCreate, CallLog, Call
      <3> QED BY <3>1 DEF PromiseOf
    <2>2. CASE CallUninit(c)
      <3>1. pc'[c] = "uninit" /\ UNCHANGED owed BY <1>0, <2>2 DEF CallUninit, Call
      <3> QED BY <3>1 DEF PromiseOf
    <2>3. ASSUME NEW k \in Logs, CallFlush(c, k)
          PROVE  PromiseOf(c)' /\ owed' \in [Callers -> [Logs -> Nat]]
      <3>1. /\ pc'[c] = "flush" /\ todo'[c] = <<k>> /\ UNCHANGED <<buf, filed>>
            /\ owed' = [owed EXCEPT ![c] =
                          [l \in Logs |-> IF l = k THEN filed[l] + Committed(l) ELSE 0]]
        BY <1>0, <2>3 DEF CallFlush, Call
      <3>2. owed' \in [Callers -> [Logs -> Nat]] BY <1>1, <3>1
      <3>3. ASSUME NEW l \in Buffered
            PROVE  /\ owed'[c][l] <= filed'[l] + Committed(l)'
                   /\ owed'[c][l] > 0 => todo'[c] = <<l>> /\ todo'[c] # <<>>
        <4>1. owed'[c][l] = IF l = k THEN filed[l] + Committed(l) ELSE 0 BY <1>0, <3>1
        <4>2. filed'[l] + Committed(l)' = filed[l] + Committed(l) BY <3>1 DEF Committed
        <4>3. filed[l] + Committed(l) \in Nat BY <1>0, <1>1
        <4> QED BY <3>1, <4>1, <4>2, <4>3
      <3> QED BY <3>1, <3>2, <3>3 DEF PromiseOf
    <2>4. CASE CallFlushAll(c)
      <3>1. /\ pc'[c] = "flush" /\ todo'[c] = <<>> /\ UNCHANGED <<buf, filed, list>>
            /\ owed' = [owed EXCEPT ![c] = [l \in Logs |-> filed[l] + Committed(l)]]
        BY <1>0, <2>4 DEF CallFlushAll, Call
      <3>2. owed' \in [Callers -> [Logs -> Nat]] BY <1>1, <3>1
      <3>3. ASSUME NEW l \in Buffered
            PROVE  /\ owed'[c][l] <= filed'[l] + Committed(l)'
                   /\ owed'[c][l] > 0 => l \in ToSet(list')
        <4>1. owed'[c][l] = filed[l] + Committed(l) BY <1>0, <3>1
        <4>2. filed'[l] + Committed(l)' = filed[l] + Committed(l) BY <3>1 DEF Committed
        <4>3. filed[l] + Committed(l) \in Nat BY <1>0, <1>1
        <4>4. l \notin ToSet(list) => filed[l] = 0 /\ Committed(l) = 0
          BY <1>0, CommittedNat DEF Listed
        <4>5. l \notin ToSet(list) => filed[l] + Committed(l) = 0 BY <4>4
        <4>6. owed'[c][l] <= filed'[l] + Committed(l)' BY <4>1, <4>2, <4>3
        <4> QED BY <3>1, <4>1, <4>5, <4>6
      <3> QED BY <3>1, <3>2, <3>3 DEF PromiseOf
    <2> QED BY <1>2, <2>1, <2>2, <2>3, <2>4 DEF StartCall
  <1>3. CASE Create(c) \/ Reset(c) \/ Reserve(c) \/ Commit(c) \/ SyncLock(c) \/ SyncProcess(c)
    <2>1. pc'[c] \notin {"flush", "flushing"} /\ UNCHANGED owed
      BY <1>0, <1>3 DEF Create, Reset, Reserve, Commit, SyncLock, SyncProcess
    <2> QED BY <2>1 DEF PromiseOf
  <1>4. CASE UninitRead(c) \/ UninitPhase(c) \/ JoinPublic(c) \/ JoinIndependent(c)
    <2>1. pc'[c] \notin {"flush", "flushing"} /\ UNCHANGED owed
      BY <1>0, <1>4 DEF UninitRead, UninitPhase, JoinPublic, JoinIndependent
    <2> QED BY <2>1 DEF PromiseOf
  <1>5. CASE FlushLock(c)
    <2>1. /\ pc[c] = "flush" /\ pc'[c] = "flushing" /\ UNCHANGED <<owed, buf, filed>>
          /\ todo' = [todo EXCEPT ![c] = todo'[c]]
          /\ todo'[c] \in Onward(IF todo[c] # <<>> THEN todo[c] ELSE list, Buffered)
      BY <1>0, <1>5 DEF FlushLock
    <2>2. PICK s \in Seq(Logs) : s = IF todo[c] # <<>> THEN todo[c] ELSE list BY <1>0
    <2>3. PICK t \in Onward(s, Buffered) : t = todo'[c] BY <2>1, <2>2
    <2>4. ToSet(s) \cap Buffered \subseteq ToSet(t) BY OnwardKeeps
    <2>5. ASSUME NEW l \in Buffered
          PROVE  /\ owed'[c][l] <= filed'[l] + Committed(l)'
                 /\ l \in ToSet(t) \/ owed'[c][l] <= written'[l]
      <3>0. /\ owed[c][l] <= filed[l] + Committed(l)
            /\ filed'[l] + Committed(l)' = filed[l] + Committed(l)
        BY <2>1 DEF PromiseOf, Committed
      <3>1. CASE owed[c][l] = 0
        <4>1. written'[l] \in Nat BY <1>0, <1>1
        <4> QED BY <2>1, <3>0, <3>1, <4>1
      <3>2. CASE owed[c][l] > 0
        <4>1. l \in ToSet(s)
          <5>1. CASE todo[c] = <<>> BY <2>1, <2>2, <3>2, <5>1 DEF PromiseOf
          <5>2. CASE todo[c] # <<>>
            <6>1. s = <<l>> BY <2>1, <2>2, <3>2, <5>2 DEF PromiseOf
            <6> QED BY <6>1 DEF ToSet
          <5> QED BY <5>1, <5>2
        <4> QED BY <2>1, <2>4, <3>0, <4>1
      <3>3. owed[c][l] \in Nat BY <1>0, <1>1
      <3> QED BY <3>1, <3>2, <3>3
    <2> QED BY <2>1, <2>3, <2>5 DEF PromiseOf
  <1>6. CASE FlushTake(c)
    <2>1. /\ pc[c] = "flushing" /\ todo[c] # <<>> /\ TakeEntry(todo[c][1])
          /\ UNCHANGED <<owed, pc, todo, list>>
      BY <1>6 DEF FlushTake
    <2>2. PICK k \in Logs : k = todo[c][1] BY <2>1 DEF OwnWork, Buffered
    <2>3. /\ \A l \in Logs : filed'[l] + Committed(l)' = filed[l] + Committed(l)
          /\ \A l \in Logs \ {k} : late'[l] = late[l]
          /\ written' = written
      BY <2>1, <2>2, TakeGrowth
    <2>4. k \in ToSet(todo[c])
      <3>1. Len(todo[c]) \in Nat \ {0} /\ DOMAIN todo[c] = 1..Len(todo[c]) BY <1>0, <2>1
      <3>2. 1 \in DOMAIN todo[c] BY <3>1
      <3> QED BY <2>2, <3>2 DEF ToSet
    <2>5. ASSUME NEW l \in Buffered
          PROVE  /\ owed'[c][l] <= filed'[l] + Committed(l)'
                 /\ l \in ToSet(todo[c]) \/ owed'[c][l] <= written'[l] \/ late'[l]
      <3>1. /\ filed'[l] + Committed(l)' = filed[l] + Committed(l)
            /\ l # k => late'[l] = late[l]
            /\ written'[l] = written[l] /\ owed'[c][l] = owed[c][l]
        BY <1>0, <2>1, <2>3
      <3>2. owed[c][l] <= filed[l] + Committed(l) BY <2>1 DEF PromiseOf
      <3>3. l \in ToSet(todo[c]) \/ owed[c][l] <= written[l] \/ late[l] BY <2>1 DEF PromiseOf
      <3> QED BY <2>4, <3>1, <3>2, <3>3
    <2> QED BY <2>1, <2>5 DEF PromiseOf
  <1>7. CASE FlushNext(c)
    <2>1. /\ pc[c] = "flushing" /\ todo[c] # <<>> /\ FoundEmpty(todo[c][1], TRUE)
          /\ UNCHANGED <<owed, pc, list>>
          /\ todo'[c] \in Onward(Tail(todo[c]), Buffered)
      BY <1>0, <1>7 DEF FlushNext
    <2>2. PICK k \in Logs : k = todo[c][1] BY <2>1 DEF OwnWork, Buffered
    <2>3. /\ \A l \in Logs : filed'[l] + Committed(l)' = filed[l] + Committed(l)
          /\ \A l \in Logs \ {k} : late'[l] = late[l] /\ written'[l] = written[l]
          /\ written'[k] = filed[k] /\ late'[k] = (Committed(k) > 0)
      BY <2>1, <2>2, EmptyGrowth
    <2>4. /\ Tail(todo[c]) \in Seq(Logs)
          /\ ToSet(todo[c]) \subseteq ToSet(Tail(todo[c])) \cup {k}
      BY <1>0, <2>1, <2>2, TailKeeps
    <2>5. PICK s \in Seq(Logs) : s = Tail(todo[c]) BY <2>4
    <2>6. PICK t \in Onward(s, Buffered) : t = todo'[c] BY <2>1, <2>5
    <2>7. ToSet(s) \cap Buffered \subseteq ToSet(t) BY OnwardKeeps
    <2>8. ASSUME NEW l \in Buffered
          PROVE  /\ owed'[c][l] <= filed'[l] + Committed(l)'
                 /\ l \in ToSet(t) \/ owed'[c][l] <= written'[l] \/ late'[l]
      <3>1. /\ filed'[l] + Committed(l)' = filed[l] + Committed(l)
            /\ l # k => late'[l] = late[l] /\ written'[l] = written[l]
            /\ owed'[c][l] = owed[c][l]
        BY <1>0, <2>1, <2>3
      <3>2. owed[c][l] <= filed[l] + Committed(l) BY <2>1 DEF PromiseOf
      <3>3. l \in ToSet(todo[c]) \/ owed[c][l] <= written[l] \/ late[l] BY <2>1 DEF PromiseOf
      <3>4. CASE l # k
        <4>1. l \in ToSet(todo[c]) => l \in ToSet(t) BY <2>4, <2>5, <2>7, <3>4
        <4> QED BY <3>1, <3>2, <3>3, <3>4, <4>1
      <3>5. CASE l = k
        <4>1. Committed(l) \in Nat /\ filed[l] \in Nat /\ owed[c][l] \in Nat BY <1>0, <1>1
        <4>2. late'[l] \/ Committed(l) = 0
          <5>1. late'[l] = (Committed(l) > 0) BY <2>3, <3>5
          <5>2. Committed(l) # 0 => Committed(l) > 0 BY <4>1
          <5> QED BY <5>1, <5>2
        <4>3. Committed(l) = 0 => owed[c][l] <= filed[l] BY <3>2, <4>1
        <4> QED BY <2>3, <3>1, <3>2, <3>5, <4>2, <4>3
      <3> QED BY <3>4, <3>5
    <2> QED BY <2>1, <2>6, <2>8 DEF PromiseOf
  <1>8. CASE FlushReturn(c)
    <2>1. pc'[c] = "idle" /\ owed' = [owed EXCEPT ![c] = [l \in Logs |-> 0]]
      BY <1>0, <1>8 DEF FlushReturn
    <2>2. [l \in Logs |-> 0] \in [Logs -> Nat] OBVIOUS
    <2> QED BY <2>1, <2>2 DEF PromiseOf
  <1> QED BY <1>2, <1>3, <1>4, <1>5, <1>6, <1>7, <1>8 DEF Moves, CallerStep

------------------------------------------------------------------------------
\* Nothing is owed at the start.
LEMMA FlushInit == Init => FInv
  <1> SUFFICES ASSUME Init PROVE FInv OBVIOUS
  <1>1. IInv BY InitSound
  <1>2. DataOK
    <2>1. <<>> \in Seq(Chunk) OBVIOUS
    <2> QED BY <2>1 DEF DataOK, Init
  <1>3. \A c \in Callers : c \in Actors /\ pc[c] = "idle" BY Apart DEF Init
  <1>4. Listed BY <1>3 DEF Listed, Init
  <1>5. \A c \in Callers : PromiseOf(c) BY <1>3 DEF PromiseOf
  <1>6. owed \in [Callers -> [Logs -> Nat]] BY DEF Init
  <1> QED BY <1>1, <1>2, <1>4, <1>5, <1>6 DEF FInv

\* Each step keeps what is owed within reach.
LEMMA FlushInductive == FInv /\ [Next]_vars => FInv'
  <1> SUFFICES ASSUME FInv, [Next]_vars PROVE FInv' OBVIOUS
  <1> USE DEF FInv
  <1>1. IInv' BY Inductive
  <1>2. ToSet(list) \subseteq ToSet(list') BY ListGrows
  <1>3. /\ Growth
        /\ \/ late' = late
           \/ \E c \in Callers : Moves(c) /\ pc[c] = "flushing"
           \/ \E w \in Workers : pc[w] = "reading"
        /\ \/ owed' = owed
           \/ \E c \in Callers : Moves(c)
    <2>1. ASSUME NEW c \in Callers, Moves(c) PROVE Growth /\ (late' = late \/ pc[c] = "flushing")
      BY <1>2, <2>1, CallerGrowth DEF Moves
    <2>2. ASSUME NEW w \in Workers, WorkerStep(w) \/ Killed(w)
          PROVE  Growth /\ (late' = late \/ pc[w] = "reading") /\ owed' = owed
      BY <2>2, WorkerGrowth
    <2>3. ASSUME NEW l \in Logs, IntervalPasses(l) PROVE Growth /\ late' = late /\ owed' = owed
      <3>1. due' \in [Logs -> BOOLEAN] BY <2>3 DEF IntervalPasses, DataOK
      <3>2. UNCHANGED <<buf, filed, written, late, owed>> BY <2>3 DEF IntervalPasses, history
      <3> QED BY <1>2, <3>1, <3>2, StillGrowth
    <2>4. CASE UNCHANGED vars
      <3>1. UNCHANGED <<buf, filed, written, late, due, owed>> BY <2>4 DEF vars
      <3>2. due' \in [Logs -> BOOLEAN] BY <3>1 DEF DataOK
      <3> QED BY <1>2, <3>1, <3>2, StillGrowth
    <2> QED BY <2>1, <2>2, <2>3, <2>4 DEF Next, Moves
  <1>4. DataOK' BY <1>3 DEF Growth
  <1>5. Listed' BY <1>3, LoggedIsListed DEF Listed, Growth
  <1>6. owed' \in [Callers -> [Logs -> Nat]] BY <1>3, PromiseMade
  <1>7. ASSUME NEW c \in Callers PROVE PromiseOf(c)'
    <2>1. CASE Moves(c) BY <1>3, <2>1, PromiseMade
    <2>2. CASE ~Moves(c)
      <3>1. pc'[c] = pc[c] /\ todo'[c] = todo[c] /\ owed'[c] = owed[c] BY <2>2, OthersStand
      <3>2. late' = late \/ pc[c] # "flushing"
        <4> SUFFICES ASSUME pc[c] = "flushing", late' # late PROVE FALSE OBVIOUS
        <4>1. c \in HoldsWrite BY Apart DEF HoldsWrite
        <4>2. PICK a \in Actors : a # c /\ pc[a] \in {"flushing", "reading"}
          BY <1>3, <2>2, Apart
        <4>3. a \in HoldsWrite \cup HoldsRead BY <4>2 DEF HoldsWrite, HoldsRead
        <4> QED BY <4>1, <4>2, <4>3 DEF IInv, LockExcludes
      <3> QED BY <1>2, <1>3, <3>1, <3>2, PromiseStands
    <2> QED BY <2>1, <2>2
  <1> QED BY <1>1, <1>4, <1>5, <1>6, <1>7

\* force_flush and force_flush_all write all that was committed when they were
\* called, except behind a chunk that is not committed and after one wrong
\* answer "empty" of the buffer, whatever workers and other callers do.
THEOREM FlushKept == Spec => FlushKeepsItsWord
  <1>1. FInv /\ [Next]_vars =>
          [\A c \in Callers : FlushReturn(c) =>
              \A l \in Buffered : owed[c][l] > written[l] => late[l]]_vars
    <2> SUFFICES ASSUME FInv, NEW c \in Callers, FlushReturn(c), NEW l \in Buffered,
                        owed[c][l] > written[l]
                 PROVE  late[l]
      OBVIOUS
    <2>1. pc[c] = "flushing" /\ todo[c] = <<>> BY DEF FlushReturn
    <2>2. l \notin ToSet(todo[c]) BY <2>1 DEF ToSet
    <2>3. owed[c][l] \in Nat /\ written[l] \in Nat BY DEF FInv, DataOK, Buffered
    <2>4. l \in ToSet(todo[c]) \/ owed[c][l] <= written[l] \/ late[l]
      BY <2>1 DEF FInv, PromiseOf
    <2> QED BY <2>2, <2>3, <2>4
  <1> QED BY <1>1, FlushInit, FlushInductive, PTL DEF Spec, FlushKeepsItsWord
=============================================================================
