-------------------------- MODULE OversizeBuffers --------------------------
(***************************************************************************)
(* Records that are too large for a ring or a block, and what becomes of   *)
(* everything when the process dies (log_buffer.cpp).                      *)
(*                                                                         *)
(* A large record lies in a temporary buffer of its thread, made when it   *)
(* is needed and recycled by the reader when it is idle and empty; a small *)
(* "parent" in the shared ring refers to it by version and sequence        *)
(* number.  With recovery on, the ring and the temporary buffers are       *)
(* mapped files.  Each process counts a version on, and the reader goes    *)
(* through the versions before its own first, by the records that the      *)
(* constructor has made of what it found.                                  *)
(*                                                                         *)
(* The ring is ReservationQueue with the recovery rule of MisoRingCrash:   *)
(* what is behind the first unfinished reservation is lost.  Blocks are    *)
(* left out, so a thread's numbers are in order in the ring.  A thread is  *)
(* named by the address of its log_tls_buffer_info: threads of different   *)
(* processes may have the same.  array_lock_ makes each search, and each   *)
(* pass of the recycler, one step; buffer_lock_ is held by whoever has an  *)
(* unfinished chunk in the buffer.                                         *)
(***************************************************************************)
EXTENDS Integers, Sequences, FiniteSets, Functions, SequencesExt

CONSTANTS
    Threads,
    Slots,       \* bound: the temporary buffers that exist at a time
    Room,        \* how many chunks fit into one
    Span,        \* MAX_RECOVERY_VERSION_RANGE
    V,           \* versions are counted modulo V (2^16)
    MaxRecords,  \* bound: how many records are logged
    MaxDeaths,   \* bound: how often the process dies
    None

Version == 0..(V - 1)
Items == [ver : Version, t : Threads, seq : Nat, ref : BOOLEAN, id : Nat, done : BOOLEAN]
Chunks == [ver : Version, t : Threads, seq : Nat, id : Nat, done : BOOLEAN]
Buffers == [ver : Version, t : Threads, chunks : Seq(Chunks)]

ASSUME OversizeAssumption ==
    /\ Room \in Nat \ {0} /\ Span \in Nat \ {0} /\ V \in Nat /\ V > 2 * Span + 1
    /\ MaxRecords \in Nat /\ MaxDeaths \in Nat
    /\ None \notin Slots \cup Buffers

VARIABLES
    version,    \* version_
    ring,       \* lp_buffer_
    bufs,       \* temprorary_oversize_buffer_.buffers_array_
    pc,         \* where each thread is
    filling,    \* oversize_target_buffer_ of each thread
    writeSeq,   \* current_write_seq_
    readSeq,    \* current_read_seq_
    reading,    \* current_reading_.version_
    records,    \* recovery_records_: the next number of a thread of an old version
    target,     \* rt_oversize_target_buffer_ of the reader
    rpc,        \* where the reader is
    out,        \* what the reader has handed out: history
    whole,      \* the records that were committed: history
    born,       \* which process logged each record: history
    deaths

threadVars == <<pc, filling, writeSeq, whole, born>>
readerVars == <<readSeq, reading, records, target, rpc, out>>
vars == <<version, ring, bufs, threadVars, readerVars, deaths>>

Buffer(t) == [ver |-> version, t |-> t, chunks |-> <<>>]
Live == {s \in Slots : bufs[s] # None}
Unfinished(b) == b.chunks # <<>> /\ ~Last(b.chunks).done

\* One thread at a time writes to a buffer, so only the last chunk may be
\* unfinished, and the reader does not see it.
Finished(b) == IF Unfinished(b) THEN Front(b.chunks) ELSE b.chunks

Init ==
    /\ version = V - 1      \* the count wraps at the first death
    /\ ring = <<>>
    /\ bufs = [s \in Slots |-> None]
    /\ pc = [t \in Threads |-> "idle"]
    /\ filling = [t \in Threads |-> None]
    /\ writeSeq = [t \in Threads |-> 0]
    /\ readSeq = [t \in Threads |-> 0]
    /\ reading = V - 1 - Span
    /\ records = <<>>
    /\ target = None
    /\ rpc = "idle"
    /\ out = <<>>
    /\ whole = {}
    /\ born = <<>>
    /\ deaths = 0

------------------------------------------------------------------------------
(* The threads that log. *)

Goto(t, p) == pc' = [pc EXCEPT ![t] = p]
Mine(t) == CHOOSE i \in DOMAIN ring : ring[i].t = t /\ ~ring[i].done

(* A place in the ring, for a small record or as the parent of a large one. *)
Reserve(t, big) ==
    /\ pc[t] = "idle" /\ Len(born) < MaxRecords
    /\ ring' = Append(ring, [ver |-> version, t |-> t, seq |-> writeSeq[t], ref |-> big,
                             id |-> Len(born) + 1, done |-> FALSE])
    /\ writeSeq' = [writeSeq EXCEPT ![t] = @ + 1]
    /\ born' = Append(born, deaths)
    /\ Goto(t, IF big THEN "seek" ELSE "commit")
    /\ UNCHANGED <<version, bufs, filling, whole, readerVars, deaths>>

Place(t, s, b) ==
    /\ bufs' = [bufs EXCEPT ![s] = [b EXCEPT !.chunks = Append(@,
                   [ver |-> version, t |-> t, seq |-> ring[Mine(t)].seq,
                    id |-> ring[Mine(t)].id, done |-> FALSE])]]
    /\ filling' = [filling EXCEPT ![t] = s]

OwnWithRoom(t) ==
    {s \in Live : bufs[s].ver = version /\ bufs[s].t = t /\ Len(bufs[s].chunks) < Room}

(* One of the thread's buffers has room, or a new one is made.             *)
Seek(t) ==
    /\ pc[t] = "seek"
    /\ \/ \E s \in OwnWithRoom(t) : Place(t, s, bufs[s])
       \/ /\ OwnWithRoom(t) = {}
          /\ \E s \in Slots \ Live : Place(t, s, Buffer(t))
    /\ Goto(t, "fill")
    /\ UNCHANGED <<version, ring, writeSeq, whole, born, readerVars, deaths>>

(* Mutant: the number is not taken back.                                   *)
SeekFailsKeepsNumber(t) ==
    /\ pc[t] = "seek" /\ OwnWithRoom(t) = {}
    /\ ring' = [ring EXCEPT ![Mine(t)].ver = (version + 1) % V, ![Mine(t)].done = TRUE]
    /\ Goto(t, "idle")
    /\ UNCHANGED <<version, bufs, filling, writeSeq, whole, born, readerVars, deaths>>

(* No buffer can be made (no memory, no room on the disk): the number is   *)
(* taken back and the parent committed with a version no reader accepts.   *)
SeekFails(t) ==
    /\ pc[t] = "seek" /\ OwnWithRoom(t) = {}
    /\ writeSeq' = [writeSeq EXCEPT ![t] = @ - 1]
    /\ ring' = [ring EXCEPT ![Mine(t)].ver = (version + 1) % V, ![Mine(t)].done = TRUE]
    /\ Goto(t, "idle")
    /\ UNCHANGED <<version, bufs, filling, whole, born, readerVars, deaths>>

(* Mutant: the parent is committed before the chunk is.                    *)
CommitChunkLast(t) ==
    /\ pc[t] = "fill"
    /\ ring' = [ring EXCEPT ![Mine(t)].done = TRUE]
    /\ Goto(t, "idle")
    /\ UNCHANGED <<version, bufs, filling, writeSeq, whole, born, readerVars, deaths>>

(* wt_commit_oversize_write_chunk: the chunk, then its parent.             *)
CommitChunk(t) ==
    LET b == bufs[filling[t]] IN
    /\ pc[t] = "fill"
    /\ bufs' = [bufs EXCEPT ![filling[t]].chunks[Len(b.chunks)].done = TRUE]
    /\ filling' = [filling EXCEPT ![t] = None]
    /\ Goto(t, "commit")
    /\ UNCHANGED <<version, ring, writeSeq, whole, born, readerVars, deaths>>

Commit(t) ==
    /\ pc[t] = "commit"
    /\ ring' = [ring EXCEPT ![Mine(t)].done = TRUE]
    /\ whole' = whole \cup {ring[Mine(t)].id}
    /\ Goto(t, "idle")
    /\ UNCHANGED <<version, bufs, filling, writeSeq, born, readerVars, deaths>>

------------------------------------------------------------------------------
(* What the reader thinks of a chunk. *)

Age(v) == (version - v) % V
VersionValid(v) == Age(v) <= Age(reading)

Known(c) == <<c.ver, c.t>> \in DOMAIN records
Expected(c) == IF c.ver = version THEN readSeq[c.t] ELSE records[<<c.ver, c.t>>]

(* verify_context.  Asked about a thread of an old version of which there  *)
(* is no record it compares with what lies behind the end of the map.      *)
Verdicts(c) ==
    IF c.ver = reading
    THEN IF c.ver # version /\ ~Known(c) THEN {"valid", "pending", "invalid"}
         ELSE IF c.seq = Expected(c) THEN {"valid"}
         ELSE IF c.seq < Expected(c) THEN {"invalid"} ELSE {"pending"}
    ELSE IF VersionValid(c.ver) THEN {"pending"} ELSE {"invalid"}

(* verify_oversize_context: here versions are compared as plain numbers.   *)
Stale(parent, c) ==
    \/ parent.ver = c.ver /\ c.seq < parent.seq
    \/ parent.ver > c.ver
    \/ parent.ver < c.ver /\ ~VersionValid(c.ver)

(* Mutant: whatever is first in a buffer of the thread.                    *)
MatchesByVersion(parent, c) == parent.ver = c.ver

Matches(parent, c) == parent.ver = c.ver /\ parent.seq = c.seq

(* deregister_seq                                                          *)
Deregister(c) ==
    IF c.ver = version
    THEN readSeq' = [readSeq EXCEPT ![c.t] = @ + 1] /\ UNCHANGED records
    ELSE records' = [records EXCEPT ![<<c.ver, c.t>>] = @ + 1] /\ UNCHANGED readSeq

------------------------------------------------------------------------------
(* The reader. *)

HasHead == ring # <<>> /\ Head(ring).done
HeadIs(verdict) == HasHead /\ verdict \in Verdicts(Head(ring))

Begin ==
    /\ rpc = "idle"
    /\ rpc' = "ring"
    /\ UNCHANGED <<version, ring, bufs, threadVars, readSeq, reading, records, target, out, deaths>>

HandOut(c) == out' = Append(out, [id |-> c.id, parent |-> Head(ring).id, t |-> c.t, life |-> deaths])

ReadSmall ==
    /\ rpc = "ring" /\ HeadIs("valid") /\ ~Head(ring).ref
    /\ HandOut(Head(ring))
    /\ rpc' = "small"
    /\ UNCHANGED <<version, ring, bufs, threadVars, readSeq, reading, records, target, deaths>>

(* rt_read_oversize_chunk.  In each buffer with the parent's version and   *)
(* thread, chunks that are overdue are dropped until one fits or is early. *)
Searched(parent) ==
    {s \in Live : bufs[s].ver = parent.ver /\ bufs[s].t = parent.t}
Cut(parent, s) ==
    LET cs   == bufs[s].chunks
        good == {n \in DOMAIN cs : ~cs[n].done \/ ~Stale(parent, cs[n])}
    IN  IF good = {} THEN <<>> ELSE SubSeq(cs, CHOOSE n \in good : \A m \in good : n <= m, Len(cs))
Found(parent) ==
    {s \in Searched(parent) : LET cs == Cut(parent, s)
                              IN cs # <<>> /\ Head(cs).done /\ Matches(parent, Head(cs))}

ReadBig ==
    LET parent == Head(ring) IN
    /\ rpc = "ring" /\ HeadIs("valid") /\ parent.ref
    /\ \E s \in Found(parent), seen \in SUBSET Searched(parent) :
        /\ s \in seen
        /\ bufs' = [z \in Slots |-> IF z \in seen THEN [bufs[z] EXCEPT !.chunks = Cut(parent, z)]
                                    ELSE bufs[z]]
        /\ HandOut(Head(Cut(parent, s)))
        /\ target' = s
    /\ rpc' = "big"
    /\ UNCHANGED <<version, ring, threadVars, readSeq, reading, records, deaths>>

(* "over size data losing detected": the parent goes alone.                *)
ReadMissing ==
    LET parent == Head(ring) IN
    /\ rpc = "ring" /\ HeadIs("valid") /\ parent.ref /\ Found(parent) = {}
    /\ bufs' = [z \in Slots |-> IF z \in Searched(parent)
                                THEN [bufs[z] EXCEPT !.chunks = Cut(parent, z)] ELSE bufs[z]]
    /\ Deregister(parent)
    /\ ring' = Tail(ring)
    /\ UNCHANGED <<version, threadVars, reading, target, rpc, out, deaths>>

DropInvalid ==
    /\ rpc = "ring" /\ HeadIs("invalid")
    /\ ring' = Tail(ring)
    /\ UNCHANGED <<version, bufs, threadVars, readerVars, deaths>>

LeaveRing ==
    /\ rpc = "ring" /\ (~HasHead \/ HeadIs("pending"))
    /\ rpc' = "recycle"
    /\ UNCHANGED <<version, ring, bufs, threadVars, readSeq, reading, records, target, out, deaths>>

ReturnSmall ==
    /\ rpc = "small"
    /\ Deregister(Head(ring))
    /\ ring' = Tail(ring)
    /\ rpc' = "idle"
    /\ UNCHANGED <<version, bufs, threadVars, reading, target, out, deaths>>

(* rt_return_oversize_read_chunk: the chunk, then its parent.              *)
ReturnBig ==
    /\ rpc = "big"
    /\ Deregister(Head(bufs[target].chunks))
    /\ bufs' = [bufs EXCEPT ![target].chunks = Tail(@)]
    /\ rpc' = "parent"
    /\ UNCHANGED <<version, ring, threadVars, reading, target, out, deaths>>

ReturnParent ==
    /\ rpc = "parent"
    /\ ring' = Tail(ring)
    /\ rpc' = "idle"
    /\ UNCHANGED <<version, bufs, threadVars, readSeq, reading, records, target, out, deaths>>

(* rt_recycle_oversize_buffers: buffers nobody fills, but for the one that *)
(* was read last, lose what is overdue and go if nothing is left.          *)
Overdue(c, garbage) ==
    "invalid" \in Verdicts(c) /\ (Verdicts(c) = {"invalid"} \/ garbage)

(* Mutant: only a chunk whose number has been passed is dropped.           *)
PurgedOwnVersion(s, garbage) ==
    LET cs   == bufs[s].chunks
        good == {n \in DOMAIN cs : ~(Overdue(cs[n], garbage) /\ cs[n].ver = version)}
    IN  IF good = {} THEN <<>> ELSE SubSeq(cs, CHOOSE n \in good : \A m \in good : n <= m, Len(cs))

Purged(s, garbage) ==
    LET cs   == Finished(bufs[s])
        good == {n \in DOMAIN cs : ~Overdue(cs[n], garbage)}
    IN  IF good = {} THEN <<>> ELSE SubSeq(cs, CHOOSE n \in good : \A m \in good : n <= m, Len(cs))

(* Mutant: without a try for the lock of the buffer.                       *)
ExaminedUnlocked == Live \ {target}

Examined == {s \in Live \ {target} : ~Unfinished(bufs[s])}

Recycle ==
    /\ rpc = "recycle"
    /\ \E garbage \in BOOLEAN :
        bufs' = [s \in Slots |->
                    IF s \notin Examined THEN bufs[s]
                    ELSE IF Purged(s, garbage) = <<>> THEN None
                    ELSE [bufs[s] EXCEPT !.chunks = Purged(s, garbage)]]
    /\ rpc' = "end"
    /\ UNCHANGED <<version, ring, threadVars, readSeq, reading, records, target, out, deaths>>

(* Too early, or a lock is taken.                                          *)
RecycleLater ==
    /\ rpc = "recycle"
    /\ rpc' = "end"
    /\ UNCHANGED <<version, ring, bufs, threadVars, readSeq, reading, records, target, out, deaths>>

(* Nothing more of this version: rt_try_traverse_to_next_version, or the   *)
(* answer is "empty".                                                      *)
NextVersion ==
    /\ rpc = "end" /\ reading # version
    /\ records' = Restrict(records, {k \in DOMAIN records : k[1] # reading})
    /\ reading' = (reading + 1) % V
    /\ rpc' = "ring"
    /\ UNCHANGED <<version, ring, bufs, threadVars, readSeq, target, out, deaths>>

AnswerEmpty ==
    /\ rpc = "end" /\ reading = version
    /\ rpc' = "idle"
    /\ UNCHANGED <<version, ring, bufs, threadVars, readSeq, reading, records, target, out, deaths>>

------------------------------------------------------------------------------
(* The process dies at any point and is started again. *)

(* What try_recover of the ring leaves; a chunk that happens to bear the   *)
(* number of the new version is given the one after it.                    *)
Ready == LET open == {i \in DOMAIN ring : ~ring[i].done}
         IN  IF open = {} THEN ring
             ELSE SubSeq(ring, 1, (CHOOSE i \in open : \A j \in open : i <= j) - 1)
Fixed(v) == [i \in DOMAIN Ready |->
                IF Ready[i].ver = v THEN [Ready[i] EXCEPT !.ver = (v + 1) % V]
                ELSE Ready[i]]

(* recovery_records_: the lowest number of each thread of each version in  *)
(* range that is in the ring.                                              *)
RecordsOf(r, v) ==
    LET keys == {<<r[i].ver, r[i].t>> : i \in {j \in DOMAIN r : (v - 1 - r[j].ver) % V < Span}}
    IN  [k \in keys |-> LET ns == {r[i].seq : i \in {j \in DOMAIN r : <<r[j].ver, r[j].t>> = k}}
                        IN CHOOSE n \in ns : \A m \in ns : n <= m]

(* The files of buffers of versions out of range are removed.              *)
Recovered(s, v) ==
    IF bufs[s] = None \/ (v - bufs[s].ver) % V > Span THEN None
    ELSE [bufs[s] EXCEPT !.chunks = Finished(bufs[s])]

Die ==
    LET v == (version + 1) % V IN
    /\ deaths < MaxDeaths
    /\ deaths' = deaths + 1
    /\ version' = v
    /\ ring' = Fixed(v)
    /\ records' = RecordsOf(Fixed(v), v)
    /\ reading' = (v - Span) % V
    /\ bufs' = [s \in Slots |-> Recovered(s, v)]
    /\ pc' = [t \in Threads |-> "idle"]
    /\ filling' = [t \in Threads |-> None]
    /\ writeSeq' = [t \in Threads |-> 0]
    /\ readSeq' = [t \in Threads |-> 0]
    /\ target' = None
    /\ rpc' = "idle"
    /\ UNCHANGED <<out, whole, born>>

------------------------------------------------------------------------------
Proceed(t) == Seek(t) \/ CommitChunk(t) \/ Commit(t)
Reader ==
    \/ Begin \/ ReadSmall \/ ReadBig \/ ReadMissing \/ DropInvalid \/ LeaveRing
    \/ ReturnSmall \/ ReturnBig \/ ReturnParent \/ RecycleLater \/ NextVersion \/ AnswerEmpty \/ Recycle
Next ==
    \/ \E t \in Threads : (\E big \in BOOLEAN : Reserve(t, big)) \/ Proceed(t) \/ SeekFails(t)
    \/ Reader \/ Die

(* The worker keeps reading, a thread inside a call goes on, and the time  *)
(* after which a buffer may be recycled does pass.                         *)
Fairness ==
    /\ WF_vars(Reader) /\ SF_vars(Recycle)
    /\ \A t \in Threads : WF_vars(Proceed(t) \/ SeekFails(t))

Spec == Init /\ [][Next]_vars /\ Fairness

------------------------------------------------------------------------------
HandedOut == {out[i].id : i \in DOMAIN out}

TypeOK ==
    /\ version \in Version /\ reading \in Version
    /\ ring \in Seq(Items) /\ bufs \in [Slots -> Buffers \cup {None}]
    /\ \A s \in Live : Len(bufs[s].chunks) <= Room
    /\ pc \in [Threads -> {"idle", "seek", "fill", "commit"}]
    /\ filling \in [Threads -> Slots \cup {None}] /\ target \in Slots \cup {None}
    /\ writeSeq \in [Threads -> Nat]
    /\ rpc \in {"idle", "ring", "small", "big", "parent", "recycle", "end"}
    /\ out \in Seq([id : Nat, parent : Nat, t : Threads, life : Nat])
    /\ born \in Seq(Nat) /\ deaths \in Nat

(* What is handed out for a record is that record's data, found by version *)
(* and number alone, and was committed: never what a thread of an earlier  *)
(* process with the same address left, nor a record whose buffer could not *)
(* be made, nor one that was half written as the process died.  One        *)
(* process hands out a thread's records, its own and those of earlier      *)
(* processes, each once and in the order in which they were logged.        *)
RightData ==
    /\ \A i \in DOMAIN out : out[i].id = out[i].parent /\ out[i].id \in whole
    /\ \A j \in DOMAIN out : \A i \in 1..(j - 1) :
        out[i].life = out[j].life /\ out[i].t = out[j].t => out[i].id < out[j].id

(* A parent's data is only missing if it has been handed out: the assert   *)
(* of rt_read_oversize_chunk ("data missing only occurs when recovering"), *)
(* and more.                                                               *)
NothingMissing ==
    [][ReadMissing => Head(ring).id \in HandedOut /\ Head(ring).ver # version]_vars

(* A buffer somebody fills or reads is not recycled.                       *)
NobodyLosesABuffer ==
    /\ \A t \in Threads : pc[t] = "fill" => filling[t] \in Live /\ Unfinished(bufs[filling[t]])
    /\ rpc = "big" => target \in Live /\ bufs[target].chunks # <<>>

(* What is committed, and in the ring in front of anything unfinished, is  *)
(* handed out, by this process or by one of the next Span.                 *)
Reachable(i) == i \in DOMAIN ring /\ \A j \in 1..i : ring[j].done
SurvivorsAreRead ==
    \A n \in 1..MaxRecords :
        (\E i \in DOMAIN ring : Reachable(i) /\ ring[i].id = n /\ n \in whole)
            ~> n \in HandedOut \/ (n \in DOMAIN born /\ deaths > born[n] + Span)

(* Temporary buffers, those found at the start included, go away again,    *)
(* but for the one that was read last.                                     *)
BuffersGoAway == <>[](Live \subseteq {target})

------------------------------------------------------------------------------
(* The inductive invariant.                                                *)

(* The versions the reader may still come to, its own and those before.    *)
InRange(v) == Age(v) <= Span
HeadInUse == rpc \in {"small", "big", "parent"}

(* The ring: records in the order of their numbers, one at most of each    *)
(* thread unfinished, the last of its thread; and what a reader may accept *)
(* is committed.                                                           *)
EntrySound(e) ==
    /\ e.id \in 1..Len(born)
    /\ InRange(e.ver) /\ e.done => e.id \in whole
    /\ ~e.done => e.ver = version /\ pc[e.t] # "idle" /\ e.seq = writeSeq[e.t] - 1
    /\ e.ver = version =>
        e.seq < writeSeq[e.t] /\ (e.done /\ pc[e.t] # "idle" => e.seq < writeSeq[e.t] - 1)
RingSound ==
    /\ \A i \in DOMAIN ring : EntrySound(ring[i])
    /\ \A i, j \in DOMAIN ring : i < j => ring[i].id < ring[j].id
    /\ \A i, j \in DOMAIN ring :
        ~ring[i].done /\ ~ring[j].done /\ ring[i].t = ring[j].t => i = j
    /\ \A t \in Threads : pc[t] # "idle" => \E i \in DOMAIN ring : ring[i].t = t /\ ~ring[i].done

(* The buffers: no version too old, each chunk with its thread's next      *)
(* number, and the parent that matches it is its own.                      *)
ChunkSound(b, c) ==
    /\ c.ver = b.ver /\ c.t = b.t
    /\ c.ver = version =>
        c.seq < writeSeq[c.t] /\ (pc[c.t] = "seek" => c.seq < writeSeq[c.t] - 1)
    /\ \A i \in DOMAIN ring :
        ring[i].ver = c.ver /\ ring[i].t = c.t /\ ring[i].seq = c.seq => ring[i].id = c.id
BuffersSound ==
    \A s \in Live : /\ InRange(bufs[s].ver)
                    /\ \A n \in DOMAIN bufs[s].chunks : ChunkSound(bufs[s], bufs[s].chunks[n])

FillersHold ==
    \A t \in Threads : pc[t] = "fill" =>
        filling[t] \in Live /\ bufs[filling[t]].t = t /\ Unfinished(bufs[filling[t]])

ReaderSound ==
    /\ InRange(reading)
    /\ rpc = "big" => target \in Live /\ bufs[target].chunks # <<>> /\ Head(bufs[target].chunks).done
    /\ HeadInUse => ring # <<>> /\ Head(ring).done

(* What was handed out: whole, and of this process only what is in front   *)
(* of all that is in the ring.                                             *)
OutSound ==
    /\ \A i \in DOMAIN out :
        /\ out[i].id = out[i].parent /\ out[i].id \in whole /\ out[i].id \in 1..Len(born)
        /\ out[i].life <= deaths
        /\ out[i].life = deaths => \A k \in DOMAIN ring :
               out[i].id <= ring[k].id /\ (out[i].id = ring[k].id => HeadInUse)
    /\ \A j \in DOMAIN out : \A i \in 1..(j - 1) :
        out[i].life = out[j].life => out[i].id < out[j].id

OversizeInv ==
    TypeOK /\ RingSound /\ BuffersSound /\ FillersHold /\ ReaderSound /\ OutSound
=============================================================================
