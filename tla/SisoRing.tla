------------------------------ MODULE SisoRing ------------------------------
(***************************************************************************)
(* siso_ring_buffer (src/bq_log/types/buffer/siso_ring_buffer.cpp): the    *)
(* ring between one writer and one reader that is the buffer of each block *)
(* of log_buffer, and of each oversize buffer.                             *)
(*                                                                         *)
(* Each side has its own cursor, publishes it, and keeps an old copy of    *)
(* what the other side published, which it renews only when the copy says  *)
(* that there is nothing to read or no room.  A chunk that does not fit    *)
(* before the end of the memory leaves its header there and has its data   *)
(* at the beginning.  The cursors and copies lie in the memory map: after  *)
(* a crash the reader's and the writer's own cursors are taken over.       *)
(*                                                                         *)
(* A block of memory is as large as a header; the size of a chunk is the   *)
(* number of blocks of its data.                                           *)
(***************************************************************************)
EXTENDS Integers

CONSTANTS
    N,          \* aligned_blocks_count_
    W,          \* cursors count modulo W, 2^32 in the code
    Sizes,      \* the sizes of chunks
    Rounds,     \* bound: how many chunks are written
    MaxCrashes, \* bound
    LateCrash   \* whether a crash may come when the cursors have wrapped

ASSUME SisoRingAssumption ==
    /\ N \in Nat \ {0} /\ W \in Nat \ {0} /\ W % N = 0 /\ W > N
    /\ Sizes \subseteq Nat /\ Rounds \in Nat /\ MaxCrashes \in Nat
    /\ LateCrash \in BOOLEAN

VARIABLES
    mem,        \* what each block of memory was last written with
    reading, writing,   \* the published cursors
    rtReading, rtWriting,   \* the reader's cursor and its copy of writing
    wtReading, wtWriting,   \* the writer's copy of reading and its cursor
    pc,         \* where the writer is
    size,       \* the size of the chunk that is being written
    rpc,        \* where the reader is
    end,        \* end_cursor_ of its batch
    sent,       \* how many chunks were committed
    crashes

cursors == <<reading, writing, rtReading, rtWriting, wtReading, wtWriting>>
vars == <<mem, cursors, pc, size, rpc, end, sent, crashes>>

Index == 0..(N - 1)
Cursors == 0..(W - 1)
Dist(from, to) == (to - from) % W

\* A block holds the header of a chunk, with its block_num and size, or data.
Header(c, n, k) == [chunk |-> c, num |-> n, size |-> k]
Data(c) == [chunk |-> c, num |-> 0, size |-> 0]

Init ==
    /\ mem = [i \in Index |-> Data(0)]
    /\ reading = 0 /\ writing = 0
    /\ rtReading = 0 /\ rtWriting = 0 /\ wtReading = 0 /\ wtWriting = 0
    /\ pc = "idle" /\ size = 0
    /\ rpc = "idle" /\ end = 0
    /\ sent = 0 /\ crashes = 0

-----------------------------------------------------------------------------
\* The writer

LeftToTail(c) == N - (c % N)
Splits(c, k) == LeftToTail(c) < k + 1

\* Mutant: a chunk in two parts is counted like a whole one.
NeedUnsplit(c, k) == k + 1

\* The blocks a chunk takes: those left before the end count, too.
Need(c, k) == IF Splits(c, k) THEN LeftToTail(c) + k ELSE k + 1

\* A block fits the ring, though perhaps not from here.
Fits(c, k) == Need(c, k) <= N

\* Where its data is.
DataBlocks(c, k) == IF Splits(c, k) THEN 0..(k - 1) ELSE {(c % N) + i : i \in 1..k}

Left(copy) == Dist(wtWriting, copy + N)

\* The copy of the read cursor, renewed when it is too old for the chunk.
Known(k) == IF Left(wtReading) < Need(wtWriting, k) THEN reading ELSE wtReading

\* alloc_write_chunk.  The header is written at once; the copy is also renewed
\* when half of the ring is in use.
Alloc(k) ==
    /\ pc = "idle" /\ sent < Rounds
    /\ Fits(wtWriting, k)
    /\ wtReading' = Known(k)
    /\ IF Left(Known(k)) < Need(wtWriting, k)
       THEN UNCHANGED <<mem, pc, size>>
       ELSE /\ mem' = [mem EXCEPT ![wtWriting % N] =
                            Header(sent + 1, Need(wtWriting, k), k)]
            /\ size' = k
            /\ pc' = IF 2 * (N - Left(Known(k))) >= N THEN "low" ELSE "fill"
    /\ UNCHANGED <<reading, writing, rtReading, rtWriting, wtWriting, rpc, end, sent, crashes>>

LowSpace ==
    /\ pc = "low"
    /\ wtReading' = reading
    /\ pc' = "fill"
    /\ UNCHANGED <<mem, reading, writing, rtReading, rtWriting, wtWriting, size, rpc, end,
                   sent, crashes>>

\* The caller writes its data.
Fill ==
    /\ pc = "fill"
    /\ mem' = [i \in Index |->
                IF i \in DataBlocks(wtWriting, size) THEN Data(sent + 1) ELSE mem[i]]
    /\ pc' = "commit"
    /\ UNCHANGED <<cursors, size, rpc, end, sent, crashes>>

\* commit_write_chunk: the writer's own cursor, and then the published one.
Commit ==
    /\ pc = "commit"
    /\ wtWriting' = (wtWriting + mem[wtWriting % N].num) % W
    /\ sent' = sent + 1
    /\ pc' = "publish"
    /\ UNCHANGED <<mem, reading, writing, rtReading, rtWriting, wtReading, size, rpc, end,
                   crashes>>

Publish ==
    /\ pc = "publish"
    /\ writing' = wtWriting
    /\ pc' = "idle"
    /\ UNCHANGED <<mem, reading, rtReading, rtWriting, wtReading, wtWriting, size, rpc, end,
                   sent, crashes>>

-----------------------------------------------------------------------------
\* The reader

Behind(c) == (c + mem[c % N].num) % W

\* The copy of the write cursor, renewed when everything up to it is read.
Seen == IF rtWriting = rtReading THEN writing ELSE rtWriting

\* read_chunk; an empty answer changes nothing.
ReadOne ==
    /\ rpc = "idle" /\ Seen # rtReading
    /\ rtWriting' = Seen
    /\ rpc' = "one"
    /\ UNCHANGED <<mem, reading, writing, rtReading, wtReading, wtWriting, pc, size, end,
                   sent, crashes>>

Discard ==
    /\ rpc = "one"
    /\ rpc' = "idle"
    /\ UNCHANGED <<mem, cursors, pc, size, end, sent, crashes>>

\* return_read_chunk: the reader's own cursor, and then the published one.
Return ==
    /\ rpc = "one"
    /\ rtReading' = Behind(rtReading)
    /\ rpc' = "publish"
    /\ UNCHANGED <<mem, reading, writing, rtWriting, wtReading, wtWriting, pc, size, end,
                   sent, crashes>>

\* batch_read: all there is to read.
BatchRead ==
    /\ rpc = "idle" /\ Seen # rtReading
    /\ rtWriting' = Seen
    /\ end' = Seen
    /\ rpc' = "batch"
    /\ UNCHANGED <<mem, reading, writing, rtReading, wtReading, wtWriting, pc, size, sent,
                   crashes>>

\* next() of the batch: the cursor goes on as the chunk is handed out.
NextOfBatch ==
    /\ rpc = "batch" /\ rtReading # end
    /\ rtReading' = Behind(rtReading)
    /\ UNCHANGED <<mem, reading, writing, rtWriting, wtReading, wtWriting, pc, size, rpc, end,
                   sent, crashes>>

\* return_batch_read_chunks, after the last.
ReturnBatch ==
    /\ rpc = "batch" /\ rtReading = end
    /\ rpc' = "publish"
    /\ UNCHANGED <<mem, cursors, pc, size, end, sent, crashes>>

PublishRead ==
    /\ rpc = "publish"
    /\ reading' = rtReading
    /\ rpc' = "idle"
    /\ UNCHANGED <<mem, writing, rtReading, rtWriting, wtReading, wtWriting, pc, size, end,
                   sent, crashes>>

\* data_traverse goes over all chunks without taking them.
Traverse ==
    /\ rpc = "idle"
    /\ rtWriting' = writing
    /\ UNCHANGED <<mem, reading, writing, rtReading, wtReading, wtWriting, pc, size, rpc, end,
                   sent, crashes>>

-----------------------------------------------------------------------------
\* Reuse and recovery

ResetCursors ==
    /\ reading' = 0 /\ writing' = 0
    /\ rtReading' = 0 /\ rtWriting' = 0 /\ wtReading' = 0 /\ wtWriting' = 0

\* renew: the block, all read, is given to another thread.
Renew ==
    /\ pc \in {"idle", "gone"} /\ rpc = "idle" /\ rtReading = wtWriting
    /\ ResetCursors
    /\ pc' = "idle"
    /\ UNCHANGED <<mem, size, rpc, end, sent, crashes>>

\* try_recover_from_exist_memory_map walks from chunk to chunk, comparing the
\* cursors as plain numbers, and checks each header against its size: S is where
\* it comes by, if it gets from the reader's cursor to the writer's.
Walks(S) ==
    /\ {rtReading, wtWriting} \subseteq S
    /\ \A c \in S \ {wtWriting} :
        LET h == mem[c % N]
        IN  h.num > 0 /\ h.num = Need(c, h.size) /\ c + h.num \in S

Recovered ==
    /\ Dist(rtReading, wtWriting) <= N
    /\ \E S \in SUBSET (rtReading..wtWriting) : Walks(S)

\* Bound: a crash comes when the writer's cursor has not wrapped past the reader's.
InTime == LateCrash \/ rtReading <= wtWriting

\* Mutant: the published cursors are taken over.
TakePublished ==
    /\ rtReading' = reading /\ rtWriting' = writing
    /\ wtReading' = reading /\ wtWriting' = writing
    /\ UNCHANGED <<reading, writing>>

TakeCursors ==
    /\ rtWriting' = wtWriting /\ wtReading' = rtReading
    /\ reading' = rtReading /\ writing' = wtWriting
    /\ UNCHANGED <<rtReading, wtWriting>>

\* The process dies and the next one recovers the ring, which is only read
\* from then on until it is renewed.
Crash ==
    /\ crashes < MaxCrashes /\ InTime
    /\ crashes' = crashes + 1
    /\ IF Recovered THEN TakeCursors ELSE ResetCursors
    /\ pc' = "gone" /\ rpc' = "idle"
    /\ size' = 0 /\ end' = 0
    /\ UNCHANGED <<mem, sent>>

-----------------------------------------------------------------------------

Writer == (\E k \in Sizes : Alloc(k)) \/ LowSpace \/ Fill \/ Commit \/ Publish
Reader ==
    \/ ReadOne \/ Discard \/ Return \/ BatchRead \/ NextOfBatch \/ ReturnBatch
    \/ PublishRead \/ Traverse

Next == Writer \/ Reader \/ Renew \/ Crash

Spec == Init /\ [][Next]_vars

TypeOK ==
    /\ mem \in [Index -> [chunk : 0..Rounds, num : 0..N, size : {0} \cup Sizes]]
    /\ {reading, writing, rtReading, rtWriting, wtReading, wtWriting, end} \subseteq Cursors
    /\ pc \in {"idle", "low", "fill", "commit", "publish", "gone"}
    /\ size \in {0} \cup Sizes
    /\ rpc \in {"idle", "one", "batch", "publish"}
    /\ sent \in 0..Rounds /\ crashes \in 0..MaxCrashes

\* Going round the ring, the copies and cursors follow each other, no more
\* than one turn apart: neither side ever takes an old copy for good news (the
\* asserts "wt_reading_cursor_cache_ error" and that of read_chunk).
CursorsInOrder ==
    LET behind(c) == Dist(wtReading, c)
    IN  /\ behind(reading) <= behind(rtReading)
        /\ behind(rtReading) <= behind(rtWriting)
        /\ behind(rtWriting) <= behind(writing)
        /\ behind(writing) <= behind(wtWriting)
        /\ behind(wtWriting) <= N

\* The header and the data of the chunk at cursor c are the writer's.
Whole(c) ==
    LET h == mem[c % N]
    IN  /\ h.num > 0 /\ h.num = Need(c, h.size)
        /\ \A i \in DataBlocks(c, h.size) : mem[i].chunk = h.chunk

\* The cursors that the reader has not given back, up to the writer's.
Unreturned == {(reading + i) % W : i \in 0..Dist(reading, wtWriting)}

\* A chunk stays whole, header and data, until the reader has given it back,
\* the reader looks for the data where the writer put it, and following the
\* headers ends at the writer's cursor: S is where the chunks begin and end.
UnreturnedIntact ==
    \E S \in SUBSET Unreturned :
        /\ {reading, wtWriting} \subseteq S
        /\ \A c \in S \ {wtWriting} : Whole(c) /\ Behind(c) \in S

\* The chunks come out in order, each once, none left out, whether they are
\* read one by one or in batches, and through a crash: what was committed and
\* not yet taken is all there afterwards.
Taken == IF rtReading = wtWriting THEN sent ELSE mem[rtReading % N].chunk - 1
Stream == INSTANCE LogStream WITH
    Threads <- {"writer"},
    Rounds <- [t \in {"writer"} |-> Rounds],
    sent <- [t \in {"writer"} |-> sent],
    read <- [t \in {"writer"} |-> Taken]
ImplementsStream == Stream!Spec

\* Each side's copies of the other's cursor err on the safe side only, and so
\* the data of a chunk stays whole until it is returned.
NothingIsOverwritten == CursorsInOrder /\ UnreturnedIntact
=============================================================================
