------------------------------ MODULE MisoRing ------------------------------
(***************************************************************************)
(* The multi-producer, single-consumer ring of log_buffer's LP queue       *)
(* (src/bq_log/types/buffer/miso_ring_buffer.cpp).                         *)
(*                                                                         *)
(* Producers reserve space with a fetch_add on the write cursor that is    *)
(* made BEFORE the space is known to be there; a reservation that does not *)
(* fit is taken back by a compare-and-swap that succeeds only while it is  *)
(* the last one, and otherwise waits.  A reservation that would run over   *)
(* the end of the memory is stamped `invalid', for the reader to step      *)
(* over.  The reader publishes the space it freed lazily.                  *)
(*                                                                         *)
(* Cursors count blocks since the start and are kept here as they are; the *)
(* code keeps them modulo W = 2^32, and every comparison it makes on them  *)
(* is made on a difference modulo W, as Dist does below.                   *)
(*                                                                         *)
(* Memory: a block holds the header of the chunk that starts there (status *)
(* and num) and a tag for its bytes (chunk).  A chunk of several blocks    *)
(* has its data over the headers of the blocks after the first: these read *)
(* as status "data", which stands for arbitrary bytes.                     *)
(***************************************************************************)
EXTENDS Integers

CONSTANTS
    Producers,  \* the threads that write
    N,          \* aligned_blocks_count_
    W,          \* the modulus of a cursor, 2^32 in the code
    Sizes,      \* the numbers of blocks a producer may ask for
    Rounds,     \* bound: how many chunks a producer commits before it stops
    Sleepers    \* whether a thread may sleep while the cursors go once round

\* N and W are powers of two in the code, with N >= 16.  Only this much
\* matters: the blocks do not move when a cursor wraps, and a quarter of the
\* ring is at least one block.
ASSUME RingAssumption ==
    /\ N \in Nat /\ W \in Nat
    /\ N >= 4 /\ W > N /\ W % N = 0
    /\ Rounds \in Nat \ {0}
    /\ Sizes \subseteq Nat \ {0}
    /\ Sleepers \in BOOLEAN

VARIABLES
    writeCursor,    \* cursors_.write_cursor_
    readCursor,     \* cursors_.read_cursor_, what the reader has published
    cacheCursor,    \* head_->read_cursor_cache_, how far the reader is
    startCursor,    \* head_->read_cursor_start_cache_
    block,          \* aligned_blocks_
    pc,             \* where each producer is in alloc / commit
    need,           \* need_block_count of its call
    cur,            \* current_write_cursor of its call
    ref,            \* tls_info.wt_read_cursor_cache_, NoRef before first use
    rpc,            \* where the reader is
    held,           \* the data the reader has been handed
    sent,           \* how many chunks each producer has committed
    last            \* the chunk the reader returned last

producerVars == <<pc, need, cur, ref>>
readerVars == <<cacheCursor, startCursor, rpc, held, last>>
vars == <<writeCursor, readCursor, block, producerVars, readerVars, sent>>

NoRef == -1
NoChunk == <<>>
Chunks == Producers \X (1..Rounds)
Index == 0..(N - 1)
Status == {"unused", "used", "invalid", "data"}

\* The difference of two uint32 cursors.
Dist(a, b) == (a - b) % W
Slot(c) == c % N
Region(c, n) == {Slot(c + i) : i \in 0..(n - 1)}

NextCursor(p) == cur[p] + need[p]
ChunkOf(p) == <<p, sent[p] + 1>>
Contiguous(p) == Slot(cur[p]) + need[p] <= N

Init ==
    /\ writeCursor = 0 /\ readCursor = 0
    /\ cacheCursor = 0 /\ startCursor = 0
    /\ block = [i \in Index |-> [status |-> "unused", num |-> 0, chunk |-> NoChunk]]
    /\ pc = [p \in Producers |-> "idle"]
    /\ need = [p \in Producers |-> 0]
    /\ cur = [p \in Producers |-> 0]
    /\ ref = [p \in Producers |-> NoRef]
    /\ rpc = "idle" /\ held = NoChunk
    /\ sent = [p \in Producers |-> 0]
    /\ last = NoChunk

-----------------------------------------------------------------------------
\* alloc_write_chunk and commit_write_chunk

Goto(p, l) == pc' = [pc EXCEPT ![p] = l]

\* The call: a size that can never fit is refused at once and changes nothing;
\* otherwise the write cursor is read, relaxed.
AllocBegin(p) ==
    /\ pc[p] = "idle" /\ sent[p] < Rounds
    /\ \E n \in Sizes :
        /\ n <= N
        /\ need' = [need EXCEPT ![p] = n]
    /\ cur' = [cur EXCEPT ![p] = writeCursor]
    /\ Goto(p, "ref")
    /\ UNCHANGED <<writeCursor, readCursor, block, ref, readerVars, sent>>

\* The thread's copy of the read cursor: read the first time, and whenever the
\* thread-local record is gone; otherwise as the last call left it.
TakeReference(p) ==
    /\ pc[p] = "ref"
    /\ \/ ref' = [ref EXCEPT ![p] = readCursor]
       \/ ref[p] # NoRef /\ UNCHANGED ref
    /\ Goto(p, "check")
    /\ UNCHANGED <<writeCursor, readCursor, block, need, cur, readerVars, sent>>

\* There seems to be no room: look at the read cursor itself, and refuse if
\* there is none.  (The result code depends only on 2 * need > N.)
CheckAgain(p) ==
    /\ pc[p] = "check" /\ Dist(NextCursor(p), ref[p]) > N
    /\ ref' = [ref EXCEPT ![p] = readCursor]
    /\ IF Dist(NextCursor(p), readCursor) > N
       THEN Goto(p, "idle")
       ELSE UNCHANGED pc
    /\ UNCHANGED <<writeCursor, readCursor, block, need, cur, readerVars, sent>>

\* Bound: no reservation goes a whole W beyond the copy of the read cursor that
\* some thread keeps.  The code does not enforce it; Sleepers lifts it.
WithinAWrap(p) ==
    \A q \in Producers :
        Sleepers \/ ref[q] = NoRef \/ writeCursor + need[p] - ref[q] < W

\* Mutant: the space is not looked for again after fetch_add.
FetchAddTrusting(p) ==
    /\ pc[p] = "check" /\ Dist(NextCursor(p), ref[p]) <= N
    /\ WithinAWrap(p)
    /\ cur' = [cur EXCEPT ![p] = writeCursor]
    /\ writeCursor' = writeCursor + need[p]
    /\ Goto(p, "mine")
    /\ UNCHANGED <<readCursor, block, need, ref, readerVars, sent>>

\* fetch_add, and the first comparison with what it returned.
FetchAdd(p) ==
    /\ pc[p] = "check" /\ Dist(NextCursor(p), ref[p]) <= N
    /\ WithinAWrap(p)
    /\ cur' = [cur EXCEPT ![p] = writeCursor]
    /\ writeCursor' = writeCursor + need[p]
    /\ Goto(p, IF Dist(writeCursor + need[p], ref[p]) >= N THEN "over" ELSE "mine")
    /\ UNCHANGED <<readCursor, block, need, ref, readerVars, sent>>

\* The condition of the fall-back loop.
LookAgain(p) ==
    /\ pc[p] = "over"
    /\ ref' = [ref EXCEPT ![p] = readCursor]
    /\ Goto(p, IF Dist(NextCursor(p), readCursor) >= N THEN "back" ELSE "mine")
    /\ UNCHANGED <<writeCursor, readCursor, block, need, cur, readerVars, sent>>

\* Mutant: the reservation is subtracted, whatever stands behind it.
FallBackAnyway(p) ==
    /\ pc[p] = "back"
    /\ writeCursor' = writeCursor - need[p]
    /\ Goto(p, "idle")
    /\ UNCHANGED <<readCursor, block, need, cur, ref, readerVars, sent>>

\* Mutant: the compare-and-swap is tried again without a look at the space.
FallBackBlindly(p) ==
    /\ pc[p] = "back" /\ Dist(writeCursor, NextCursor(p)) = 0
    /\ writeCursor' = cur[p]
    /\ Goto(p, "idle")
    /\ UNCHANGED <<readCursor, block, need, cur, ref, readerVars, sent>>

\* The body of the fall-back loop: the compare-and-swap that takes the
\* reservation back, which fails while another stands behind it.
FallBack(p) ==
    /\ pc[p] = "back"
    /\ \/ /\ Dist(writeCursor, NextCursor(p)) = 0
          /\ writeCursor' = cur[p]
          /\ Goto(p, "idle")
       \/ /\ Dist(writeCursor, NextCursor(p)) # 0
          /\ Goto(p, "over")
          /\ UNCHANGED writeCursor
    /\ UNCHANGED <<readCursor, block, need, cur, ref, readerVars, sent>>

\* set_block_num writes the whole word, so the status becomes `unused' too.
NewHeader(p, s) == [block[Slot(cur[p])] EXCEPT !.status = s, !.num = need[p]]

\* The reservation would run over the end: it becomes a gap, and the loop goes
\* on with current_write_cursor as fetch_add left it.
LeaveGap(p) ==
    /\ pc[p] = "mine" /\ ~Contiguous(p)
    /\ block' = [block EXCEPT ![Slot(cur[p])] = NewHeader(p, "invalid")]
    /\ Goto(p, "check")
    /\ UNCHANGED <<writeCursor, readCursor, need, cur, ref, readerVars, sent>>

\* Mutant: the number of blocks is not written.
AllocReturnBare(p) ==
    /\ pc[p] = "mine" /\ Contiguous(p)
    /\ Goto(p, "filling")
    /\ UNCHANGED <<writeCursor, readCursor, block, need, cur, ref, readerVars, sent>>

\* The handle is returned to the caller.  If more than half the ring looked
\* used when the call began, the read cursor is looked at again, for the
\* handle's low_space_flag; how much looked used is not kept here.
AllocReturn(p) ==
    /\ pc[p] = "mine" /\ Contiguous(p)
    /\ block' = [block EXCEPT ![Slot(cur[p])] = NewHeader(p, "unused")]
    /\ ref' = [ref EXCEPT ![p] = readCursor] \/ UNCHANGED ref
    /\ Goto(p, "filling")
    /\ UNCHANGED <<writeCursor, readCursor, need, cur, readerVars, sent>>

\* The caller copies its record into the chunk.
Fill(p) ==
    /\ pc[p] = "filling"
    /\ block' = [i \in Index |->
            IF i = Slot(cur[p]) THEN [block[i] EXCEPT !.chunk = ChunkOf(p)]
            ELSE IF i \in Region(cur[p], need[p])
                 THEN [status |-> "data", num |-> 0, chunk |-> ChunkOf(p)]
                 ELSE block[i]]
    /\ Goto(p, "filled")
    /\ UNCHANGED <<writeCursor, readCursor, need, cur, ref, readerVars, sent>>

Commit(p) ==
    /\ pc[p] = "filled"
    /\ block' = [block EXCEPT ![Slot(cur[p])].status = "used"]
    /\ sent' = [sent EXCEPT ![p] = @ + 1]
    /\ Goto(p, "idle")
    /\ UNCHANGED <<writeCursor, readCursor, need, cur, ref, readerVars>>

\* A thread inside alloc or between alloc and commit.
Proceed(p) ==
    \/ TakeReference(p) \/ CheckAgain(p) \/ FetchAdd(p) \/ LookAgain(p)
    \/ FallBack(p) \/ LeaveGap(p) \/ AllocReturn(p) \/ Fill(p) \/ Commit(p)

-----------------------------------------------------------------------------
\* read_chunk, return_read_chunk, discard_read_chunk, read_an_empty_chunk

HeadBlock == block[Slot(cacheCursor)]

\* A gap: its status is cleared, and then the cursor is moved over it.
ReadGap ==
    /\ rpc = "idle" /\ HeadBlock.status = "invalid"
    /\ block' = [block EXCEPT ![Slot(cacheCursor)].status = "unused"]
    /\ rpc' = "gap"
    /\ UNCHANGED <<writeCursor, readCursor, cacheCursor, startCursor, held, last,
                   producerVars, sent>>

StepOverGap ==
    /\ rpc = "gap"
    /\ cacheCursor' = cacheCursor + HeadBlock.num
    /\ rpc' = "idle"
    /\ UNCHANGED <<writeCursor, readCursor, block, startCursor, held, last,
                   producerVars, sent>>

ReadUsed ==
    /\ rpc = "idle" /\ HeadBlock.status = "used"
    /\ held' = HeadBlock.chunk
    /\ rpc' = "holding"
    /\ UNCHANGED <<writeCursor, readCursor, block, cacheCursor, startCursor, last,
                   producerVars, sent>>

ReadUnused ==
    /\ rpc = "idle" /\ HeadBlock.status = "unused"
    /\ rpc' = "empty"
    /\ UNCHANGED <<writeCursor, readCursor, block, cacheCursor, startCursor, held,
                   last, producerVars, sent>>

\* read_an_empty_chunk: the answer is "empty" without a look.
ReadNothing ==
    /\ rpc = "idle"
    /\ rpc' = "empty"
    /\ UNCHANGED <<writeCursor, readCursor, block, cacheCursor, startCursor, held,
                   last, producerVars, sent>>

\* Mutant: the statuses are not cleared.
FreeUpToUncleared(c, publish) ==
    /\ cacheCursor' = c
    /\ IF publish /\ c # startCursor
       THEN startCursor' = c /\ readCursor' = c
       ELSE UNCHANGED <<startCursor, readCursor>>
    /\ UNCHANGED block

\* What return_read_chunk does once it knows the cursor c it has reached and
\* whether to publish it: the statuses from the start on are cleared first.
FreeUpTo(c, publish) ==
    /\ cacheCursor' = c
    /\ IF publish /\ c # startCursor
       THEN /\ block' = [i \in Index |->
                  IF i \in Region(startCursor, c - startCursor)
                  THEN [block[i] EXCEPT !.status = "unused"] ELSE block[i]]
            /\ startCursor' = c
            /\ readCursor' = c
       ELSE UNCHANGED <<block, startCursor, readCursor>>

ReturnChunk ==
    /\ rpc = "holding"
    /\ LET c == cacheCursor + HeadBlock.num
       IN FreeUpTo(c, Dist(c, startCursor) >= N \div 4)
    /\ last' = held
    /\ held' = NoChunk
    /\ rpc' = "idle"
    /\ UNCHANGED <<writeCursor, producerVars, sent>>

ReturnEmpty ==
    /\ rpc = "empty"
    /\ FreeUpTo(cacheCursor, TRUE)
    /\ rpc' = "idle"
    /\ UNCHANGED <<writeCursor, held, last, producerVars, sent>>

\* Mutant: the chunk that is put back is consumed.
DiscardSkip ==
    /\ rpc = "holding"
    /\ cacheCursor' = cacheCursor + HeadBlock.num
    /\ held' = NoChunk
    /\ rpc' = "idle"
    /\ UNCHANGED <<writeCursor, readCursor, block, startCursor, last, producerVars, sent>>

\* The chunk is not consumed and will be read again.
Discard ==
    /\ rpc = "holding"
    /\ held' = NoChunk
    /\ rpc' = "idle"
    /\ UNCHANGED <<writeCursor, readCursor, block, cacheCursor, startCursor, last,
                   producerVars, sent>>

Read == ReadGap \/ StepOverGap \/ ReadUsed \/ ReadUnused
Reader == Read \/ ReadNothing \/ ReturnChunk \/ ReturnEmpty \/ Discard

-----------------------------------------------------------------------------

Next == Reader \/ \E p \in Producers : AllocBegin(p) \/ Proceed(p)

Spec == Init /\ [][Next]_vars

\* A thread that has entered alloc goes on until it has committed; the worker
\* thread keeps reading.  It does not put every chunk back for ever, and an
\* answer "empty" without a look is followed by a real look (log_buffer.cpp
\* leaves traversal_completed for lp_buffer_reading).
Fairness ==
    /\ \A p \in Producers : WF_vars(Proceed(p))
    /\ SF_vars(Read)
    /\ SF_vars(ReturnChunk)
    /\ WF_vars(ReturnEmpty)

FairSpec == Spec /\ Fairness

-----------------------------------------------------------------------------

TypeOK ==
    /\ writeCursor \in Nat /\ readCursor \in Nat
    /\ cacheCursor \in Nat /\ startCursor \in Nat
    /\ block \in [Index -> [status : Status, num : Nat,
                            chunk : Chunks \cup {NoChunk}]]
    /\ pc \in [Producers -> {"idle", "ref", "check", "over", "back", "mine",
                             "filling", "filled"}]
    /\ need \in [Producers -> Nat]
    /\ cur \in [Producers -> Nat]
    /\ ref \in [Producers -> Nat \cup {NoRef}]
    /\ rpc \in {"idle", "gap", "holding", "empty"}
    /\ held \in Chunks \cup {NoChunk}
    /\ sent \in [Producers -> 0..Rounds]
    /\ last \in Chunks \cup {NoChunk}

\* A thread whose reservation is settled: nothing takes it back any more.
Owns(p) == pc[p] \in {"mine", "filling", "filled"}

\* The rollback of one thread never reaches below the end of a reservation
\* that another has settled, and no settled reservation fills the last block
\* of the ring: between the newest and the oldest byte one block stays free.
SettledIsBehindCursor ==
    \A p \in Producers : Owns(p) =>
        NextCursor(p) <= writeCursor /\ NextCursor(p) - readCursor < N

\* Two threads never own the same block, nor one that the reader has not
\* given back (what lies between the published cursor and the reader's own,
\* and the chunk it holds).
HeldBlocks == IF rpc \in {"holding", "gap"} THEN HeadBlock.num ELSE 0
NoSharedBlock ==
    \A p \in Producers : Owns(p) =>
        /\ \A q \in Producers \ {p} : Owns(q) =>
                Region(cur[p], need[p]) \cap Region(cur[q], need[q]) = {}
        /\ Region(cur[p], need[p])
              \cap Region(readCursor, cacheCursor + HeldBlocks - readCursor) = {}

\* A committed chunk that is not freed is whole: every one of its blocks still
\* carries the data of the thread that committed it.
CommittedIntact ==
    /\ \A i \in Index : block[i].status = "used" =>
        /\ i + block[i].num <= N
        /\ \A j \in i..(i + block[i].num - 1) : block[j].chunk = block[i].chunk
        /\ block[i].chunk # NoChunk
        /\ block[i].chunk[2] <= sent[block[i].chunk[1]]
    /\ rpc = "holding" => HeadBlock.status = "used" /\ HeadBlock.chunk = held

\* Whenever the reader looks, it looks at the header of a chunk or of a gap or
\* at a free block, never into the middle of somebody's data (the assert of
\* read_chunk's default branch), and gaps are exactly what runs over the end.
ReaderFindsHeader ==
    rpc = "idle" =>
        /\ HeadBlock.status # "data"
        /\ HeadBlock.status = "used" => Slot(cacheCursor) + HeadBlock.num <= N
        /\ HeadBlock.status = "invalid" => Slot(cacheCursor) + HeadBlock.num > N

\* A thread that has reserved too much always gets out of the fall-back loop:
\* it takes its reservation back, or space comes free and it keeps it.
FallBackEnds ==
    \A p \in Producers :
        pc[p] \in {"over", "back"} ~> pc[p] \notin {"over", "back"}

-----------------------------------------------------------------------------
(***************************************************************************)
(* The inductive invariant, in terms of cursors.  The cursors that stand   *)
(* for a block at the moment are those from readCursor up to readCursor +  *)
(* N - 1: two of them never name the same block.                           *)
(***************************************************************************)

Holds(p) == pc[p] \in {"over", "back", "mine", "filling", "filled"}
BlockAt(c) == block[Slot(c)]
Window == readCursor..(readCursor + N - 1)

\* A chunk or a gap starts here that the reader has still to come to.
Header(c) == c >= cacheCursor /\ BlockAt(c).status \in {"used", "invalid"}

\* A stretch of the ring that starts at c and that no reservation overlaps.
ClearOfThreads(c, n) ==
    \A p \in Producers : Holds(p) => NextCursor(p) <= c \/ c + n <= cur[p]

ReaderInv ==
    /\ startCursor = readCursor
    /\ readCursor <= cacheCursor /\ cacheCursor <= writeCursor
    /\ cacheCursor - readCursor < N
    /\ writeCursor - readCursor < W
    /\ rpc = "holding" => HeadBlock.status = "used"
    /\ rpc = "gap" =>
        LET c == cacheCursor + HeadBlock.num
        IN  /\ HeadBlock.num > 0 /\ c <= writeCursor /\ c - readCursor < N
            /\ \A p \in Producers : Holds(p) => c <= cur[p]
            /\ \A d \in Window : Header(d) => c <= d

ThreadInv ==
    \A p \in Producers :
        /\ pc[p] # "idle" => need[p] > 0 /\ sent[p] < Rounds
        /\ ref[p] # NoRef => ref[p] <= readCursor
        /\ pc[p] \notin {"idle", "ref"} => ref[p] # NoRef
        /\ Holds(p) => cacheCursor <= cur[p] /\ NextCursor(p) <= writeCursor
        /\ Owns(p) => NextCursor(p) - readCursor < N

ReservationsApart ==
    \A p, q \in Producers : p # q /\ Holds(p) /\ Holds(q) =>
        NextCursor(p) <= cur[q] \/ NextCursor(q) <= cur[p]

HeadersApart ==
    \A c \in Window : Header(c) =>
        /\ BlockAt(c).num > 0
        /\ c + BlockAt(c).num <= writeCursor
        /\ c + BlockAt(c).num - readCursor < N
        /\ ClearOfThreads(c, BlockAt(c).num)
        /\ \A d \in Window : Header(d) /\ c < d => c + BlockAt(c).num <= d

\* Nothing is left over in the blocks that are free or reserved and not filled.
FreshBlocks ==
    /\ \A c \in Window : c >= writeCursor => BlockAt(c).status = "unused"
    /\ \A p \in Producers : pc[p] \in {"over", "back", "mine", "filling"} =>
            \A c \in Window : cur[p] <= c /\ c < NextCursor(p)
                                => BlockAt(c).status = "unused"
    /\ \A p \in Producers : pc[p] \in {"filling", "filled"} =>
            BlockAt(cur[p]).status = "unused" /\ BlockAt(cur[p]).num = need[p]

IInv ==
    /\ TypeOK /\ ReaderInv /\ ThreadInv /\ ReservationsApart /\ HeadersApart
    /\ FreshBlocks

(***************************************************************************)
(* What the blocks hold.                                                   *)
(***************************************************************************)

\* A committed chunk lies in one piece, the reader is either before it or past
\* it, and all its blocks carry the record that its thread has committed.
ChunksWhole ==
    \A c \in Window : BlockAt(c).status = "used" =>
        LET b == BlockAt(c)
        IN  /\ Slot(c) + b.num <= N
            /\ c < cacheCursor => c + b.num <= cacheCursor
            /\ \A d \in c..(c + b.num - 1) : BlockAt(d).chunk = b.chunk
            /\ b.chunk \in Chunks /\ b.chunk[2] <= sent[b.chunk[1]]

GapsOverTheEnd ==
    \A c \in Window : BlockAt(c).status = "invalid" => Slot(c) + BlockAt(c).num > N

\* What a thread has reserved and filled.
FilledWhole ==
    \A p \in Producers :
        /\ pc[p] \in {"filling", "filled"} => Contiguous(p)
        /\ pc[p] = "filled" =>
              \A d \in cur[p]..(NextCursor(p) - 1) : BlockAt(d).chunk = ChunkOf(p)

\* Bytes of a record lie over a header only behind the reader, in what a thread
\* has filled, and behind the header of a committed chunk.
DataInside ==
    \A d \in Window : BlockAt(d).status = "data" =>
        \/ d < cacheCursor
        \/ \E p \in Producers : pc[p] = "filled" /\ cur[p] < d /\ d < NextCursor(p)
        \/ \E c \in Window : /\ Header(c) /\ BlockAt(c).status = "used"
                             /\ c < d /\ d < c + BlockAt(c).num

HeldIsHead == rpc = "holding" => HeadBlock.chunk = held

DataInv ==
    ChunksWhole /\ GapsOverTheEnd /\ FilledWhole /\ DataInside /\ HeldIsHead

RingInv == IInv /\ DataInv

=============================================================================
