----------------------------- MODULE LogBuffer -----------------------------
(***************************************************************************)
(* log_buffer (src/bq_log/types/buffer/log_buffer.cpp): the buffer of one  *)
(* log, between the threads that log and the one reader.                   *)
(*                                                                         *)
(* A thread that logs seldom writes into the ring all threads share        *)
(* (lp_buffer_); one that logs often has a block to itself, from a list of *)
(* groups of blocks (hp_buffer_).  A thread goes back and forth between    *)
(* the two, so its records lie about in several places at once.  Each      *)
(* block, and each chunk in the ring, carries a sequence number of its     *)
(* thread, and the reader takes them in that order.  The reader goes round *)
(* the ring, the groups and their blocks, and says "empty" only after a    *)
(* whole round; on the way it puts emptied blocks back and deletes groups. *)
(*                                                                         *)
(* No recovery: there is one version_, so verify_context answers valid or  *)
(* seq_pending.  No oversize chunks.  The ring is ReservationQueue, the    *)
(* buffer of a block a bounded queue with one writer, the stack operations *)
(* and the locks of group_list one step each.                              *)
(***************************************************************************)
EXTENDS Integers, Sequences, SequencesExt

CONSTANTS
    Threads,
    Groups,         \* the group_node objects that can exist at a time
    BlocksPerGroup, \* BLOCKS_PER_GROUP_NODE
    Rounds,         \* bound: how many records each thread logs
    LpRoom,         \* bound: how many chunks are in the ring at a time
    BlockRoom,      \* how many chunks the buffer of a block takes
    AutoExpand,     \* policy auto_expand_when_full, or another
    None

Blocks == Groups \X (1..BlocksPerGroup)

ASSUME LogBufferAssumption ==
    /\ BlocksPerGroup \in Nat \ {0} /\ Rounds \in [Threads -> Nat]
    /\ LpRoom \in Nat \ {0} /\ BlockRoom \in Nat \ {0}
    /\ AutoExpand \in BOOLEAN
    /\ None \notin Threads \cup Groups /\ \A b \in Blocks : b # None

VARIABLES
    lp,         \* lp_buffer_: [t, seq, num, done], num = 0 for the finish mark
    groups,     \* the list of groups, head first
    free, used, stage,  \* the three lists of blocks of each group
    context,    \* block_misc_data of each block
    data,       \* the chunks in each block's buffer
    pc,         \* where each thread is
    curBlock,   \* cur_block_ of each thread
    writeSeq,   \* current_write_seq_
    sent,       \* how many records each thread has committed
    readSeq,    \* current_read_seq_
    deleted,    \* the threads whose log_tls_buffer_info the reader deleted
    reader,     \* rt_cache_ of the reader
    rpc,        \* where the reader is
    read,       \* how many records of each thread the reader was handed
    waiting,    \* how many could be read when the last round began
    owed        \* the same of the last round that answered "empty"

threadVars == <<pc, curBlock, writeSeq, sent>>
readerVars == <<readSeq, deleted, reader, rpc, read, waiting, owed>>
blockVars == <<groups, free, used, stage, context, data>>
vars == <<lp, blockVars, threadVars, readerVars>>

NoContext == [t |-> None, seq |-> 0, finished |-> FALSE,
              removed |-> FALSE, reallocate |-> FALSE]

Init ==
    /\ lp = <<>>
    /\ groups = <<>>
    /\ free = [g \in Groups |-> [i \in 1..BlocksPerGroup |-> <<g, i>>]]
    /\ used = [g \in Groups |-> <<>>]
    /\ stage = [g \in Groups |-> <<>>]
    /\ context = [b \in Blocks |-> NoContext]
    /\ data = [b \in Blocks |-> <<>>]
    /\ pc = [t \in Threads |-> "idle"]
    /\ curBlock = [t \in Threads |-> None]
    /\ writeSeq = [t \in Threads |-> 0]
    /\ sent = [t \in Threads |-> 0]
    /\ readSeq = [t \in Threads |-> 0]
    /\ deleted = {}
    /\ reader = [state |-> "lp", curGroup |-> None, lastGroup |-> None,
                 curBlock |-> None, lastBlock |-> None,
                 endWorking |-> FALSE, endBlock |-> None,
                 marked |-> FALSE, using |-> 0, holes |-> 0,
                 batch |-> 0, size |-> 0]
    /\ rpc = "idle"
    /\ read = [t \in Threads |-> 0]
    /\ waiting = [t \in Threads |-> 0]
    /\ owed = [t \in Threads |-> 0]

-----------------------------------------------------------------------------
\* The threads that log

Goto(t, l) == pc' = [pc EXCEPT ![t] = l]
TakeSeq(t) == writeSeq' = [writeSeq EXCEPT ![t] = @ + 1]
Mark(b) == context' = [context EXCEPT ![b].removed = TRUE]

\* alloc_write_chunk is called.  How often the thread has logged of late
\* decides for the ring or a block; either can follow on either.
Call(t) ==
    /\ pc[t] = "idle" /\ sent[t] < Rounds[t]
    /\ Goto(t, "lp") \/ Goto(t, "hp")
    /\ UNCHANGED <<lp, blockVars, curBlock, writeSeq, sent, readerVars>>

\* The thread has a block, and the reader has asked it to move to another.
LeaveBlock(t) ==
    /\ pc[t] = "hp" /\ curBlock[t] # None /\ context[curBlock[t]].reallocate
    /\ Mark(curBlock[t])
    /\ Goto(t, "new")
    /\ UNCHANGED <<lp, groups, free, used, stage, data, curBlock, writeSeq, sent,
                   readerVars>>

\* The groups with a free block; a new group is made at the head when no such
\* group was seen on the way, though one may have got a block since, unless
\* the second look finds one in the head.
WithFree == {g \in ToSet(groups) : free[g] # <<>>}
HeadIsFull == groups # <<>> => free[Head(groups)] = <<>>

\* alloc_new_hp_block and group_list::alloc_new_block.
NewBlock(t) ==
    /\ \/ pc[t] = "new"
       \/ pc[t] = "hp" /\ curBlock[t] = None
    /\ \E g \in Groups :
        /\ \/ g \in WithFree /\ UNCHANGED groups
           \/ g \notin ToSet(groups) /\ HeadIsFull /\ groups' = <<g>> \o groups
        /\ LET b == Head(free[g])
           IN  /\ free' = [free EXCEPT ![g] = Tail(@)]
               /\ stage' = [stage EXCEPT ![g] = <<b>> \o @]
               /\ context' = [context EXCEPT ![b] =
                        [NoContext EXCEPT !.t = t, !.seq = writeSeq[t]]]
               /\ data' = [data EXCEPT ![b] = <<>>]
               /\ curBlock' = [curBlock EXCEPT ![t] = b]
    /\ TakeSeq(t)
    /\ Goto(t, "put")
    /\ UNCHANGED <<lp, used, sent, readerVars>>

\* The chunk is allocated in the block, filled and committed: the reader sees
\* nothing of it before the commit.
PutInBlock(t) ==
    /\ \/ pc[t] = "put"
       \/ pc[t] = "hp" /\ curBlock[t] # None /\ ~context[curBlock[t]].reallocate
    /\ Len(data[curBlock[t]]) < BlockRoom
    /\ data' = [data EXCEPT ![curBlock[t]] = Append(@, sent[t] + 1)]
    /\ sent' = [sent EXCEPT ![t] = @ + 1]
    /\ Goto(t, "idle")
    /\ UNCHANGED <<lp, groups, free, used, stage, context, curBlock, writeSeq, readerVars>>

\* The block is full: another one, or the record is refused.
BlockFull(t) ==
    /\ \/ pc[t] = "put"
       \/ pc[t] = "hp" /\ curBlock[t] # None /\ ~context[curBlock[t]].reallocate
    /\ Len(data[curBlock[t]]) = BlockRoom
    /\ IF AutoExpand
       THEN Mark(curBlock[t]) /\ Goto(t, "new")
       ELSE Goto(t, "idle") /\ UNCHANGED context
    /\ UNCHANGED <<lp, groups, free, used, stage, data, curBlock, writeSeq, sent,
                   readerVars>>

\* A place in the ring, with the thread's next number.
Reserve(t) ==
    /\ pc[t] = "lp" /\ Len(lp) < LpRoom
    /\ lp' = Append(lp, [t |-> t, seq |-> writeSeq[t], num |-> sent[t] + 1,
                         done |-> FALSE])
    /\ TakeSeq(t)
    /\ Goto(t, IF curBlock[t] = None THEN "commit" ELSE "forget")
    /\ UNCHANGED <<blockVars, curBlock, sent, readerVars>>

\* The ring may refuse, whatever is in it: places that are given back later
\* count for the moment.
LpFull(t) ==
    /\ pc[t] = "lp"
    /\ Goto(t, IF AutoExpand THEN "hp"
               ELSE IF curBlock[t] = None THEN "idle" ELSE "forgetIdle")
    /\ UNCHANGED <<lp, blockVars, curBlock, writeSeq, sent, readerVars>>

\* The thread has gone over to the ring: its block is given up.
ForgetBlock(t) ==
    /\ pc[t] \in {"forget", "forgetIdle"}
    /\ Mark(curBlock[t])
    /\ curBlock' = [curBlock EXCEPT ![t] = None]
    /\ Goto(t, IF pc[t] = "forget" THEN "commit" ELSE "idle")
    /\ UNCHANGED <<lp, groups, free, used, stage, data, writeSeq, sent, readerVars>>

\* The ring once the place of t in it is committed.
Committed(t) == [i \in DOMAIN lp |->
                IF lp[i].t = t THEN [lp[i] EXCEPT !.done = TRUE] ELSE lp[i]]

CommitInRing(t) ==
    /\ pc[t] = "commit"
    /\ lp' = Committed(t)
    /\ sent' = [sent EXCEPT ![t] = @ + 1]
    /\ Goto(t, "idle")
    /\ UNCHANGED <<blockVars, curBlock, writeSeq, readerVars>>

\* Mutant: the block is only given up.
EndWithBlockQuietly(t) ==
    /\ pc[t] = "idle" /\ curBlock[t] # None
    /\ Mark(curBlock[t])
    /\ Goto(t, "gone")
    /\ UNCHANGED <<lp, groups, free, used, stage, data, curBlock, writeSeq, sent,
                   readerVars>>

\* ~log_tls_info: the thread ends.  Its block tells the reader so, or else a
\* mark in the ring.
EndWithBlock(t) ==
    /\ pc[t] = "idle" /\ curBlock[t] # None
    /\ context' = [context EXCEPT ![curBlock[t]].finished = TRUE,
                                  ![curBlock[t]].removed = TRUE]
    /\ Goto(t, "gone")
    /\ UNCHANGED <<lp, groups, free, used, stage, data, curBlock, writeSeq, sent,
                   readerVars>>

EndWithMark(t) ==
    /\ pc[t] = "idle" /\ curBlock[t] = None /\ Len(lp) < LpRoom
    /\ lp' = Append(lp, [t |-> t, seq |-> writeSeq[t], num |-> 0, done |-> FALSE])
    /\ TakeSeq(t)
    /\ Goto(t, "mark")
    /\ UNCHANGED <<blockVars, curBlock, sent, readerVars>>

CommitMark(t) ==
    /\ pc[t] = "mark"
    /\ lp' = Committed(t)
    /\ Goto(t, "gone")
    /\ UNCHANGED <<blockVars, curBlock, writeSeq, sent, readerVars>>

Proceed(t) ==
    \/ LeaveBlock(t) \/ NewBlock(t) \/ PutInBlock(t) \/ BlockFull(t)
    \/ Reserve(t) \/ LpFull(t) \/ ForgetBlock(t) \/ CommitInRing(t) \/ CommitMark(t)
End(t) == EndWithBlock(t) \/ EndWithMark(t)

-----------------------------------------------------------------------------
\* The reader

State(s) == reader' = [reader EXCEPT !.state = s]

\* Mutant: the round ends where the last one was to end.
RefreshedNever(r) == r

\* refresh_traverse_end_mark: the round ends where it begins, unless that
\* block is about to be put back.
Refreshed(r) ==
    IF r.marked /\ r.curBlock # None
    THEN [r EXCEPT !.endWorking = FALSE]
    ELSE [r EXCEPT !.endWorking = TRUE, !.endBlock = r.curBlock]

\* deregister_seq: the reader is through with this number of the thread.
Deregister(t, finished) ==
    IF finished
    THEN deleted' = deleted \cup {t} /\ UNCHANGED readSeq
    ELSE readSeq' = [readSeq EXCEPT ![t] = @ + 1] /\ UNCHANGED deleted

\* How many records of t could be read now: those committed, up to the first
\* that stands in the ring behind a place that is not committed.
Stuck(t) == {lp[i].num : i \in {j \in DOMAIN lp :
                /\ lp[j].t = t /\ lp[j].num # 0
                /\ \E k \in 1..j : ~lp[k].done}}
Readable(t) ==
    IF Stuck(t) = {} THEN sent[t]
    ELSE CHOOSE n \in 0..sent[t] : n + 1 \in Stuck(t) /\ \A m \in Stuck(t) : n < m

\* read_chunk: the next chunk of the batch.
NextOfBatch ==
    /\ rpc = "idle" /\ reader.batch > 0
    /\ LET b == reader.curBlock
           t == context[b].t
       IN  read' = [read EXCEPT ![t] = data[b][reader.size - reader.batch + 1]]
    /\ reader' = [reader EXCEPT !.batch = @ - 1]
    /\ rpc' = "block"
    /\ UNCHANGED <<lp, blockVars, threadVars, readSeq, deleted, waiting, owed>>

\* read_chunk, when there is no batch: a round begins.
BeginRound ==
    /\ rpc = "idle" /\ reader.batch = 0
    /\ reader' = Refreshed(reader)
    /\ waiting' = [t \in Threads |-> Readable(t)]
    /\ rpc' = "round"
    /\ UNCHANGED <<lp, blockVars, threadVars, readSeq, deleted, read, owed>>

\* Mutant: the chunks of the ring are taken as they come.
TakenAsIs(c) == TRUE

\* verify_context
Verified(c) == c.seq = readSeq[c.t]
RingHasNext == lp # <<>> /\ Head(lp).done /\ Verified(Head(lp))

ReadRing ==
    /\ rpc = "round" /\ reader.state = "lp" /\ RingHasNext /\ Head(lp).num # 0
    /\ read' = [read EXCEPT ![Head(lp).t] = Head(lp).num]
    /\ rpc' = "ring"
    /\ UNCHANGED <<lp, blockVars, threadVars, readSeq, deleted, reader, waiting, owed>>

\* The mark that a thread has ended is used up at once.
ReadMark ==
    /\ rpc = "round" /\ reader.state = "lp" /\ RingHasNext /\ Head(lp).num = 0
    /\ Deregister(Head(lp).t, TRUE)
    /\ lp' = Tail(lp)
    /\ reader' = Refreshed(reader)
    /\ UNCHANGED <<blockVars, threadVars, rpc, read, waiting, owed>>

\* Nothing in the ring, or its turn has not come.
LeaveRing ==
    /\ rpc = "round" /\ reader.state = "lp" /\ ~RingHasNext
    /\ State("nextGroup")
    /\ UNCHANGED <<lp, blockVars, threadVars, readSeq, deleted, rpc, read, waiting, owed>>

\* batch_read: all that is in the block now.
ReadBlock ==
    /\ rpc = "round" /\ reader.state = "hp"
    /\ LET b == reader.curBlock
       IN  IF data[b] # <<>>
           THEN /\ read' = [read EXCEPT ![context[b].t] = Head(data[b])]
                /\ reader' = [reader EXCEPT !.size = Len(data[b]),
                                            !.batch = Len(data[b]) - 1]
                /\ rpc' = "block"
           ELSE State("nextBlock") /\ UNCHANGED <<read, rpc>>
    /\ UNCHANGED <<lp, blockVars, threadVars, readSeq, deleted, waiting, owed>>

InGroup(b) == b # None /\ reader.curGroup = b[1]
After(s, x) == {i \in 2..Len(s) : s[i - 1] = x}

\* The block behind the current one in used_, or the first.
NextUsed ==
    LET u == used[reader.curGroup]
        places == IF InGroup(reader.curBlock) THEN After(u, reader.curBlock)
                  ELSE DOMAIN u \cap {1}
    IN IF places = {} THEN None ELSE u[CHOOSE i \in places : TRUE]

PlaceOf(s, x) == IF x \in ToSet(s) THEN CHOOSE i \in DOMAIN s : s[i] = x ELSE 0

\* block_list::remove_thread_unsafe, which believes what it is told about the
\* block in front of b: None unlinks all up to b.
Unlink(s, before, b) ==
    SubSeq(s, 1, PlaceOf(s, before)) \o SubSeq(s, PlaceOf(s, b) + 1, Len(s))

\* The block that is left is put back if it was marked when the reader came to
\* it: then nothing can have come into it since it was found empty.
Recycles == InGroup(reader.curBlock) /\ reader.marked
Before == IF InGroup(reader.lastBlock) THEN reader.lastBlock ELSE None

\* rt_try_traverse_to_next_block_in_group, for the first half: the block is
\* looked for in used_ and then in stage_, and the block that is left is put
\* back.  It gives the block found.
LeaveCurrent(next) ==
    LET g == reader.curGroup
        b == reader.curBlock
        grown == IF NextUsed = None /\ next # None THEN Append(used[g], next) ELSE used[g]
    IN  /\ IF NextUsed # None THEN next = NextUsed /\ UNCHANGED stage
           ELSE IF stage[g] # <<>>
           THEN next = Head(stage[g]) /\ stage' = [stage EXCEPT ![g] = Tail(@)]
           ELSE next = None /\ UNCHANGED stage
        /\ IF Recycles
           THEN /\ Deregister(context[b].t, context[b].finished)
                /\ used' = [used EXCEPT ![g] = Unlink(grown, Before, b)]
                /\ free' = [free EXCEPT ![g] = <<b>> \o @]
           ELSE /\ used' = [used EXCEPT ![g] = grown]
                /\ UNCHANGED <<readSeq, deleted, free>>

\* Mutant: the block that was put back stays the last one.
LeftBehind ==
    LET b == reader.curBlock
        r == IF Recycles THEN Refreshed(reader) ELSE reader
    IN  [r EXCEPT !.using = IF InGroup(b) /\ ~reader.marked THEN @ + 1 ELSE @,
                  !.lastBlock = b]

\* What the reader keeps once it has left its block.
Left ==
    LET b == reader.curBlock
        r == IF Recycles THEN Refreshed(reader) ELSE reader
    IN  [r EXCEPT
            !.using = IF InGroup(b) /\ ~reader.marked THEN @ + 1 ELSE @,
            !.lastBlock = IF b = None \/ (InGroup(b) /\ ~reader.marked) THEN b ELSE @]

\* Mutant: the mark counts though the block's turn has not come.
MarkedAnyway(c) == c.removed

\* The turn of the block has come and its thread has given it up, as the
\* reader sees it now.
MarkedNow(c) == c.removed /\ c.seq = readSeq'[c.t]

\* What read_chunk_full_impl makes of the block it has come to.
Entered(r, b) ==
    LET c == context[b]
        valid == c.seq = readSeq'[c.t]
        e == [r EXCEPT !.curBlock = b, !.marked = MarkedNow(c),
                       !.holes = IF @ > 0 THEN @ - 1 ELSE @]
    IN  IF ~valid THEN [e EXCEPT !.endWorking = FALSE]
        ELSE IF e.endWorking /\ e.endBlock = b THEN [e EXCEPT !.state = "completed"]
        ELSE IF ~e.endWorking /\ ~e.marked
        THEN [e EXCEPT !.endWorking = TRUE, !.endBlock = b, !.state = "hp"]
        ELSE [e EXCEPT !.state = "hp"]

\* The block found: the reader asks its thread to move if there were holes in
\* the groups before.
EnterBlock ==
    /\ rpc = "round" /\ reader.state = "nextBlock"
    /\ \E next \in Blocks :
        /\ LeaveCurrent(next)
        /\ reader' = Entered(Left, next)
        /\ context' = [context EXCEPT ![next].reallocate = @ \/ reader.holes > 0]
    /\ UNCHANGED <<lp, groups, data, threadVars, rpc, read, waiting, owed>>

\* No further block in the group.
LeaveGroup ==
    /\ rpc = "round" /\ reader.state = "nextBlock"
    /\ LeaveCurrent(None)
    /\ reader' = [Left EXCEPT !.curBlock = IF Recycles THEN Left.lastBlock ELSE @,
                              !.marked = FALSE, !.state = "nextGroup"]
    /\ UNCHANGED <<lp, groups, context, data, threadVars, rpc, read, waiting, owed>>

NextOf(g) ==
    LET places == IF g = None THEN DOMAIN groups \cap {1} ELSE After(groups, g)
    IN IF places = {} THEN None ELSE groups[CHOOSE i \in places : TRUE]

\* rt_try_traverse_to_next_group: a group without blocks in use is deleted,
\* under the write lock of the pointer to it.
Deletes ==
    /\ reader.using = 0 /\ reader.curGroup # None
    /\ used[reader.curGroup] = <<>> /\ stage[reader.curGroup] = <<>>

NextGroup ==
    /\ rpc = "round" /\ reader.state = "nextGroup"
    /\ LET g == reader.curGroup
           next == NextOf(g)
           kept == g # None /\ ~Deletes
           r == [reader EXCEPT
                    !.holes = IF next = None THEN 0
                              ELSE IF kept THEN @ + BlocksPerGroup - reader.using ELSE @,
                    !.using = 0,
                    !.lastGroup = IF Deletes THEN @ ELSE g,
                    !.curGroup = next]
       IN  /\ groups' = IF Deletes THEN RemoveAt(groups, PlaceOf(groups, g)) ELSE groups
           /\ reader' =
                IF next # None THEN [r EXCEPT !.state = "nextBlock"]
                ELSE [r EXCEPT
                        !.curBlock = None, !.lastBlock = None,
                        !.state = IF r.endWorking /\ r.endBlock = None
                                  THEN "completed" ELSE "lp",
                        !.endBlock = IF r.endWorking THEN @ ELSE None,
                        !.endWorking = TRUE]
    /\ UNCHANGED <<lp, free, used, stage, context, data, threadVars, readSeq,
                   deleted, rpc, read, waiting, owed>>

\* A whole round without a chunk: the answer is "empty".
Complete ==
    /\ rpc = "round" /\ reader.state = "completed"
    /\ State(IF reader.curBlock # None THEN "hp" ELSE "lp")
    /\ rpc' = "empty"
    /\ UNCHANGED <<lp, blockVars, threadVars, readSeq, deleted, read, waiting, owed>>

Round == ReadRing \/ ReadMark \/ LeaveRing \/ ReadBlock \/ EnterBlock
            \/ LeaveGroup \/ NextGroup \/ Complete

\* return_read_chunk: the space of a batch is given back with its last chunk.
ReturnToBlock ==
    /\ rpc = "block"
    /\ data' = IF reader.batch > 0 THEN data
               ELSE [data EXCEPT ![reader.curBlock] = SubSeq(@, reader.size + 1, Len(@))]
    /\ rpc' = "idle"
    /\ UNCHANGED <<lp, groups, free, used, stage, context, threadVars, readSeq,
                   deleted, reader, read, waiting, owed>>

ReturnToRing ==
    /\ rpc = "ring"
    /\ Deregister(Head(lp).t, FALSE)
    /\ reader' = Refreshed(reader)
    /\ lp' = Tail(lp)
    /\ rpc' = "idle"
    /\ UNCHANGED <<blockVars, threadVars, read, waiting, owed>>

ReturnEmpty ==
    /\ rpc = "empty"
    /\ owed' = waiting
    /\ rpc' = "idle"
    /\ UNCHANGED <<lp, blockVars, threadVars, readSeq, deleted, reader, read, waiting>>

Reader == NextOfBatch \/ BeginRound \/ Round
            \/ ReturnToBlock \/ ReturnToRing \/ ReturnEmpty

-----------------------------------------------------------------------------

Next == Reader \/ \E t \in Threads : Call(t) \/ Proceed(t) \/ End(t)

Spec == Init /\ [][Next]_vars

\* A thread that is inside alloc or between alloc and commit goes on; the
\* worker thread keeps reading.
Fairness == WF_vars(Reader) /\ \A t \in Threads : WF_vars(Proceed(t))
FairSpec == Spec /\ Fairness

-----------------------------------------------------------------------------

Live == ToSet(groups)
InUse == UNION {ToSet(used[g]) \cup ToSet(stage[g]) : g \in Live}

TypeOK ==
    /\ lp \in Seq([t : Threads, seq : Nat, num : Nat, done : BOOLEAN])
    /\ groups \in Seq(Groups) /\ IsInjective(groups)
    /\ free \in [Groups -> Seq(Blocks)] /\ used \in [Groups -> Seq(Blocks)]
    /\ stage \in [Groups -> Seq(Blocks)]
    /\ context \in [Blocks -> [t : Threads \cup {None}, seq : Nat, finished : BOOLEAN,
                                removed : BOOLEAN, reallocate : BOOLEAN]]
    /\ data \in [Blocks -> Seq(Nat)] /\ \A b \in Blocks : Len(data[b]) <= BlockRoom
    /\ pc \in [Threads -> {"idle", "lp", "hp", "new", "put", "commit", "forget",
                           "forgetIdle", "mark", "gone"}]
    /\ curBlock \in [Threads -> Blocks \cup {None}]
    /\ writeSeq \in [Threads -> Nat] /\ readSeq \in [Threads -> Nat]
    /\ sent \in [Threads -> Nat] /\ read \in [Threads -> Nat]
    /\ deleted \subseteq Threads
    /\ reader \in [state : {"lp", "nextGroup", "nextBlock", "hp", "completed"},
                   curGroup : Groups \cup {None}, lastGroup : Groups \cup {None},
                   curBlock : Blocks \cup {None}, lastBlock : Blocks \cup {None},
                   endWorking : BOOLEAN, endBlock : Blocks \cup {None},
                   marked : BOOLEAN, using : Int, holes : Int, batch : Nat, size : Nat]
    /\ rpc \in {"idle", "round", "block", "ring", "empty"}

\* "Principle 2" of read_chunk_full_impl says that after a full round without a
\* chunk there was truly no data.  That fails, as blocks, groups and records come
\* and go meanwhile; but what a round that answered "empty" has missed is handed
\* out before the answer is "empty" again: two rounds always suffice.
SecondEmptyIsTrue == rpc = "empty" => \A t \in Threads : read[t] >= owed[t]

\* The numbers the reader goes by never overtake each other (the assert of
\* verify_context), and nothing still refers to a thread's
\* log_tls_buffer_info after the reader has deleted it.
NothingOverdue ==
    /\ \A i \in DOMAIN lp : lp[i].t \notin deleted /\ lp[i].seq >= readSeq[lp[i].t]
    /\ \A b \in InUse : context[b].t \notin deleted /\ context[b].seq >= readSeq[context[b].t]

\* Each block is in exactly one list of its group, in a deleted group all are
\* free ("all blocks should be free when group is removed"), and a block that
\* is free holds nothing that was not read and belongs to no thread.
BlocksAccounted ==
    /\ \A g \in Groups :
        LET all == free[g] \o used[g] \o stage[g]
        IN  /\ IsInjective(all) /\ Len(all) = BlocksPerGroup
            /\ g \notin Live => Len(free[g]) = BlocksPerGroup
    /\ \A b \in Blocks \ InUse :
        /\ data[b] = <<>>
        /\ \A t \in Threads : curBlock[t] = b => context[b].removed

\* What the reader remembers stays good: its block is in use, and the block
\* and the group it takes for the ones in front of its own really are (the
\* asserts of recycle_block_thread_unsafe and of rt_try_traverse_to_next_group).
ReaderKnowsItsWay ==
    /\ reader.curGroup # None => reader.curGroup \in Live
    /\ reader.curBlock # None => reader.curBlock \in InUse
    /\ reader.lastGroup # None /\ reader.curGroup # None
            => NextOf(reader.lastGroup) = reader.curGroup
    /\ InGroup(reader.curBlock) /\ reader.marked =>
        LET u == used[reader.curGroup]
        IN IF Before = None THEN Head(u) = reader.curBlock
           ELSE \E i \in After(u, Before) : u[i] = reader.curBlock

\* A call of read_chunk comes to an end if the threads that are inside alloc
\* or commit go on.
RoundEnds == rpc = "round" ~> rpc # "round"

\* What is committed is read.
AllIsRead ==
    \A t \in Threads : \A n \in 1..Rounds[t] : sent[t] = n ~> read[t] >= n

\* Once all threads have ended the memory is given back: no group is left and
\* what the threads had is deleted.
AllIsGivenBack ==
    (\A t \in Threads : pc[t] = "gone") ~> (groups = <<>> /\ deleted = Threads)

\* Each thread's records come out in order, once, none left out, although they
\* lie in the ring and in several blocks at the same time.
Stream == INSTANCE LogStream
ImplementsStream == Stream!Spec

\* Nothing the reader or a thread goes by has been given away: every block is in
\* one list, and the places the reader remembers between calls are still there.
NothingDangles == BlocksAccounted /\ ReaderKnowsItsWay

\* What is committed is read, and no call of read_chunk goes round for ever.
EverythingIsRead == RoundEnds /\ AllIsRead

\* What is committed is read, and when the threads have ended all the memory is
\* given back.
ReadAndGivenBack == EverythingIsRead /\ AllIsGivenBack
=============================================================================
