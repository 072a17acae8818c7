----------------------------- MODULE GroupList -----------------------------
(***************************************************************************)
(* group_list (src/bq_log/types/buffer/group_list.h, group_list.cpp): the  *)
(* list of groups of blocks from which the threads take blocks, and from   *)
(* which the one reader deletes groups that have none in use.              *)
(*                                                                         *)
(* Every pointer of the list has a reader-writer lock.  A thread looks for *)
(* a free block hand over hand with read locks, and puts a new group at    *)
(* the head under the write lock of the head.  The reader walks the list   *)
(* with no lock at all, because nobody else takes groups out; to delete a  *)
(* group it takes the write lock of the pointer to it, and for a moment    *)
(* that of the group's own pointer, to be sure that nobody is inside.      *)
(*                                                                         *)
(* The locks are those of RwLock, which RwSpinLock implements; the stacks  *)
(* of blocks are sets whose operations are one step each.                  *)
(***************************************************************************)
EXTENDS Naturals, FiniteSets

CONSTANTS
    Threads,
    Groups,         \* the group_node objects that can exist at a time
    BlocksPerGroup,
    Head,           \* the pointer head_
    Reader, None

ASSUME GroupListAssumption ==
    /\ IsFiniteSet(Threads) /\ IsFiniteSet(Groups)
    /\ BlocksPerGroup \in Nat \ {0}
    /\ Head \notin Groups /\ Reader \notin Threads
    /\ None \notin Groups \cup {Head} \cup (Groups \X (1..BlocksPerGroup))

Blocks == Groups \X (1..BlocksPerGroup)
BlocksOf(g) == {g} \X (1..BlocksPerGroup)
Pointers == {Head} \cup Groups      \* a group stands for its next pointer

VARIABLES
    node,       \* node_ of each pointer
    reads,      \* the threads that hold the read lock of each pointer
    writes,     \* the one that holds its write lock
    pool,       \* pool_, and the groups that do not exist
    free, stage, used,  \* the blocks in these lists, of all groups
    removed,    \* the blocks that are marked removed
    pc, behind, at, block,  \* of each thread: where it is, last_pointer_ and
                            \* value_ of its iterator, the block it has
    rpc, rbehind, rat,      \* the same of the reader's locking iterator
    cur, last, next         \* cur_group_, last_group_, next_group of the reader

lists == <<free, stage, used, removed>>
threadVars == <<pc, behind, at, block>>
readerVars == <<rpc, rbehind, rat, cur, last, next>>
vars == <<node, reads, writes, pool, lists, threadVars, readerVars>>

Init ==
    /\ node = [p \in Pointers |-> None]
    /\ reads = [p \in Pointers |-> {}]
    /\ writes = [p \in Pointers |-> {}]
    /\ pool = Groups
    /\ free = Blocks /\ stage = {} /\ used = {} /\ removed = {}
    /\ pc = [t \in Threads |-> "idle"]
    /\ behind = [t \in Threads |-> None]
    /\ at = [t \in Threads |-> None]
    /\ block = [t \in Threads |-> None]
    /\ rpc = "walk" /\ rbehind = None /\ rat = None
    /\ cur = None /\ last = None /\ next = None

CanRead(p) == writes[p] = {}
CanWrite(p) == writes[p] = {} /\ reads[p] = {}
Goto(t, l) == pc' = [pc EXCEPT ![t] = l]

-----------------------------------------------------------------------------
\* alloc_new_block

Allocating == {t \in Threads : pc[t] \notin {"idle", "has"}}

\* Bound: a thread starts only while there are groups for all that may need
\* a new one.
RoomToGrow == Cardinality(Groups \ pool) + Cardinality(Allocating) < Cardinality(Groups)

\* first(read_lock).  A thread that had a block has marked it removed.
First(t) ==
    /\ pc[t] = "idle" /\ RoomToGrow
    /\ CanRead(Head)
    /\ IF node[Head] = None
       THEN Goto(t, "grow") /\ UNCHANGED <<reads, behind, at>>
       ELSE /\ reads' = [reads EXCEPT ![Head] = @ \cup {t}]
            /\ behind' = [behind EXCEPT ![t] = Head]
            /\ at' = [at EXCEPT ![t] = node[Head]]
            /\ Goto(t, "look")
    /\ UNCHANGED <<node, writes, pool, lists, block, readerVars>>

FreeIn(g) == free \cap BlocksOf(g)

\* free_.pop() of the group the thread is at.
Pop(t) ==
    /\ pc[t] = "look" /\ FreeIn(at[t]) # {}
    /\ \E b \in FreeIn(at[t]) :
        /\ free' = free \ {b}
        /\ block' = [block EXCEPT ![t] = b]
    /\ Goto(t, "push")
    /\ UNCHANGED <<node, reads, writes, pool, stage, used, removed, behind, at, readerVars>>

\* next(read_lock): first the lock of the next pointer is taken ...
LockNext(t) ==
    /\ pc[t] = "look" /\ FreeIn(at[t]) = {}
    /\ CanRead(at[t])
    /\ reads' = [reads EXCEPT ![at[t]] = @ \cup {t}]
    /\ Goto(t, "hop")
    /\ UNCHANGED <<node, writes, pool, lists, behind, at, block, readerVars>>

\* ... and then the last one is given back, both at the end of the list.
Hop(t) ==
    /\ pc[t] = "hop"
    /\ LET g == at[t]
           end == node[g] = None
       IN  /\ reads' = [p \in Pointers |->
                    IF p = behind[t] \/ (p = g /\ end) THEN reads[p] \ {t} ELSE reads[p]]
           /\ behind' = [behind EXCEPT ![t] = IF end THEN None ELSE g]
           /\ at' = [at EXCEPT ![t] = node[g]]
           /\ Goto(t, IF end THEN "grow" ELSE "look")
    /\ UNCHANGED <<node, writes, pool, lists, block, readerVars>>

\* stage_.push(): from here on the reader finds the block.
Push(t) ==
    /\ pc[t] \in {"push", "growPush"}
    /\ stage' = stage \cup {block[t]}
    /\ Goto(t, IF pc[t] = "push" THEN "unlock" ELSE "growUnlock")
    /\ UNCHANGED <<node, reads, writes, pool, free, used, removed, behind, at, block,
                   readerVars>>

\* next(no_lock) gives the lock back.
Unlock(t) ==
    /\ pc[t] = "unlock"
    /\ reads' = [reads EXCEPT ![behind[t]] = @ \ {t}]
    /\ behind' = [behind EXCEPT ![t] = None]
    /\ at' = [at EXCEPT ![t] = None]
    /\ Goto(t, "has")
    /\ UNCHANGED <<node, writes, pool, lists, block, readerVars>>

\* Mutant: the head is not locked for the new group.
GrowUnlocked(t) ==
    /\ pc[t] = "grow"
    /\ Goto(t, "grown")
    /\ UNCHANGED <<node, reads, writes, pool, lists, behind, at, block, readerVars>>

\* No free block on the way: the head is locked for a new group.
Grow(t) ==
    /\ pc[t] = "grow" /\ CanWrite(Head)
    /\ writes' = [writes EXCEPT ![Head] = {t}]
    /\ Goto(t, "grown")
    /\ UNCHANGED <<node, reads, pool, lists, behind, at, block, readerVars>>

\* The second look at the first group, or a group from the pool or a new one.
\* Its first block is taken before it is linked in.
Insert(t) ==
    /\ pc[t] = "grown"
    /\ IF node[Head] # None /\ FreeIn(node[Head]) # {}
       THEN /\ \E b \in FreeIn(node[Head]) :
                free' = free \ {b} /\ block' = [block EXCEPT ![t] = b]
            /\ UNCHANGED <<node, pool>>
       ELSE \E g \in pool : \E b \in FreeIn(g) :
                /\ pool' = pool \ {g}
                /\ free' = free \ {b}
                /\ block' = [block EXCEPT ![t] = b]
                /\ node' = [node EXCEPT ![g] = node[Head], ![Head] = g]
    /\ Goto(t, "growPush")
    /\ UNCHANGED <<reads, writes, stage, used, removed, behind, at, readerVars>>

GrowUnlock(t) ==
    /\ pc[t] = "growUnlock"
    /\ writes' = [writes EXCEPT ![Head] = {}]
    /\ Goto(t, "has")
    /\ UNCHANGED <<node, reads, pool, lists, behind, at, block, readerVars>>

\* The thread gives the block up.
GiveUp(t) ==
    /\ pc[t] = "has"
    /\ removed' = removed \cup {block[t]}
    /\ block' = [block EXCEPT ![t] = None]
    /\ Goto(t, "idle")
    /\ UNCHANGED <<node, reads, writes, pool, free, stage, used, behind, at, readerVars>>

Alloc(t) ==
    \/ First(t) \/ Pop(t) \/ LockNext(t) \/ Hop(t) \/ Push(t) \/ Unlock(t)
    \/ Grow(t) \/ Insert(t) \/ GrowUnlock(t)

-----------------------------------------------------------------------------
\* The reader, in rt_try_traverse_to_next_block_in_group

UsedIn(g) == used \cap BlocksOf(g)
StagedIn(g) == stage \cap BlocksOf(g)

TakeStaged ==
    /\ rpc = "walk" /\ cur # None
    /\ \E b \in StagedIn(cur) :
        /\ stage' = stage \ {b}
        /\ used' = used \cup {b}
    /\ UNCHANGED <<node, reads, writes, pool, free, removed, threadVars, readerVars>>

\* recycle_block_thread_unsafe: no lock is needed to push to free_.
Recycle ==
    /\ rpc = "walk" /\ cur # None
    /\ \E b \in UsedIn(cur) \cap removed :
        /\ used' = used \ {b}
        /\ free' = free \cup {b}
        /\ removed' = removed \ {b}
    /\ UNCHANGED <<node, reads, writes, pool, stage, threadVars, readerVars>>

-----------------------------------------------------------------------------
\* The reader, in rt_try_traverse_to_next_group

\* The next group is read without a lock.  A group none of whose blocks stayed
\* in use is to be deleted.
LeaveGroup ==
    /\ rpc = "walk"
    /\ next' = IF cur = None THEN node[Head] ELSE node[cur]
    /\ rpc' = IF cur # None /\ UsedIn(cur) = {} THEN "lock" ELSE "step"
    /\ UNCHANGED <<node, reads, writes, pool, lists, threadVars, rbehind, rat, cur, last>>

\* The write lock of the pointer to the group: behind the group before, or, as
\* other groups may have come in at the head, from the head on.
LockFirst ==
    /\ rpc = "lock"
    /\ LET p == IF last # None THEN last ELSE Head
       IN  /\ CanWrite(p)
           /\ writes' = [writes EXCEPT ![p] = {Reader}]
           /\ rbehind' = p /\ rat' = node[p]
           /\ rpc' = IF node[p] = cur THEN "locked" ELSE "seek"
    /\ UNCHANGED <<node, reads, pool, lists, threadVars, cur, last, next>>

\* next(write_lock): the lock of the next pointer, and then the last is given back.
Seek ==
    /\ rpc = "seek" /\ CanWrite(rat)
    /\ writes' = [writes EXCEPT ![rat] = {Reader}]
    /\ rpc' = "seekHop"
    /\ UNCHANGED <<node, reads, pool, lists, threadVars, rbehind, rat, cur, last, next>>

SeekHop ==
    /\ rpc = "seekHop"
    /\ writes' = [writes EXCEPT ![rbehind] = {}]
    /\ rbehind' = rat /\ rat' = node[rat]
    /\ rpc' = IF node[rat] = cur THEN "locked" ELSE "seek"
    /\ UNCHANGED <<node, reads, pool, lists, threadVars, cur, last, next>>

\* Mutant: the group is deleted without another look.
DecideBlindly ==
    /\ rpc = "locked"
    /\ rpc' = "delete"
    /\ UNCHANGED <<node, reads, writes, pool, lists, threadVars, rbehind, rat, cur, last, next>>

\* Under the lock: is there still no block in use?
Decide ==
    /\ rpc = "locked"
    /\ IF UsedIn(rat) = {} /\ StagedIn(rat) = {}
       THEN rpc' = "delete" /\ UNCHANGED writes
       ELSE rpc' = "step" /\ writes' = [writes EXCEPT ![rbehind] = {}]
    /\ UNCHANGED <<node, reads, pool, lists, threadVars, rbehind, rat, cur, last, next>>

\* Mutant: a thread on its way out of the group is not waited for.
PassThroughBlindly ==
    /\ rpc = "delete"
    /\ rpc' = "unlink"
    /\ UNCHANGED <<node, reads, writes, pool, lists, threadVars, rbehind, rat, cur, last, next>>

\* delete_and_unlock_thread_unsafe: the lock of the group's own pointer is
\* taken and given back, so that all who went through it are gone.
PassThrough ==
    /\ rpc = "delete" /\ CanWrite(rat)
    /\ rpc' = "unlink"
    /\ UNCHANGED <<node, reads, writes, pool, lists, threadVars, rbehind, rat, cur, last, next>>

\* The group is taken out of the list ...
Unlink ==
    /\ rpc = "unlink"
    /\ node' = [node EXCEPT ![rbehind] = node[rat]]
    /\ rpc' = "unlinked"
    /\ UNCHANGED <<reads, writes, pool, lists, threadVars, rbehind, rat, cur, last, next>>

\* ... the lock given back, and the group goes to the pool, from which it may
\* be reused or freed.
Retire ==
    /\ rpc = "unlinked"
    /\ writes' = [writes EXCEPT ![rbehind] = {}]
    /\ pool' = pool \cup {rat}
    /\ cur' = next
    /\ rpc' = "walk"
    /\ rbehind' = None /\ rat' = None
    /\ UNCHANGED <<node, reads, lists, threadVars, last, next>>

\* The group stays.
Step ==
    /\ rpc = "step"
    /\ last' = cur
    /\ cur' = next
    /\ rpc' = "walk"
    /\ rbehind' = None /\ rat' = None
    /\ UNCHANGED <<node, reads, writes, pool, lists, threadVars, next>>

Locking == LockFirst \/ Seek \/ SeekHop
Deleting == Decide \/ PassThrough \/ Unlink \/ Retire
Read == TakeStaged \/ Recycle \/ LeaveGroup \/ Locking \/ Deleting \/ Step

-----------------------------------------------------------------------------

Next == Read \/ \E t \in Threads : Alloc(t) \/ GiveUp(t)

Spec == Init /\ [][Next]_vars

\* Where a thread holds read locks, where it holds the write lock of the head,
\* and where the reader holds the write lock of the pointer behind rat.
Walking == {"look", "hop", "push", "unlock"}
Growing == {"grown", "growPush", "growUnlock"}
Searching == {"seek", "seekHop"}
Removing == {"locked", "delete", "unlink", "unlinked"}

TypeOK ==
    /\ node \in [Pointers -> Groups \cup {None}]
    /\ reads \in [Pointers -> SUBSET Threads]
    /\ writes \in [Pointers -> SUBSET (Threads \cup {Reader})]
    /\ pool \in SUBSET Groups
    /\ free \in SUBSET Blocks /\ stage \in SUBSET Blocks
    /\ used \in SUBSET Blocks /\ removed \in SUBSET Blocks
    /\ pc \in [Threads -> {"idle", "grow", "has"} \cup Walking \cup Growing]
    /\ behind \in [Threads -> Pointers \cup {None}]
    /\ at \in [Threads -> Groups \cup {None}]
    /\ block \in [Threads -> Blocks \cup {None}]
    /\ rpc \in {"walk", "lock", "step"} \cup Searching \cup Removing
    /\ rbehind \in Pointers \cup {None}
    /\ rat \in Groups \cup {None} /\ cur \in Groups \cup {None}
    /\ last \in Groups \cup {None} /\ next \in Groups \cup {None}

\* S holds the group that f links p to, and with a group the one behind it.
ClosedFrom(f, p, S) ==
    /\ f[p] # None => f[p] \in S
    /\ \A g \in S : f[g] # None => f[g] \in S

\* The groups that f links behind p: those in every such set.
From(f, p) == {g \in Groups : \A S \in SUBSET Groups : ClosedFrom(f, p, S) => g \in S}

\* The groups in the list, from pointer p on.
Reach(p) == From(node, p)

InList == Reach(Head)

\* No group is lost from the list and none comes into it twice, whatever is
\* inserted and deleted at the same time: all that are not in the pool are in
\* it, but for the one that was just taken out.
ListWhole ==
    /\ InList = Groups \ (pool \cup (IF rpc = "unlinked" THEN {rat} ELSE {}))
    /\ \A p, q \in {Head} \cup InList : node[p] = node[q] /\ p # q => node[p] = None

\* A block that a thread has taken and not yet put on stage_.
InHand == {block[t] : t \in {u \in Threads : pc[u] \in {"push", "growPush"}}}

\* "all blocks should be free when group is removed" (the assert of
\* rt_try_traverse_to_next_group): no block is lost with its group, though
\* threads take blocks while the reader decides.
RetiredWhole ==
    /\ rpc = "delete" => BlocksOf(rat) \subseteq free
    /\ \A g \in pool : BlocksOf(g) \subseteq free

\* Each block is in one list, or in the hand of one thread.
BlocksOnce ==
    /\ free \cap stage = {} /\ free \cap used = {} /\ stage \cap used = {}
    /\ Blocks \ (free \cup stage \cup used) = InHand
    /\ \A t, u \in Threads : block[t] = block[u] /\ t # u => block[t] = None

\* Nobody is inside a group that is in the pool, nor holds the lock of its
\* pointer: there it may be freed by garbage_collect.
NobodyInRetired ==
    \A t \in Threads :
        /\ at[t] \notin pool /\ behind[t] \notin pool
        /\ \A g \in pool : t \notin reads[g] /\ t \notin writes[g]

\* The reader's plain pointers stay good though it holds no lock: its groups
\* are in the list one behind the other, and a search from the head finds the
\* group (the asserts "try lock removing group failed").
ReaderFindsGroup ==
    /\ cur # None => cur \in InList \cup (IF rpc = "unlinked" THEN {cur} ELSE {})
    /\ cur # None /\ last # None => last \in InList
    /\ rpc \in {"walk", "step", "lock"} /\ cur # None /\ last # None => node[last] = cur
    /\ rpc \in {"seek", "seekHop"} => rat # None /\ cur \in Reach(rat)
    /\ rpc \in {"locked", "delete"} => rat = cur /\ node[rbehind] = cur

\* The list stays whole for the threads that walk it under locks and for the
\* reader that walks it without.
ListIsSound == ListWhole /\ ReaderFindsGroup

\* No block is lost or given to two: neither with a group that is deleted while
\* a thread takes a block from it, nor between the lists of a group.
NoBlockIsLost == RetiredWhole /\ BlocksOnce

-----------------------------------------------------------------------------
(***************************************************************************)
(* The inductive invariant.                                                *)
(***************************************************************************)

\* The locks are held by those, and only those, whose place in the code says
\* so, and nobody holds one next to a writer.
LocksByPlace ==
    /\ \A p \in Pointers, t \in Threads :
        /\ t \in reads[p] <=>
                \/ pc[t] \in Walking /\ behind[t] = p
                \/ pc[t] = "hop" /\ at[t] = p
        /\ t \in writes[p] <=> pc[t] \in Growing /\ p = Head
    /\ \A p \in Pointers :
        Reader \in writes[p] <=>
            \/ rpc \in Searching \cup Removing /\ p = rbehind
            \/ rpc = "seekHop" /\ p = rat
    /\ \A p \in Pointers :
        /\ \A x, y \in writes[p] : x = y
        /\ writes[p] # {} => reads[p] = {}

\* No group of the list comes again further on.
Acyclic == \A g \in InList : g \notin Reach(g)

\* A thread that walks is between a pointer of the list and the group it points to.
WalkersInList ==
    \A t \in Threads :
        IF pc[t] \in Walking
        THEN behind[t] \in {Head} \cup InList /\ at[t] # None /\ at[t] = node[behind[t]]
        ELSE behind[t] = None /\ at[t] = None

\* The reader that locks is at a pointer of the list; that the pointer it goes
\* to delete is followed by the group it read without a lock is what lets it
\* write what it read.
ReaderInList ==
    /\ rpc \in Searching =>
        rbehind \in {Head} \cup InList /\ rat = node[rbehind] /\ cur # None /\ last = None
    /\ rpc \in Removing =>
        /\ cur # None /\ rat = cur
        /\ rbehind \in {Head} \cup InList
        /\ node[rbehind] = IF rpc = "unlinked" THEN node[rat] ELSE rat
        /\ last # None => rbehind = last
    /\ rpc = "unlinked" => rat \notin pool
    /\ rpc = "lock" => cur # None
    /\ rpc # "walk" /\ cur # None => next = node[cur]
    /\ rpc = "step" /\ next # None => next \in InList
    /\ rpc = "unlink" => \A t \in Threads : behind[t] # rat

\* A thread has a block from the pop on.  While it is not yet on stage_ the
\* locks hold its group in the list, and only the thread marks it removed.
BlocksByPlace ==
    /\ \A t \in Threads :
        /\ pc[t] \in {"push", "unlock", "has", "growPush", "growUnlock"} <=> block[t] # None
        /\ pc[t] = "push" => block[t] \in BlocksOf(at[t])
        /\ pc[t] = "growPush" => node[Head] # None /\ block[t] \in BlocksOf(node[Head])
        /\ block[t] # None => block[t] \notin free \cup removed
    /\ removed \subseteq stage \cup used
    /\ rpc \in {"delete", "unlink", "unlinked"} => BlocksOf(rat) \subseteq free

ListInv ==
    /\ TypeOK /\ LocksByPlace
    /\ ListWhole /\ Acyclic
    /\ WalkersInList
    /\ ReaderInList /\ ReaderFindsGroup
    /\ BlocksByPlace /\ RetiredWhole /\ BlocksOnce
=============================================================================
