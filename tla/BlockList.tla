----------------------------- MODULE BlockList -----------------------------
(***************************************************************************)
(* block_list (src/bq_log/types/buffer/block_list.h): the three lists of   *)
(* the blocks of a group, free_, stage_ and used_, linked through one      *)
(* next_ index in the head of each block.                                  *)
(*                                                                         *)
(* free_ and stage_ are stacks without locks: the index of the first block *)
(* and a mark of 16 bits, which every successful operation raises, are one *)
(* word that compare-and-swap replaces.  used_ is the reader's alone, and  *)
(* its mark, which push_after and remove copy about, is never compared.    *)
(*                                                                         *)
(* A thread takes a block from free_ and puts it on stage_; the reader     *)
(* takes it from stage_ into used_, and from used_ back to free_.          *)
(*                                                                         *)
(* The blocks lie in a mapped file.  When the process dies the next one    *)
(* takes over used_ and stage_, if each block in them has the type of its  *)
(* list, and what is in neither is free.                                   *)
(***************************************************************************)
EXTENDS Naturals, Sequences, FiniteSets, SequencesExt

CONSTANTS
    Threads, Reader,
    Blocks,
    MarkWrap,   \* 2^16
    MaxDeaths,  \* bound: how often the process dies
    None        \* the empty index

ASSUME BlockListAssumption ==
    /\ IsFiniteSet(Blocks) /\ None \notin Blocks
    /\ MarkWrap \in Nat \ {0} /\ MaxDeaths \in Nat /\ Reader \notin Threads

Actors == Threads \cup {Reader}

VARIABLES
    head,   \* head_ of free_ and stage_: [index, mark]
    used,   \* the index in head_ of used_
    next,   \* next_ of each block
    type,   \* type_ of each block: the list it was put on last
    pc,
    copy,   \* head_cpy of each actor
    seen,   \* head_desired.index
    block,  \* the block it has in hand
    age,    \* how often the head was changed since head_cpy was read
    deaths

vars == <<head, used, next, type, pc, copy, seen, block, age, deaths>>

\* Where an actor is: in a call, before it reads or writes the link or before
\* its swap, or between two calls.
Idle == <<"none", "idle">>
Holding == <<"none", "has a block">>
Emptied == <<"none", "has a block of used_">>

Empty == [index |-> None, mark |-> 0]

\* Blocks of a group, pushed on an empty free_ one after another.  They go by
\* their places in memory, which are not modelled: any order.
Orders(blocks) == SetToSeqs(blocks)
Chain(order, old) ==
    [b \in Blocks |-> IF b \notin ToSet(order) THEN old[b]
                      ELSE IF b = Head(order) THEN None
                      ELSE order[CHOOSE i \in 1..(Len(order) - 1) : order[i + 1] = b]]
Pushed(order) ==
    [index |-> IF order = <<>> THEN None ELSE Last(order), mark |-> Len(order) % MarkWrap]

Init ==
    /\ \E order \in Orders(Blocks) :
        /\ next = Chain(order, [b \in Blocks |-> None])
        /\ head = [free |-> Pushed(order), stage |-> Empty]
    /\ type = [b \in Blocks |-> "free"]
    /\ used = None
    /\ deaths = 0
    /\ pc = [a \in Actors |-> Idle]
    /\ copy = [a \in Actors |-> Empty]
    /\ seen = [a \in Actors |-> None]
    /\ block = [a \in Actors |-> None]
    /\ age = [a \in Actors |-> 0]

-----------------------------------------------------------------------------
\* pop and push of a stack l by actor a

Popping == {"popFree", "popStage"}
Pushing == {"pushFree", "pushStage"}
Stack(p) == IF p \in {"popFree", "pushFree"} THEN "free" ELSE "stage"
At(a, p) == pc[a] = <<p, "link">> \/ pc[a] = <<p, "swap">>
Goto(a, p) == pc' = [pc EXCEPT ![a] = p]
LoadHead(a, l) ==
    /\ copy' = [copy EXCEPT ![a] = head[l]]
    /\ age' = [age EXCEPT ![a] = 0]

\* Mutant: a block keeps the type it had.
StartUntyped(a, p) ==
    /\ LoadHead(a, Stack(p))
    /\ Goto(a, <<p, "link">>)
    /\ UNCHANGED <<head, used, next, type, seen, block, deaths>>

\* A call begins with a look at the head; a push gives the block its type
\* before.
Start(a, p) ==
    /\ LoadHead(a, Stack(p))
    /\ type' = IF p \in Pushing THEN [type EXCEPT ![block[a]] = Stack(p)] ELSE type
    /\ Goto(a, <<p, "link">>)
    /\ UNCHANGED <<head, used, next, seen, block, deaths>>

\* The link of the first block is read, though the block may be another's by
\* now; an empty list ends the call.
PopLink(a, p) ==
    /\ pc[a] = <<p, "link">>
    /\ IF copy[a].index = None
       THEN Goto(a, Idle) /\ UNCHANGED seen
       ELSE Goto(a, <<p, "swap">>) /\ seen' = [seen EXCEPT ![a] = next[copy[a].index]]
    /\ UNCHANGED <<head, used, next, type, copy, block, age, deaths>>

\* The block is linked to what was the first.
PushLink(a, p) ==
    /\ pc[a] = <<p, "link">>
    /\ next' = [next EXCEPT ![block[a]] = copy[a].index]
    /\ seen' = [seen EXCEPT ![a] = block[a]]
    /\ Goto(a, <<p, "swap">>)
    /\ UNCHANGED <<head, used, type, copy, block, age, deaths>>

\* Mutant: the mark stays.
Unmarked(h) == h.mark

\* aba_mark, with its width.
Marked(h) == (h.mark + 1) % MarkWrap

InFlight(l) == {a \in Actors : \E p \in Popping \cup Pushing : At(a, p) /\ Stack(p) = l}

\* Bound: no thread is held up while the mark goes round once.
WithinAWrap(a, l) == \A c \in InFlight(l) \ {a} : age[c] + 1 < MarkWrap

\* The compare-and-swap; if it fails, it leaves the head as it is now in
\* head_cpy and the loop starts again.
Swap(a, p, done, result) ==
    /\ pc[a] = <<p, "swap">>
    /\ LET l == Stack(p)
       IN  IF head[l] = copy[a]
           THEN /\ WithinAWrap(a, l)
                /\ head' = [head EXCEPT ![l] = [index |-> seen[a], mark |-> Marked(head[l])]]
                /\ age' = [c \in Actors |-> IF c = a THEN 0
                                           ELSE IF c \in InFlight(l) THEN age[c] + 1 ELSE age[c]]
                /\ block' = [block EXCEPT ![a] = result]
                /\ copy' = [copy EXCEPT ![a] = Empty]
                /\ seen' = [seen EXCEPT ![a] = None]
                /\ Goto(a, done)
           ELSE LoadHead(a, l) /\ Goto(a, <<p, "link">>) /\ UNCHANGED <<head, seen, block>>
    /\ UNCHANGED <<used, next, type, deaths>>

Pop(a, p) ==
    \/ pc[a] = Idle /\ Start(a, p)
    \/ PopLink(a, p)
    \/ Swap(a, p, Holding, copy[a].index)

Push(a, p) ==
    \/ pc[a] = Holding /\ Start(a, p)
    \/ PushLink(a, p)
    \/ Swap(a, p, Idle, None)

-----------------------------------------------------------------------------
\* used_, which only the reader looks at

\* The blocks from index i on, as f links them: those in every set that holds
\* the one at i and with a block the one behind it.
ClosedFrom(f, i, S) ==
    /\ i # None => i \in S
    /\ \A b \in S : f[b] # None => f[b] \in S
From(f, i) == {b \in Blocks : \A S \in SUBSET Blocks : ClosedFrom(f, i, S) => b \in S}
Listed(i) == From(next, i)

UsedBlocks == Listed(used)

\* push_after_thread_unsafe, behind a block or at the head: the type, the link
\* of the block, and last the one that leads to it.
PutUsed ==
    /\ pc[Reader] = Holding
    /\ LET b == block[Reader]
       IN  \/ /\ next' = [next EXCEPT ![b] = used]
              /\ used' = b
           \/ \E prev \in UsedBlocks :
                /\ next' = [next EXCEPT ![b] = next[prev], ![prev] = b]
                /\ UNCHANGED used
    /\ type' = [type EXCEPT ![block[Reader]] = "used"]
    /\ block' = [block EXCEPT ![Reader] = None]
    /\ Goto(Reader, Idle)
    /\ UNCHANGED <<head, copy, seen, age, deaths>>

\* remove_thread_unsafe with the block before, or none for the first; it
\* leaves the next_ of the block as it is.
TakeUsed ==
    /\ pc[Reader] = Idle
    /\ \/ /\ used # None
          /\ used' = next[used]
          /\ block' = [block EXCEPT ![Reader] = used]
          /\ UNCHANGED next
       \/ \E prev \in UsedBlocks :
          /\ next[prev] # None
          /\ next' = [next EXCEPT ![prev] = next[next[prev]]]
          /\ block' = [block EXCEPT ![Reader] = next[prev]]
          /\ UNCHANGED used
    /\ Goto(Reader, Emptied)
    /\ UNCHANGED <<head, type, copy, seen, age, deaths>>

\* recycle_block_thread_unsafe goes on to push the block on free_.
PushFree ==
    \/ pc[Reader] = Emptied /\ Start(Reader, "pushFree")
    \/ PushLink(Reader, "pushFree")
    \/ Swap(Reader, "pushFree", Idle, None)

-----------------------------------------------------------------------------
\* The process dies, and the next one recovers the group.

\* try_recover_from_memory_map: the list as it is, or nothing of it.
Recoverable(first, l) == \A b \in Listed(first) : type[b] = l
Kept(first, l) == IF Recoverable(first, l) THEN Listed(first) ELSE {}

\* The constructor of group_data_head.  (That a block is found in both lists,
\* which the code provides for, does not happen: ImplementsStacks.)
Die ==
    LET kept == Kept(used, "used") \cup Kept(head["stage"].index, "stage") IN
    /\ deaths < MaxDeaths /\ deaths' = deaths + 1
    /\ \E order \in Orders(Blocks \ kept) :
        /\ next' = Chain(order, next)
        /\ head' = [free |-> Pushed(order),
                    stage |-> IF Recoverable(head["stage"].index, "stage")
                              THEN head["stage"] ELSE Empty]
    /\ used' = IF Recoverable(used, "used") THEN used ELSE None
    /\ type' = [b \in Blocks |-> IF b \in kept THEN type[b] ELSE "free"]
    /\ pc' = [a \in Actors |-> Idle]
    /\ copy' = [a \in Actors |-> Empty]
    /\ seen' = [a \in Actors |-> None]
    /\ block' = [a \in Actors |-> None]
    /\ age' = [a \in Actors |-> 0]

-----------------------------------------------------------------------------

Next ==
    \/ Die
    \/ \E t \in Threads : Pop(t, "popFree") \/ Push(t, "pushStage")
    \/ Pop(Reader, "popStage") \/ PutUsed \/ TakeUsed \/ PushFree

Spec == Init /\ [][Next]_vars

Heads == [index : Blocks \cup {None}, mark : 0..(MarkWrap - 1)]
Places(a) ==
    IF a = Reader
    THEN {Idle, Holding, Emptied} \cup ({"popStage", "pushFree"} \X {"link", "swap"})
    ELSE {Idle, Holding} \cup ({"popFree", "pushStage"} \X {"link", "swap"})

TypeOK ==
    /\ head \in [{"free", "stage"} -> Heads]
    /\ used \in Blocks \cup {None}
    /\ next \in [Blocks -> Blocks \cup {None}]
    /\ type \in [Blocks -> {"free", "stage", "used"}]
    /\ \A a \in Actors : pc[a] \in Places(a)
    /\ pc = [a \in Actors |-> pc[a]]
    /\ copy \in [Actors -> Heads]
    /\ seen \in [Actors -> Blocks \cup {None}]
    /\ block \in [Actors -> Blocks \cup {None}]
    /\ age \in [Actors -> 0..(MarkWrap - 1)]

\* Whoever's swap would succeed has the right link in hand: the block it
\* takes off is the first, and the link it read is still its link.  This is
\* what the mark is for, as the first block may have been away meanwhile.
LinkIsCurrent ==
    \A a \in Actors : \A p \in Popping :
        pc[a] = <<p, "swap">> /\ head[Stack(p)] = copy[a]
            => seen[a] = next[copy[a].index]

\* s is the list from index i on: f leads from each block to the next one.
Path(f, i, s) ==
    /\ i = IF Len(s) = 0 THEN None ELSE s[1]
    /\ \A k \in 1..Len(s) : f[s[k]] = IF k = Len(s) THEN None ELSE s[k + 1]

\* The blocks of a list in their order.
Follow(i) ==
    CHOOSE s \in [1..Cardinality(Listed(i)) -> Listed(i)] : Path(next, i, s)

\* The lists are the stacks that BlockStacks promises, each operation taking
\* effect at its compare-and-swap; and a death, whenever it comes, loses
\* nothing that is in used_ or stage_.
Stacks == INSTANCE BlockStacks WITH
    free <- Follow(head["free"].index),
    stage <- Follow(head["stage"].index),
    used <- Follow(used),
    hand <- block

ImplementsStacks == Stacks!Spec

-----------------------------------------------------------------------------
(***************************************************************************)
(* The inductive invariant.                                                *)
(***************************************************************************)

Lists == {"free", "stage", "used"}
First(l) == IF l = "used" THEN used ELSE head[l].index
OnList(l) == Listed(First(l))

\* No block comes twice from index i on: not again behind itself, and not
\* behind two others.
Straight(f, i) ==
    /\ \A b \in From(f, i) : b \notin From(f, f[b])
    /\ \A b, c \in From(f, i) : f[b] = f[c] /\ b # c => f[b] = None

\* Every block is on one list or in one hand, and nowhere else besides.
EachBlockOnce ==
    /\ \A l, m \in Lists : l # m => OnList(l) \cap OnList(m) = {}
    /\ \A a \in Actors, l \in Lists : block[a] \notin OnList(l)
    /\ \A a, c \in Actors : a # c /\ block[a] = block[c] => block[a] = None
    /\ \A b \in Blocks : (\E l \in Lists : b \in OnList(l)) \/ (\E a \in Actors : block[a] = b)

\* A block's type is that of its list, from before it is pushed there.
TypesFit ==
    /\ \A l \in Lists : \A b \in OnList(l) : type[b] = l
    /\ \A a \in Actors : \A p \in Pushing : At(a, p) => type[block[a]] = Stack(p)

HandsByPlace ==
    \A a \in Actors :
        block[a] # None <=> pc[a] \in {Holding, Emptied} \/ \E p \in Pushing : At(a, p)

\* How old a copy of the head is shows in the mark, as long as it is not older
\* than the mark is wide; a copy of age zero and the link read after it are
\* those of the list.
CopyFits(a, p) ==
    /\ head[Stack(p)].mark = (copy[a].mark + age[a]) % MarkWrap
    /\ age[a] = 0 => head[Stack(p)] = copy[a]
    /\ pc[a] = <<p, "swap">> /\ p \in Pushing =>
        seen[a] = block[a] /\ next[block[a]] = copy[a].index
    /\ pc[a] = <<p, "swap">> /\ p \in Popping =>
        copy[a].index # None /\ (age[a] = 0 => seen[a] = next[copy[a].index])
CopiesByAge ==
    \A a \in Actors : \A p \in Popping \cup Pushing : At(a, p) => CopyFits(a, p)

BlocksInv ==
    /\ TypeOK
    /\ \A l \in Lists : Straight(next, First(l))
    /\ EachBlockOnce /\ TypesFit
    /\ HandsByPlace /\ CopiesByAge

\* What the process had staged or filed in used_ when it died is all there
\* afterwards, in its order, wherever every thread was.
FiledStays ==
    \A l \in {"stage", "used"} :
        First(l)' = First(l) /\ \A b \in OnList(l) : next'[b] = next[b]
NothingFiledIsLost == [][Die => FiledStays]_vars
=============================================================================
