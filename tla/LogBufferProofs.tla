-------------------------- MODULE LogBufferProofs --------------------------
(***************************************************************************)
(* LogBuffer for any threads, groups, blocks and records: each thread's    *)
(* records come out once and in order (ImplementsStream), no number is     *)
(* overtaken (NothingOverdue), and nothing that was given away is referred *)
(* to (NothingDangles).                                                    *)
(*                                                                         *)
(* None of these is inductive, and none can be shown without the others:   *)
(* the reader may only put a block back if it is where the reader takes it *)
(* to be, if it is empty, and if its number has come; that is so as no two *)
(* places of a thread have the same number; and that no record is lost     *)
(* with the block, as its thread has given it up and what is in a place is *)
(* read before the next one.  BufferInv says all this in four parts: the   *)
(* lists (ListsSound), the reader's place in them (ReaderOnItsWay), the    *)
(* numbers of the places (NumbersSound) and the records in the places      *)
(* (RecordsSound).                                                         *)
(***************************************************************************)
EXTENDS LogBuffer, TLAPS

-----------------------------------------------------------------------------
(***************************************************************************)
(* The inductive invariant.                                                *)
(***************************************************************************)

\* Each block of a group is in one of its lists, once.
GroupSound(g, fr, us, st) ==
    /\ \A b \in ToSet(fr) \cup ToSet(us) \cup ToSet(st) : b[1] = g
    /\ IsInjective(fr) /\ IsInjective(us) /\ IsInjective(st)
    /\ ToSet(fr) \cap ToSet(us) = {} /\ ToSet(fr) \cap ToSet(st) = {}
    /\ ToSet(us) \cap ToSet(st) = {}
    /\ Len(fr) + Len(us) + Len(st) = BlocksPerGroup

ListsSound ==
    /\ \A g \in Groups : GroupSound(g, free[g], used[g], stage[g])
    /\ \A g \in Groups \ Live : used[g] = <<>> /\ stage[g] = <<>>

\* x stands immediately in front of y in s, and no further back than y.
NextTo(s, x, y) == \E i \in 1..(Len(s) - 1) : s[i] = x /\ s[i + 1] = y
NotBehind(s, x, y) == \E i, j \in DOMAIN s : s[i] = x /\ s[j] = y /\ i <= j

\* What the reader remembers is where it was left.
WaySound(gs, us, r) ==
    /\ r.curGroup # None => r.curGroup \in ToSet(gs)
    /\ r.curGroup # None /\ r.lastGroup # None => NextTo(gs, r.lastGroup, r.curGroup)
    /\ r.curBlock # None => /\ r.curGroup # None
                            /\ r.curBlock \in ToSet(us[r.curBlock[1]])
                            /\ NotBehind(gs, r.curBlock[1], r.curGroup)
    /\ r.lastBlock # None => /\ r.curBlock # None
                             /\ r.lastBlock \in ToSet(us[r.lastBlock[1]])
                             /\ NotBehind(gs, r.lastBlock[1], r.curBlock[1])

In(r, b) == b # None /\ r.curGroup = b[1]

StateSound(us, r) ==
    /\ r.state = "lp" => r.curGroup = None
    /\ r.state = "nextBlock" => r.curGroup # None
    /\ r.state = "hp" => In(r, r.curBlock)
    /\ r.state = "completed" /\ r.curGroup # None => In(r, r.curBlock)
    /\ r.marked => r.state \in {"hp", "nextBlock", "completed"} /\ In(r, r.curBlock)
    /\ r.state \in {"hp", "nextBlock", "completed"} /\ In(r, r.curBlock) =>
          IF In(r, r.lastBlock) THEN NextTo(us[r.curGroup], r.lastBlock, r.curBlock)
          ELSE Head(us[r.curGroup]) = r.curBlock

ReaderOnItsWay == WaySound(groups, used, reader) /\ StateSound(used, reader)

\* The places of the threads' numbers.
RingSound ==
    \A i \in DOMAIN lp : LET e == lp[i] IN
        /\ e.t \notin deleted /\ readSeq[e.t] <= e.seq /\ e.seq < writeSeq[e.t]
        /\ ~e.done => pc[e.t] \in {"forget", "commit", "mark"} /\ e.seq + 1 = writeSeq[e.t]
        /\ e.num = 0 => pc[e.t] \in {"mark", "gone"} /\ e.seq + 1 = writeSeq[e.t]
        /\ e.num = 0 /\ e.done => pc[e.t] = "gone"

BlocksSound ==
    \A b \in InUse : LET c == context[b] IN
        /\ c.t \in Threads /\ c.t \notin deleted
        /\ readSeq[c.t] <= c.seq /\ c.seq < writeSeq[c.t]
        /\ c.finished => c.removed /\ pc[c.t] = "gone" /\ c.seq + 1 = writeSeq[c.t]

NumbersApart ==
    /\ \A i, j \in DOMAIN lp : lp[i].t = lp[j].t /\ lp[i].seq = lp[j].seq => i = j
    /\ \A b, d \in InUse :
        context[b].t = context[d].t /\ context[b].seq = context[d].seq => b = d
    /\ \A i \in DOMAIN lp, b \in InUse :
        lp[i].t = context[b].t => lp[i].seq # context[b].seq

ThreadsSound ==
    \A t \in Threads : LET b == curBlock[t] IN
        /\ pc[t] \in {"forget", "forgetIdle", "put"} => b # None
        /\ pc[t] \in {"commit", "mark"} => b = None
        /\ b # None /\ pc[t] \notin {"new", "gone"} =>
              /\ b \in InUse /\ context[b].t = t /\ ~context[b].removed
              /\ writeSeq[t] = context[b].seq + (IF pc[t] = "forget" THEN 2 ELSE 1)
        /\ t \in deleted => pc[t] = "gone"
        /\ readSeq[t] <= writeSeq[t]

FreeSound ==
    \A b \in Blocks \ InUse :
        data[b] = <<>> /\ \A t \in Threads : curBlock[t] = b => context[b].removed

\* What the reader has found out about its block still holds.
BlockAsSeen ==
    LET b == reader.curBlock IN
    /\ reader.marked => context[b].removed
    /\ b # None /\ (reader.state \in {"hp", "completed"} \/ reader.marked) =>
          context[b].seq = readSeq[context[b].t]
    /\ reader.marked /\ reader.state = "nextBlock" => data[b] = <<>>
    /\ rpc = "ring" => reader.state = "lp" /\ RingHasNext /\ Head(lp).num # 0

NumbersSound ==
    RingSound /\ BlocksSound /\ NumbersApart /\ ThreadsSound /\ FreeSound /\ BlockAsSeen

\* Record n of t lies in the place with number s.
InRing(t, s, n) == n # 0 /\ \E i \in DOMAIN lp : lp[i].t = t /\ lp[i].seq = s /\ lp[i].num = n
InBlock(t, s, n) ==
    \E b \in InUse : /\ context[b].t = t /\ context[b].seq = s
                     /\ \E k \in DOMAIN data[b] : data[b][k] = n
Holds(t, s, n) == InRing(t, s, n) \/ InBlock(t, s, n)

Batching == rpc = "block" \/ reader.batch > 0
BeingRead(t) ==
    \/ rpc = "ring" /\ Head(lp).t = t
    \/ Batching /\ context[reader.curBlock].t = t

RecordsInOrder ==
    /\ \A t \in Threads, s1, s2, n1, n2 \in Nat :
          Holds(t, s1, n1) /\ Holds(t, s2, n2) /\ s1 < s2 => n1 < n2
    /\ \A b \in InUse : \A j, k \in DOMAIN data[b] : j < k => data[b][j] < data[b][k]

RecordsInRange ==
    \A t \in Threads, s, n \in Nat : Holds(t, s, n) =>
        /\ \/ n <= sent[t]
           \/ n = sent[t] + 1 /\ s + 1 = writeSeq[t] /\ pc[t] \in {"forget", "commit"}
        /\ n > read[t] \/ (s = readSeq[t] /\ BeingRead(t))

NoneMissing ==
    \A t \in Threads : \A n \in (read[t] + 1)..sent[t] : \E s \in Nat : Holds(t, s, n)

Counts ==
    \A t \in Threads :
        /\ read[t] <= sent[t]
        /\ pc[t] \in {"lp", "hp", "new", "put", "commit", "forget"} => sent[t] < Rounds[t]
        /\ pc[t] \in {"forget", "commit"} =>
            \E i \in DOMAIN lp : /\ lp[i].t = t /\ lp[i].seq + 1 = writeSeq[t]
                                 /\ lp[i].num = sent[t] + 1 /\ ~lp[i].done

InHand ==
    /\ rpc = "ring" => read[Head(lp).t] = Head(lp).num
    /\ Batching =>
        /\ reader.state = "hp" /\ reader.size \in 1..Len(data[reader.curBlock])
        /\ reader.batch < reader.size
        /\ read[context[reader.curBlock].t] = data[reader.curBlock][reader.size - reader.batch]
    /\ rpc \in {"round", "ring", "empty"} => reader.batch = 0

RecordsSound == RecordsInOrder /\ RecordsInRange /\ NoneMissing /\ Counts /\ InHand

BufferInv == TypeOK /\ ListsSound /\ ReaderOnItsWay /\ NumbersSound /\ RecordsSound

-----------------------------------------------------------------------------
(***************************************************************************)
(* Sequences in which nothing comes twice.                                 *)
(***************************************************************************)

LEMMA Members ==
  ASSUME NEW S, NEW s \in Seq(S)
  PROVE  /\ Len(s) \in Nat /\ DOMAIN s = 1..Len(s)
         /\ \A i \in 1..Len(s) : s[i] \in S /\ s[i] \in ToSet(s)
         /\ \A x \in ToSet(s) : x \in S /\ \E i \in 1..Len(s) : s[i] = x
         /\ (s = <<>> <=> Len(s) = 0) /\ (s = <<>> <=> ToSet(s) = {})
  <1>1. Len(s) \in Nat /\ DOMAIN s = 1..Len(s) /\ \A i \in 1..Len(s) : s[i] \in S OBVIOUS
  <1>2. s = <<>> <=> Len(s) = 0 OBVIOUS
  <1>3. \A i \in 1..Len(s) : s[i] \in ToSet(s) BY <1>1 DEF ToSet
  <1>4. \A x \in ToSet(s) : \E i \in 1..Len(s) : s[i] = x BY <1>1 DEF ToSet
  <1>5. ToSet(s) = {} => Len(s) = 0 BY <1>1, <1>3
  <1>6. Len(s) = 0 => ToSet(s) = {} BY <1>1, <1>4
  <1> QED BY <1>1, <1>2, <1>3, <1>4, <1>5, <1>6

LEMMA PlaceIs ==
  ASSUME NEW S, NEW s \in Seq(S), IsInjective(s), NEW k \in 1..Len(s)
  PROVE  PlaceOf(s, s[k]) = k
  <1>1. DOMAIN s = 1..Len(s) /\ s[k] \in ToSet(s) BY Members
  <1>2. \A i \in DOMAIN s : s[i] = s[k] => i = k BY <1>1 DEF IsInjective
  <1>3. \E i \in DOMAIN s : s[i] = s[k] BY <1>1
  <1>4. (CHOOSE i \in DOMAIN s : s[i] = s[k]) = k BY <1>2, <1>3
  <1> QED BY <1>1, <1>4 DEF PlaceOf

\* One is taken out.
Without(s, k) == SubSeq(s, 1, k - 1) \o SubSeq(s, k + 1, Len(s))

LEMMA TakenOut ==
  ASSUME NEW S, NEW s \in Seq(S), IsInjective(s), NEW k \in 1..Len(s),
         NEW r, r = Without(s, k)
  PROVE  /\ r \in Seq(S) /\ Len(r) = Len(s) - 1 /\ IsInjective(r)
         /\ \A i \in 1..(Len(s) - 1) : r[i] = IF i < k THEN s[i] ELSE s[i + 1]
         /\ ToSet(r) = ToSet(s) \ {s[k]}
         /\ k > 1 /\ k < Len(s) => NextTo(r, s[k - 1], s[k + 1])
         /\ k = 1 /\ k < Len(s) => Head(r) = s[2]
         /\ k > 1 => Head(r) = Head(s)
         /\ \A x, y : x # s[k] /\ y # s[k] =>
               /\ NextTo(s, x, y) => NextTo(r, x, y)
               /\ NotBehind(s, x, y) => NotBehind(r, x, y)
  <1>1. Len(s) \in Nat /\ DOMAIN s = 1..Len(s) BY Members
  <1>2. /\ r \in Seq(S) /\ Len(r) = Len(s) - 1
        /\ \A i \in 1..(Len(s) - 1) : r[i] = IF i < k THEN s[i] ELSE s[i + 1]
    <2> DEFINE a == SubSeq(s, 1, k - 1)
               c == SubSeq(s, k + 1, Len(s))
    <2>1. a \in Seq(S) /\ Len(a) = k - 1 /\ \A i \in 1..(k - 1) : a[i] = s[i]
      <3>1. k - 1 \in 0..Len(s) BY <1>1
      <3>2. \A i \in 1..(k - 1) : s[i] \in S BY <1>1, <3>1, Members
      <3> QED BY <1>1, <3>1, <3>2
    <2>2. c \in Seq(S) /\ Len(c) = Len(s) - k /\ \A i \in 1..(Len(s) - k) : c[i] = s[k + i]
      <3>1. k + 1 \in 1..(Len(s) + 1) BY <1>1
      <3>2. \A i \in (k + 1)..Len(s) : s[i] \in S BY <1>1, <3>1, Members
      <3>3. k + 1 \in Int /\ Len(s) \in Int /\ k \in Int /\ k <= Len(s) BY <1>1
      <3>4. c \in Seq(S) BY <3>2, <3>3
      <3>5. Len(c) = IF k + 1 <= Len(s) THEN Len(s) - (k + 1) + 1 ELSE 0 BY <3>3
      <3>6. Len(c) = Len(s) - k
        <4> HIDE DEF c
        <4> QED BY <3>3, <3>5
      <3>7. ASSUME NEW i \in 1..(Len(s) - k) PROVE c[i] = s[k + i]
        <4>1. i \in 1..Len(c) /\ k + 1 + i - 1 = k + i BY <3>3, <3>6
        <4>2. c[i] = s[k + 1 + i - 1] BY <3>3, <3>5, <4>1
        <4> QED BY <4>1, <4>2
      <3> QED BY <3>4, <3>6, <3>7
    <2> HIDE DEF a, c
    <2>3. r = a \o c BY DEF Without, a, c
    <2>4. r \in Seq(S) /\ Len(r) = Len(s) - 1
      <3>1. a \in Seq(S) /\ c \in Seq(S) BY <2>1, <2>2
      <3>3. r \in Seq(S) /\ Len(r) = Len(a) + Len(c) BY <2>3, <3>1
      <3>2. Len(a) + Len(c) = Len(s) - 1 BY <1>1, <2>1, <2>2
      <3> QED BY <3>2, <3>3
    <2>5. ASSUME NEW i \in 1..(Len(s) - 1) PROVE r[i] = IF i < k THEN s[i] ELSE s[i + 1]
      <3>1. CASE i < k
        <4>1. i \in 1..Len(a) BY <1>1, <2>1, <3>1
        <4>2. r[i] = a[i] BY <2>1, <2>2, <2>3, <4>1
        <4> QED BY <1>1, <2>1, <3>1, <4>1, <4>2
      <3>2. CASE ~(i < k)
        <4>1. i - Len(a) \in 1..Len(c) /\ i \in (Len(a) + 1)..(Len(a) + Len(c))
          BY <1>1, <2>1, <2>2, <3>2
        <4>2. r[i] = c[i - Len(a)] BY <2>1, <2>2, <2>3, <4>1
        <4>3. c[i - Len(a)] = s[k + (i - Len(a))] BY <2>2, <4>1
        <4>4. k + (i - Len(a)) = i + 1 BY <1>1, <2>1
        <4> QED BY <3>2, <4>2, <4>3, <4>4
      <3> QED BY <3>1, <3>2
    <2> QED BY <2>4, <2>5
  <1>3. Len(r) \in Nat /\ DOMAIN r = 1..(Len(s) - 1) BY <1>1, <1>2
  <1>4. IsInjective(r)
    <2>1. SUFFICES ASSUME NEW i \in 1..(Len(s) - 1), NEW j \in 1..(Len(s) - 1), r[i] = r[j]
                   PROVE  i = j
      BY <1>3 DEF IsInjective
    <2> DEFINE p == IF i < k THEN i ELSE i + 1
               q == IF j < k THEN j ELSE j + 1
    <2>2. p \in 1..Len(s) /\ q \in 1..Len(s) BY <1>1
    <2>3. r[i] = s[p] /\ r[j] = s[q] BY <1>2
    <2> HIDE DEF p, q
    <2>4. p = q BY <2>1, <2>2, <2>3, <1>1 DEF IsInjective
    <2> QED BY <2>4, <1>1 DEF p, q
  <1>5. ASSUME NEW i \in 1..Len(s), i # k
        PROVE  LET j == IF i < k THEN i ELSE i - 1 IN j \in 1..(Len(s) - 1) /\ r[j] = s[i]
    <2>1. CASE i < k
      <3>1. i \in 1..(Len(s) - 1) BY <1>1, <2>1
      <3> QED BY <1>2, <2>1, <3>1
    <2>2. CASE ~(i < k)
      <3>1. i - 1 \in 1..(Len(s) - 1) /\ ~(i - 1 < k) BY <1>1, <1>5, <2>2
      <3>2. r[i - 1] = s[i - 1 + 1] /\ i - 1 + 1 = i BY <1>1, <1>2, <3>1
      <3> QED BY <2>2, <3>1, <3>2
    <2> QED BY <2>1, <2>2
  <1>6. ToSet(r) = ToSet(s) \ {s[k]}
    <2>1. ASSUME NEW x \in ToSet(r) PROVE x \in ToSet(s) \ {s[k]}
      <3>1. PICK i \in 1..(Len(s) - 1) : r[i] = x BY <1>2, <1>3, Members
      <3> DEFINE p == IF i < k THEN i ELSE i + 1
      <3>2. p \in 1..Len(s) /\ p # k BY <1>1
      <3>3. x = s[p] BY <1>2, <3>1
      <3> HIDE DEF p
      <3>4. s[p] # s[k] BY <1>1, <3>2 DEF IsInjective
      <3> QED BY <3>2, <3>3, <3>4, Members
    <2>2. ASSUME NEW x \in ToSet(s) \ {s[k]} PROVE x \in ToSet(r)
      <3>1. PICK i \in 1..Len(s) : s[i] = x BY Members
      <3>2. PICK j \in 1..(Len(s) - 1) : r[j] = s[i] BY <1>5, <2>2, <3>1
      <3>3. x = s[i] /\ j \in DOMAIN r /\ r[j] = x BY <1>3, <3>1, <3>2
      <3> QED BY <3>3 DEF ToSet
    <2> QED BY <2>1, <2>2
  <1>7. k > 1 /\ k < Len(s) => NextTo(r, s[k - 1], s[k + 1])
    <2>1. HAVE k > 1 /\ k < Len(s)
    <2>2. k - 1 \in 1..(Len(r) - 1) /\ k - 1 \in 1..(Len(s) - 1) /\ k \in 1..(Len(s) - 1)
          /\ k - 1 + 1 = k /\ k - 1 < k
      BY <1>1, <1>2, <2>1
    <2>3. r[k - 1] = s[k - 1] /\ r[k] = s[k + 1] BY <1>2, <2>2
    <2> QED BY <2>2, <2>3 DEF NextTo
  <1>8. k = 1 /\ k < Len(s) => Head(r) = s[2]
    <2>1. HAVE k = 1 /\ k < Len(s)
    <2>2. 1 \in 1..(Len(s) - 1) /\ Len(r) > 0 BY <1>1, <1>2, <2>1
    <2>3. r[1] = s[2] BY <1>2, <2>1, <2>2
    <2> QED BY <2>2, <2>3, <1>2
  <1>9. k > 1 => Head(r) = Head(s)
    <2>1. HAVE k > 1
    <2>2. 1 \in 1..(Len(s) - 1) /\ Len(r) > 0 /\ Len(s) > 0 BY <1>1, <1>2, <2>1
    <2>3. r[1] = s[1] BY <1>2, <2>1, <2>2
    <2> QED BY <2>2, <2>3, <1>2
  <1>10. ASSUME NEW x, NEW y, x # s[k], y # s[k]
         PROVE  /\ NextTo(s, x, y) => NextTo(r, x, y)
                /\ NotBehind(s, x, y) => NotBehind(r, x, y)
    <2>1. ASSUME NextTo(s, x, y) PROVE NextTo(r, x, y)
      <3>1. PICK i \in 1..(Len(s) - 1) : s[i] = x /\ s[i + 1] = y BY <2>1 DEF NextTo
      <3>2. i \in 1..Len(s) /\ i + 1 \in 1..Len(s) /\ i # k /\ i + 1 # k BY <1>1, <1>10, <3>1
      <3> DEFINE j == IF i < k THEN i ELSE i - 1
      <3>3. j \in 1..(Len(s) - 1) /\ r[j] = x BY <1>5, <3>1, <3>2
      <3>4. j + 1 = (IF i + 1 < k THEN i + 1 ELSE i + 1 - 1) BY <1>1, <3>2
      <3>5. j + 1 \in 1..(Len(s) - 1) /\ r[j + 1] = y BY <1>5, <3>1, <3>2, <3>4
      <3>6. j \in 1..(Len(r) - 1) BY <1>1, <1>2, <3>3, <3>5
      <3> QED BY <3>3, <3>5, <3>6 DEF NextTo
    <2>2. ASSUME NotBehind(s, x, y) PROVE NotBehind(r, x, y)
      <3>1. PICK i \in 1..Len(s), j \in 1..Len(s) : s[i] = x /\ s[j] = y /\ i <= j
        BY <2>2, <1>1 DEF NotBehind
      <3>2. i # k /\ j # k BY <1>10, <3>1
      <3> DEFINE p == IF i < k THEN i ELSE i - 1
                 q == IF j < k THEN j ELSE j - 1
      <3>3. p \in 1..(Len(s) - 1) /\ r[p] = x BY <1>5, <3>1, <3>2
      <3>4. q \in 1..(Len(s) - 1) /\ r[q] = y BY <1>5, <3>1, <3>2
      <3>5. p <= q BY <1>1, <3>1, <3>2
      <3> HIDE DEF p, q
      <3> QED BY <1>3, <3>3, <3>4, <3>5 DEF NotBehind
    <2> QED BY <2>1, <2>2
  <1> QED BY <1>2, <1>4, <1>6, <1>7, <1>8, <1>9, <1>10

\* One comes in front, or behind.
InFront(s, x) == <<x>> \o s
Behind(s, x) == Append(s, x)

LEMMA PutInFront ==
  ASSUME NEW S, NEW s \in Seq(S), IsInjective(s), NEW x \in S, x \notin ToSet(s)
  PROVE  /\ InFront(s, x) \in Seq(S) /\ Len(InFront(s, x)) = Len(s) + 1 /\ IsInjective(InFront(s, x))
         /\ ToSet(InFront(s, x)) = ToSet(s) \cup {x}
  <1> DEFINE r == InFront(s, x)
  <1>1. Len(s) \in Nat /\ DOMAIN s = 1..Len(s) BY Members
  <1>2. /\ r \in Seq(S) /\ Len(r) = Len(s) + 1 /\ DOMAIN r = 1..(Len(s) + 1) /\ r[1] = x
        /\ \A i \in 1..Len(s) : r[i + 1] = s[i]
    BY <1>1 DEF InFront
  <1> HIDE DEF r
  <1>3. \A i \in 1..(Len(s) + 1) : i = 1 \/ (i - 1 \in 1..Len(s) /\ r[i] = s[i - 1])
    <2> TAKE i \in 1..(Len(s) + 1)
    <2>1. i # 1 => i - 1 \in 1..Len(s) /\ i - 1 + 1 = i BY <1>1
    <2> QED BY <1>2, <2>1
  <1>4. ToSet(r) = ToSet(s) \cup {x}
    <2>1. ASSUME NEW y \in ToSet(r) PROVE y \in ToSet(s) \cup {x}
      <3>1. PICK i \in 1..Len(r) : r[i] = y BY <1>2 DEF ToSet
      <3>2. i \in 1..(Len(s) + 1) BY <1>2, <3>1
      <3>3. CASE i = 1 BY <1>2, <3>1, <3>3
      <3>4. CASE i # 1
        <4>1. i - 1 \in 1..Len(s) /\ y = s[i - 1] BY <1>3, <3>1, <3>2, <3>4
        <4> QED BY <4>1, Members
      <3> QED BY <3>3, <3>4
    <2>2. ASSUME NEW y \in ToSet(s) PROVE y \in ToSet(r)
      <3>1. PICK i \in 1..Len(s) : s[i] = y BY Members
      <3>2. i + 1 \in 1..Len(r) /\ r[i + 1] = y BY <1>1, <1>2, <3>1
      <3> QED BY <1>2, <3>2, Members
    <2>3. x \in ToSet(r)
      <3>1. 1 \in DOMAIN r BY <1>1, <1>2
      <3> QED BY <1>2, <3>1 DEF ToSet
    <2> QED BY <2>1, <2>2, <2>3
  <1>5. IsInjective(r)
    <2>1. SUFFICES ASSUME NEW i \in 1..(Len(s) + 1), NEW j \in 1..(Len(s) + 1), r[i] = r[j]
                   PROVE  i = j
      BY <1>2 DEF IsInjective
    <2>2. \A m \in 1..Len(s) : s[m] # x BY Members
    <2>3. CASE i = 1 \/ j = 1 BY <1>2, <1>3, <2>1, <2>2, <2>3
    <2>4. CASE i # 1 /\ j # 1
      <3>1. i - 1 \in 1..Len(s) /\ j - 1 \in 1..Len(s) /\ s[i - 1] = s[j - 1]
        BY <1>3, <2>1, <2>4
      <3>2. i - 1 = j - 1 BY <1>1, <3>1 DEF IsInjective
      <3> QED BY <1>1, <3>2
    <2> QED BY <2>3, <2>4
  <1> QED BY <1>2, <1>4, <1>5 DEF r

LEMMA InFrontInOrder ==
  ASSUME NEW S, NEW s \in Seq(S), NEW x \in S, NEW y, NEW z
  PROVE  /\ NextTo(s, y, z) => NextTo(InFront(s, x), y, z)
         /\ NotBehind(s, y, z) => NotBehind(InFront(s, x), y, z)
  <1> DEFINE r == InFront(s, x)
  <1>1. Len(s) \in Nat /\ DOMAIN s = 1..Len(s) BY Members
  <1>2. /\ r \in Seq(S) /\ Len(r) = Len(s) + 1 /\ DOMAIN r = 1..(Len(s) + 1) /\ r[1] = x
        /\ \A i \in 1..Len(s) : r[i + 1] = s[i]
    BY <1>1 DEF InFront
  <1> HIDE DEF r
  <1>3. ASSUME NextTo(s, y, z) PROVE NextTo(r, y, z)
    <2>1. PICK i \in 1..(Len(s) - 1) : s[i] = y /\ s[i + 1] = z BY <1>3 DEF NextTo
    <2>2. i + 1 \in 1..(Len(r) - 1) /\ i \in 1..Len(s) /\ i + 1 \in 1..Len(s)
      BY <1>1, <1>2, <2>1
    <2>3. r[i + 1] = y /\ r[i + 1 + 1] = z BY <1>2, <2>1, <2>2
    <2> QED BY <2>2, <2>3 DEF NextTo
  <1>4. ASSUME NotBehind(s, y, z) PROVE NotBehind(r, y, z)
    <2>1. PICK i \in 1..Len(s), j \in 1..Len(s) : s[i] = y /\ s[j] = z /\ i <= j
      BY <1>4, <1>1 DEF NotBehind
    <2>2. i + 1 \in DOMAIN r /\ j + 1 \in DOMAIN r /\ i + 1 <= j + 1 BY <1>1, <1>2, <2>1
    <2>3. r[i + 1] = y /\ r[j + 1] = z BY <1>2, <2>1
    <2> QED BY <2>2, <2>3 DEF NotBehind
  <1> QED BY <1>3, <1>4 DEF r

\* One comes behind.
LEMMA PutBehind ==
  ASSUME NEW S, NEW s \in Seq(S), IsInjective(s), NEW x \in S, x \notin ToSet(s)
  PROVE  /\ Behind(s, x) \in Seq(S) /\ Len(Behind(s, x)) = Len(s) + 1 /\ IsInjective(Behind(s, x))
         /\ ToSet(Behind(s, x)) = ToSet(s) \cup {x}
  <1> DEFINE r == Behind(s, x)
  <1>1. Len(s) \in Nat /\ DOMAIN s = 1..Len(s) /\ (s = <<>> <=> Len(s) = 0) BY Members
  <1>2. /\ r \in Seq(S) /\ Len(r) = Len(s) + 1 /\ DOMAIN r = 1..(Len(s) + 1)
        /\ r[Len(s) + 1] = x /\ \A i \in 1..Len(s) : r[i] = s[i]
    BY <1>1 DEF Behind
  <1> HIDE DEF r
  <1>3. ToSet(r) = ToSet(s) \cup {x}
    <2>1. ASSUME NEW y \in ToSet(r) PROVE y \in ToSet(s) \cup {x}
      <3>1. PICK i \in 1..Len(r) : r[i] = y BY <1>2 DEF ToSet
      <3>2. i = Len(s) + 1 \/ i \in 1..Len(s)
        <4>1. i \in 1..(Len(s) + 1) BY <1>2, <3>1
        <4> QED BY <1>1, <4>1
      <3>3. CASE i = Len(s) + 1 BY <1>2, <3>1, <3>3
      <3>4. CASE i \in 1..Len(s)
        <4>1. y = s[i] BY <1>2, <3>1, <3>4
        <4> QED BY <3>4, <4>1, Members
      <3> QED BY <3>2, <3>3, <3>4
    <2>2. ASSUME NEW y \in ToSet(s) PROVE y \in ToSet(r)
      <3>1. PICK i \in 1..Len(s) : s[i] = y BY Members
      <3>2. i \in 1..(Len(s) + 1) /\ r[i] = y BY <1>1, <1>2, <3>1
      <3> QED BY <1>2, <3>2, Members
    <2>3. x \in ToSet(r)
      <3>1. Len(s) + 1 \in 1..Len(r) BY <1>1, <1>2
      <3>2. r[Len(s) + 1] \in ToSet(r) BY <1>2, <3>1, Members
      <3> QED BY <1>2, <3>2
    <2> QED BY <2>1, <2>2, <2>3
  <1>4. IsInjective(r)
    <2>1. SUFFICES ASSUME NEW i \in 1..(Len(s) + 1), NEW j \in 1..(Len(s) + 1), r[i] = r[j]
                   PROVE  i = j
      BY <1>2 DEF IsInjective
    <2>2. \A m \in 1..Len(s) : s[m] # x BY Members
    <2>3. /\ i = Len(s) + 1 \/ i \in 1..Len(s)
          /\ j = Len(s) + 1 \/ j \in 1..Len(s)
      BY <1>1
    <2>4. CASE i \in 1..Len(s) /\ j \in 1..Len(s)
      <3>1. s[i] = s[j] BY <1>2, <2>1, <2>4
      <3> QED BY <1>1, <2>4, <3>1 DEF IsInjective
    <2>5. CASE i = Len(s) + 1 \/ j = Len(s) + 1 BY <1>2, <2>1, <2>2, <2>3, <2>5
    <2> QED BY <2>3, <2>4, <2>5
  <1> QED BY <1>2, <1>3, <1>4 DEF r

LEMMA BehindInOrder ==
  ASSUME NEW S, NEW s \in Seq(S), NEW x \in S
  PROVE  /\ s = <<>> => Head(Behind(s, x)) = x
         /\ s # <<>> => Head(Behind(s, x)) = Head(s) /\ NextTo(Behind(s, x), s[Len(s)], x)
         /\ \A y, z : NextTo(s, y, z) => NextTo(Behind(s, x), y, z)
  <1> DEFINE r == Behind(s, x)
  <1>1. Len(s) \in Nat /\ DOMAIN s = 1..Len(s) /\ (s = <<>> <=> Len(s) = 0) BY Members
  <1>2. /\ r \in Seq(S) /\ Len(r) = Len(s) + 1 /\ DOMAIN r = 1..(Len(s) + 1)
        /\ r[Len(s) + 1] = x /\ \A i \in 1..Len(s) : r[i] = s[i]
    BY <1>1 DEF Behind
  <1> HIDE DEF r
  <1>5. /\ s = <<>> => Head(r) = x
        /\ s # <<>> => Head(r) = Head(s) /\ NextTo(r, s[Len(s)], x)
    <2>1. Len(r) > 0 /\ Head(r) = r[1] BY <1>1, <1>2
    <2>2. CASE s = <<>> BY <1>1, <1>2, <2>1, <2>2
    <2>3. CASE s # <<>>
      <3>1. 1 \in 1..Len(s) /\ Head(s) = s[1] /\ Len(s) \in 1..Len(s) /\ Len(s) \in 1..(Len(r) - 1)
        BY <1>1, <1>2, <2>3
      <3>2. r[1] = s[1] /\ r[Len(s)] = s[Len(s)] BY <1>2, <3>1
      <3> QED BY <1>2, <2>1, <2>3, <3>1, <3>2 DEF NextTo
    <2> QED BY <2>2, <2>3
  <1>6. ASSUME NEW y, NEW z, NextTo(s, y, z) PROVE NextTo(r, y, z)
    <2>1. PICK i \in 1..(Len(s) - 1) : s[i] = y /\ s[i + 1] = z BY <1>6 DEF NextTo
    <2>2. i \in 1..(Len(r) - 1) /\ i \in 1..Len(s) /\ i + 1 \in 1..Len(s) BY <1>1, <1>2, <2>1
    <2>3. r[i] = y /\ r[i + 1] = z BY <1>2, <2>1, <2>2
    <2> QED BY <2>2, <2>3 DEF NextTo
  <1> QED BY <1>5, <1>6 DEF r

\* The first goes.
LEMMA FirstGoes ==
  ASSUME NEW S, NEW s \in Seq(S), IsInjective(s), s # <<>>
  PROVE  /\ Tail(s) \in Seq(S) /\ Len(Tail(s)) = Len(s) - 1 /\ IsInjective(Tail(s))
         /\ Head(s) \in ToSet(s) /\ Head(s) \in S /\ ToSet(Tail(s)) = ToSet(s) \ {Head(s)}
  <1>1. Len(s) \in Nat /\ Len(s) > 0 /\ Head(s) = s[1] /\ 1 \in 1..Len(s) BY Members
  <1>2. /\ Tail(s) \in Seq(S) /\ Len(Tail(s)) = Len(s) - 1
        /\ \A i \in 1..(Len(s) - 1) : Tail(s)[i] = s[i + 1]
    BY <1>1
  <1> DEFINE r == Without(s, 1)
  <1>3. /\ r \in Seq(S) /\ Len(r) = Len(s) - 1 /\ IsInjective(r) /\ ToSet(r) = ToSet(s) \ {s[1]}
        /\ \A i \in 1..(Len(s) - 1) : r[i] = IF i < 1 THEN s[i] ELSE s[i + 1]
    <2> HIDE DEF r
    <2>1. r = Without(s, 1) BY DEF r
    <2>2. r \in Seq(S) /\ Len(r) = Len(s) - 1 BY <1>1, <2>1, TakenOut
    <2>3. IsInjective(r) BY <1>1, <2>1, TakenOut
    <2>4. ToSet(r) = ToSet(s) \ {s[1]} BY <1>1, <2>1, TakenOut
    <2>5. \A i \in 1..(Len(s) - 1) : r[i] = IF i < 1 THEN s[i] ELSE s[i + 1]
      BY <1>1, <2>1, TakenOut, SMTT(30)
    <2> QED BY <2>2, <2>3, <2>4, <2>5
  <1> HIDE DEF r
  <1>4. r = Tail(s)
    <2>1. DOMAIN r = 1..(Len(s) - 1) /\ DOMAIN Tail(s) = 1..(Len(s) - 1) BY <1>1, <1>2, <1>3
    <2>2. \A i \in 1..(Len(s) - 1) : r[i] = Tail(s)[i] BY <1>1, <1>2, <1>3
    <2> QED BY <1>2, <1>3, <2>1, <2>2
  <1>5. Head(s) \in ToSet(s) /\ Head(s) \in S BY <1>1, Members
  <1> QED BY <1>1, <1>2, <1>3, <1>4, <1>5

\* Places that are in order.
LEMMA InOrder ==
  ASSUME NEW S, NEW s \in Seq(S), IsInjective(s), NEW x, NEW y, NEW z
  PROVE  /\ x \in ToSet(s) => NotBehind(s, x, x)
         /\ NotBehind(s, x, y) => x \in ToSet(s) /\ y \in ToSet(s)
         /\ NextTo(s, x, y) => NotBehind(s, x, y) /\ x # y
         /\ NotBehind(s, x, y) /\ NotBehind(s, y, z) => NotBehind(s, x, z)
         /\ NotBehind(s, x, y) /\ NotBehind(s, y, x) => x = y
  <1>1. Len(s) \in Nat /\ DOMAIN s = 1..Len(s) BY Members
  <1>2. \A i, j \in 1..Len(s) : s[i] = s[j] => i = j BY <1>1 DEF IsInjective
  <1>3. x \in ToSet(s) => NotBehind(s, x, x)
    <2>1. HAVE x \in ToSet(s)
    <2>2. PICK i \in 1..Len(s) : s[i] = x BY <2>1, Members
    <2> QED BY <1>1, <2>2 DEF NotBehind
  <1>4. NotBehind(s, x, y) => x \in ToSet(s) /\ y \in ToSet(s) BY <1>1, Members DEF NotBehind
  <1>5. NextTo(s, x, y) => NotBehind(s, x, y) /\ x # y
    <2>1. HAVE NextTo(s, x, y)
    <2>2. PICK i \in 1..(Len(s) - 1) : s[i] = x /\ s[i + 1] = y BY <2>1 DEF NextTo
    <2>3. i \in 1..Len(s) /\ i + 1 \in 1..Len(s) /\ i <= i + 1 /\ i # i + 1 BY <1>1
    <2> QED BY <1>1, <1>2, <2>2, <2>3 DEF NotBehind
  <1>6. NotBehind(s, x, y) /\ NotBehind(s, y, z) => NotBehind(s, x, z)
    <2>1. HAVE NotBehind(s, x, y) /\ NotBehind(s, y, z)
    <2>2. PICK i \in 1..Len(s), j \in 1..Len(s) : s[i] = x /\ s[j] = y /\ i <= j
      BY <1>1, <2>1 DEF NotBehind
    <2>3. PICK k \in 1..Len(s), l \in 1..Len(s) : s[k] = y /\ s[l] = z /\ k <= l
      BY <1>1, <2>1 DEF NotBehind
    <2>4. j = k BY <1>2, <2>2, <2>3
    <2>5. i <= l BY <1>1, <2>2, <2>3, <2>4
    <2> QED BY <1>1, <2>2, <2>3, <2>5 DEF NotBehind
  <1>7. NotBehind(s, x, y) /\ NotBehind(s, y, x) => x = y
    <2>1. HAVE NotBehind(s, x, y) /\ NotBehind(s, y, x)
    <2>2. PICK i \in 1..Len(s), j \in 1..Len(s) : s[i] = x /\ s[j] = y /\ i <= j
      BY <1>1, <2>1 DEF NotBehind
    <2>3. PICK k \in 1..Len(s), l \in 1..Len(s) : s[k] = y /\ s[l] = x /\ k <= l
      BY <1>1, <2>1 DEF NotBehind
    <2>4. j = k /\ i = l BY <1>2, <2>2, <2>3
    <2>5. i = j BY <1>1, <2>2, <2>3, <2>4
    <2> QED BY <2>2, <2>5
  <1> QED BY <1>3, <1>4, <1>5, <1>6, <1>7

-----------------------------------------------------------------------------
(***************************************************************************)
(* The lists of blocks of a group.                                         *)
(***************************************************************************)

LEMMA Constants ==
  /\ BlocksPerGroup \in Nat /\ BlocksPerGroup > 0 /\ BlockRoom \in Nat /\ BlockRoom > 0
  /\ Rounds \in [Threads -> Nat] /\ None \notin Threads /\ None \notin Groups
  /\ None \notin Blocks /\ \A b \in Blocks : b[1] \in Groups
  BY LogBufferAssumption DEF Blocks

\* From free_ to stage_.
LEMMA Allocated ==
  ASSUME NEW g \in Groups, NEW fr \in Seq(Blocks), NEW us \in Seq(Blocks),
         NEW st \in Seq(Blocks), GroupSound(g, fr, us, st), fr # <<>>
  PROVE  /\ Head(fr) \in Blocks /\ Head(fr)[1] = g
         /\ Head(fr) \notin ToSet(us) /\ Head(fr) \notin ToSet(st)
         /\ Tail(fr) \in Seq(Blocks) /\ InFront(st, Head(fr)) \in Seq(Blocks)
         /\ ToSet(InFront(st, Head(fr))) = ToSet(st) \cup {Head(fr)}
         /\ GroupSound(g, Tail(fr), us, InFront(st, Head(fr)))
  <1> DEFINE x == Head(fr)
             f == Tail(fr)
             q == InFront(st, x)
  <1>1. /\ f \in Seq(Blocks) /\ Len(f) = Len(fr) - 1 /\ IsInjective(f)
        /\ x \in ToSet(fr) /\ x \in Blocks /\ ToSet(f) = ToSet(fr) \ {x}
    BY FirstGoes DEF GroupSound
  <1>2. x \notin ToSet(us) /\ x \notin ToSet(st) /\ x[1] = g BY <1>1 DEF GroupSound
  <1> HIDE DEF x, f
  <1>3. /\ q \in Seq(Blocks) /\ Len(q) = Len(st) + 1 /\ IsInjective(q)
        /\ ToSet(q) = ToSet(st) \cup {x}
    <2>1. q = InFront(st, x) BY DEF q
    <2>2. IsInjective(st) BY DEF GroupSound
    <2> HIDE DEF q
    <2>3. q \in Seq(Blocks) /\ Len(q) = Len(st) + 1 BY <1>1, <1>2, <2>1, <2>2, PutInFront
    <2>4. IsInjective(q) BY <1>1, <1>2, <2>1, <2>2, PutInFront
    <2>5. ToSet(q) = ToSet(st) \cup {x}
      <3>1. x \in Blocks /\ x \notin ToSet(st) BY <1>1, <1>2
      <3> QED BY <2>1, <2>2, <3>1, PutInFront
    <2> QED BY <2>3, <2>4, <2>5
  <1> HIDE DEF q
  <1>4. GroupSound(g, f, us, q)
    <2>1. \A b \in ToSet(f) \cup ToSet(us) \cup ToSet(q) : b[1] = g
      BY <1>1, <1>2, <1>3 DEF GroupSound
    <2>2. IsInjective(f) /\ IsInjective(us) /\ IsInjective(q) BY <1>1, <1>3 DEF GroupSound
    <2>3. /\ ToSet(f) \cap ToSet(us) = {} /\ ToSet(f) \cap ToSet(q) = {}
          /\ ToSet(us) \cap ToSet(q) = {}
      BY <1>1, <1>2, <1>3 DEF GroupSound
    <2>4. Len(f) + Len(us) + Len(q) = BlocksPerGroup
      <3>1. Len(fr) \in Nat /\ Len(us) \in Nat /\ Len(st) \in Nat BY Members
      <3> QED BY <1>1, <1>3, <3>1, Constants DEF GroupSound
    <2> QED BY <2>1, <2>2, <2>3, <2>4 DEF GroupSound
  <1> QED BY <1>1, <1>2, <1>3, <1>4 DEF x, f, q

\* From stage_ to the end of used_.
LEMMA Taken ==
  ASSUME NEW g \in Groups, NEW fr \in Seq(Blocks), NEW us \in Seq(Blocks),
         NEW st \in Seq(Blocks), GroupSound(g, fr, us, st), st # <<>>
  PROVE  /\ Head(st) \in Blocks /\ Head(st)[1] = g /\ Head(st) \notin ToSet(us)
         /\ Head(st) \in ToSet(st)
         /\ Tail(st) \in Seq(Blocks) /\ Behind(us, Head(st)) \in Seq(Blocks)
         /\ ToSet(Behind(us, Head(st))) = ToSet(us) \cup {Head(st)}
         /\ ToSet(Tail(st)) = ToSet(st) \ {Head(st)}
         /\ GroupSound(g, fr, Behind(us, Head(st)), Tail(st))
  <1> DEFINE x == Head(st)
             f == Tail(st)
             q == Behind(us, x)
  <1>1. /\ f \in Seq(Blocks) /\ Len(f) = Len(st) - 1 /\ IsInjective(f)
        /\ x \in ToSet(st) /\ x \in Blocks /\ ToSet(f) = ToSet(st) \ {x}
    BY FirstGoes DEF GroupSound
  <1>2. x \notin ToSet(us) /\ x \notin ToSet(fr) /\ x[1] = g BY <1>1 DEF GroupSound
  <1> HIDE DEF x, f
  <1>3. /\ q \in Seq(Blocks) /\ Len(q) = Len(us) + 1 /\ IsInjective(q)
        /\ ToSet(q) = ToSet(us) \cup {x}
    <2>1. q = Behind(us, x) BY DEF q
    <2>2. IsInjective(us) BY DEF GroupSound
    <2> HIDE DEF q
    <2>3. q \in Seq(Blocks) /\ Len(q) = Len(us) + 1 BY <1>1, <1>2, <2>1, <2>2, PutBehind
    <2>4. IsInjective(q) BY <1>1, <1>2, <2>1, <2>2, PutBehind
    <2>5. ToSet(q) = ToSet(us) \cup {x}
      <3>1. x \in Blocks /\ x \notin ToSet(us) BY <1>1, <1>2
      <3> QED BY <2>1, <2>2, <3>1, PutBehind
    <2> QED BY <2>3, <2>4, <2>5
  <1> HIDE DEF q
  <1>4. GroupSound(g, fr, q, f)
    <2>1. \A b \in ToSet(fr) \cup ToSet(q) \cup ToSet(f) : b[1] = g
      BY <1>1, <1>2, <1>3 DEF GroupSound
    <2>2. IsInjective(f) /\ IsInjective(fr) /\ IsInjective(q) BY <1>1, <1>3 DEF GroupSound
    <2>3. /\ ToSet(fr) \cap ToSet(q) = {} /\ ToSet(fr) \cap ToSet(f) = {}
          /\ ToSet(q) \cap ToSet(f) = {}
      BY <1>1, <1>2, <1>3 DEF GroupSound
    <2>4. Len(fr) + Len(q) + Len(f) = BlocksPerGroup
      <3>1. Len(fr) \in Nat /\ Len(us) \in Nat /\ Len(st) \in Nat BY Members
      <3> QED BY <1>1, <1>3, <3>1, Constants DEF GroupSound
    <2> QED BY <2>1, <2>2, <2>3, <2>4 DEF GroupSound
  <1> QED BY <1>1, <1>2, <1>3, <1>4 DEF x, f, q

\* Out of used_ and back to free_.
LEMMA PutBack ==
  ASSUME NEW g \in Groups, NEW fr \in Seq(Blocks), NEW us \in Seq(Blocks),
         NEW st \in Seq(Blocks), GroupSound(g, fr, us, st), NEW k \in 1..Len(us),
         NEW b, b = us[k], NEW r, r = Without(us, k)
  PROVE  /\ b \in Blocks /\ b \notin ToSet(st) /\ r \in Seq(Blocks) /\ InFront(fr, b) \in Seq(Blocks)
         /\ ToSet(r) = ToSet(us) \ {b}
         /\ GroupSound(g, InFront(fr, b), r, st)
  <1> DEFINE q == InFront(fr, b)
  <1>1. b \in Blocks /\ b \in ToSet(us) BY Members
  <1>2. b \notin ToSet(fr) /\ b \notin ToSet(st) /\ b[1] = g BY <1>1 DEF GroupSound
  <1>3. r \in Seq(Blocks) /\ Len(r) = Len(us) - 1 /\ IsInjective(r) /\ ToSet(r) = ToSet(us) \ {b}
    <2>1. IsInjective(us) BY DEF GroupSound
    <2>2. r \in Seq(Blocks) /\ Len(r) = Len(us) - 1 BY <2>1, TakenOut
    <2>3. IsInjective(r) BY <2>1, TakenOut
    <2>4. ToSet(r) = ToSet(us) \ {b} BY <2>1, TakenOut
    <2> QED BY <2>2, <2>3, <2>4
  <1>4. /\ q \in Seq(Blocks) /\ Len(q) = Len(fr) + 1 /\ IsInjective(q)
        /\ ToSet(q) = ToSet(fr) \cup {b}
    <2>1. q = InFront(fr, b) BY DEF q
    <2>2. IsInjective(fr) BY DEF GroupSound
    <2> HIDE DEF q
    <2>3. q \in Seq(Blocks) /\ Len(q) = Len(fr) + 1 BY <1>1, <1>2, <2>1, <2>2, PutInFront
    <2>4. IsInjective(q) BY <1>1, <1>2, <2>1, <2>2, PutInFront
    <2>5. ToSet(q) = ToSet(fr) \cup {b}
      <3>1. b \in Blocks /\ b \notin ToSet(fr) BY <1>1, <1>2
      <3> QED BY <2>1, <2>2, <3>1, PutInFront
    <2> QED BY <2>3, <2>4, <2>5
  <1> HIDE DEF q
  <1>5. GroupSound(g, q, r, st)
    <2>1. \A d \in ToSet(q) \cup ToSet(r) \cup ToSet(st) : d[1] = g
      BY <1>2, <1>3, <1>4 DEF GroupSound
    <2>2. IsInjective(q) /\ IsInjective(r) /\ IsInjective(st) BY <1>3, <1>4 DEF GroupSound
    <2>3. /\ ToSet(q) \cap ToSet(r) = {} /\ ToSet(q) \cap ToSet(st) = {}
          /\ ToSet(r) \cap ToSet(st) = {}
      BY <1>2, <1>3, <1>4 DEF GroupSound
    <2>4. Len(q) + Len(r) + Len(st) = BlocksPerGroup
      <3>1. Len(fr) \in Nat /\ Len(us) \in Nat /\ Len(st) \in Nat BY Members
      <3>2. Len(fr) + Len(us) + Len(st) = BlocksPerGroup BY DEF GroupSound
      <3>3. Len(r) = Len(us) - 1 /\ Len(q) = Len(fr) + 1 BY <1>3, <1>4
      <3> QED BY <3>1, <3>2, <3>3
    <2> QED BY <2>1, <2>2, <2>3, <2>4 DEF GroupSound
  <1> QED BY <1>1, <1>2, <1>3, <1>4, <1>5 DEF q

\* A block is in use if it is in one of the two lists of its group.
LEMMA UseIs ==
  ASSUME TypeOK, ListsSound
  PROVE  /\ InUse \subseteq Blocks
         /\ \A b \in Blocks : b \in InUse <=> b \in ToSet(used[b[1]]) \cup ToSet(stage[b[1]])
         /\ \A g \in Groups : \A b \in ToSet(used[g]) \cup ToSet(stage[g]) :
               b \in InUse /\ b \in Blocks /\ b[1] = g /\ g \in Live
  <1>1. Live \subseteq Groups BY Members DEF TypeOK, Live
  <1>2. \A g \in Groups : used[g] \in Seq(Blocks) /\ stage[g] \in Seq(Blocks) BY DEF TypeOK
  <1>3. ASSUME NEW g \in Groups, NEW b \in ToSet(used[g]) \cup ToSet(stage[g])
        PROVE  b \in InUse /\ b \in Blocks /\ b[1] = g /\ g \in Live
    <2>1. b \in Blocks BY <1>2, Members
    <2>2. b[1] = g BY DEF ListsSound, GroupSound
    <2>3. g \in Live
      <3>1. used[g] # <<>> \/ stage[g] # <<>> BY <1>2, Members
      <3> QED BY <3>1 DEF ListsSound
    <2> QED BY <2>1, <2>2, <2>3 DEF InUse
  <1>4. ASSUME NEW b \in InUse
        PROVE  b \in Blocks /\ b \in ToSet(used[b[1]]) \cup ToSet(stage[b[1]])
    <2>1. PICK g \in Live : b \in ToSet(used[g]) \cup ToSet(stage[g]) BY DEF InUse
    <2> QED BY <1>1, <1>3, <2>1
  <1>5. ASSUME NEW b \in Blocks, b \in ToSet(used[b[1]]) \cup ToSet(stage[b[1]])
        PROVE  b \in InUse
    BY <1>3, <1>5, Constants
  <1> QED BY <1>3, <1>4, <1>5

-----------------------------------------------------------------------------
(***************************************************************************)
(* The reader's way through groups and blocks.                             *)
(***************************************************************************)

\* What NextUsed and NextOf find: the first, or the one behind x.
FirstOf(s) == IF DOMAIN s \cap {1} = {} THEN None ELSE s[CHOOSE i \in DOMAIN s \cap {1} : TRUE]
Behinds(s, x) == IF After(s, x) = {} THEN None ELSE s[CHOOSE i \in After(s, x) : TRUE]

LEMMA FirstIs ==
  ASSUME NEW S, NEW s \in Seq(S)
  PROVE  FirstOf(s) = IF s = <<>> THEN None ELSE Head(s)
  <1>1. Len(s) \in Nat /\ DOMAIN s = 1..Len(s) /\ (s = <<>> <=> Len(s) = 0) BY Members
  <1>2. CASE s = <<>>
    <2>1. DOMAIN s \cap {1} = {} BY <1>1, <1>2
    <2> QED BY <1>2, <2>1 DEF FirstOf
  <1>3. CASE s # <<>>
    <2>1. DOMAIN s \cap {1} = {1} BY <1>1, <1>3
    <2>2. FirstOf(s) = s[CHOOSE i \in {1} : TRUE] BY <2>1 DEF FirstOf
    <2>3. FirstOf(s) = s[1] BY <2>2
    <2> QED BY <1>1, <1>3, <2>3
  <1> QED BY <1>2, <1>3

LEMMA BehindIs ==
  ASSUME NEW S, NEW s \in Seq(S), None \notin S, NEW x \in ToSet(s)
  PROVE  /\ Behinds(s, x) # None => NextTo(s, x, Behinds(s, x)) /\ Behinds(s, x) \in ToSet(s)
         /\ Behinds(s, x) = None => x = s[Len(s)]
  <1>1. Len(s) \in Nat /\ DOMAIN s = 1..Len(s) BY Members
  <1>2. CASE After(s, x) = {}
    <2>1. Behinds(s, x) = None BY <1>2 DEF Behinds
    <2>2. PICK i \in 1..Len(s) : s[i] = x BY Members
    <2>3. CASE i = Len(s) BY <2>1, <2>2, <2>3
    <2>4. CASE i # Len(s)
      <3>1. i + 1 \in 2..Len(s) /\ i + 1 - 1 = i
        <4> DEFINE n == Len(s)
        <4>1. n \in Nat /\ i \in 1..n /\ i # n BY <1>1, <2>4
        <4> HIDE DEF n
        <4>2. i + 1 \in 2..n /\ i + 1 - 1 = i BY <4>1
        <4> QED BY <4>2 DEF n
      <3>2. i + 1 \in After(s, x) BY <2>2, <3>1 DEF After
      <3> QED BY <1>2, <3>2
    <2> QED BY <2>3, <2>4
  <1>3. CASE After(s, x) # {}
    <2>1. PICK i \in After(s, x) : Behinds(s, x) = s[i] BY <1>3 DEF Behinds
    <2>2. i \in 2..Len(s) /\ s[i - 1] = x BY DEF After
    <2>3. i - 1 \in 1..(Len(s) - 1) /\ i - 1 + 1 = i /\ i \in 1..Len(s) BY <1>1, <2>2
    <2>4. NextTo(s, x, s[i]) BY <2>2, <2>3 DEF NextTo
    <2>5. s[i] \in ToSet(s) /\ s[i] # None BY <2>3, Members
    <2> QED BY <2>1, <2>4, <2>5
  <1> QED BY <1>2, <1>3

LEMMA WayTypes ==
  ASSUME TypeOK, ListsSound, ReaderOnItsWay
  PROVE  /\ reader.curGroup \in Groups \cup {None} /\ reader.lastGroup \in Groups \cup {None}
         /\ reader.curBlock \in Blocks \cup {None} /\ reader.lastBlock \in Blocks \cup {None}
         /\ groups \in Seq(Groups) /\ IsInjective(groups) /\ Live \subseteq Groups
         /\ \A g \in Groups : /\ free[g] \in Seq(Blocks) /\ used[g] \in Seq(Blocks)
                              /\ stage[g] \in Seq(Blocks)
                              /\ GroupSound(g, free[g], used[g], stage[g])
         /\ reader.curBlock # None => /\ reader.curBlock \in InUse /\ reader.curBlock[1] \in Groups
         /\ InGroup(reader.curBlock) <=> In(reader, reader.curBlock)
         /\ InGroup(reader.lastBlock) <=> In(reader, reader.lastBlock)
  <1>1. /\ reader.curGroup \in Groups \cup {None} /\ reader.lastGroup \in Groups \cup {None}
        /\ reader.curBlock \in Blocks \cup {None} /\ reader.lastBlock \in Blocks \cup {None}
    BY DEF TypeOK
  <1>2. groups \in Seq(Groups) /\ IsInjective(groups) BY DEF TypeOK
  <1>3. Live \subseteq Groups BY <1>2, Members DEF Live
  <1>4. \A g \in Groups : /\ free[g] \in Seq(Blocks) /\ used[g] \in Seq(Blocks)
                          /\ stage[g] \in Seq(Blocks)
                          /\ GroupSound(g, free[g], used[g], stage[g])
    BY DEF TypeOK, ListsSound
  <1>5. ASSUME reader.curBlock # None
        PROVE  reader.curBlock \in InUse /\ reader.curBlock[1] \in Groups
    <2>1. reader.curBlock \in Blocks /\ reader.curBlock[1] \in Groups BY <1>1, <1>5, Constants
    <2>2. reader.curBlock \in ToSet(used[reader.curBlock[1]])
      BY <1>5 DEF ReaderOnItsWay, WaySound
    <2> QED BY <2>1, <2>2, UseIs
  <1>6. /\ InGroup(reader.curBlock) <=> In(reader, reader.curBlock)
        /\ InGroup(reader.lastBlock) <=> In(reader, reader.lastBlock)
    BY DEF In, InGroup
  <1> QED BY <1>1, <1>2, <1>3, <1>4, <1>5, <1>6

\* What leaving a block does to the lists of its group.  The block that is found
\* stands behind the one that stays in front of it.
Follows(u, before, next) == IF before = None THEN Head(u) = next ELSE NextTo(u, before, next)
Stays == IF InGroup(reader.curBlock) /\ ~reader.marked THEN reader.curBlock
         ELSE IF InGroup(reader.curBlock) THEN Before ELSE None

\* The list used_ once the block that was found is in it.
GrownList(u, next) == IF NextUsed = None /\ next # None THEN Behind(u, next) ELSE u

LEMMA BlockFound ==
  ASSUME TypeOK, ListsSound, ReaderOnItsWay, reader.curGroup # None,
         NEW next \in Blocks \cup {None}, LeaveCurrent(next)
  PROVE  LET g == reader.curGroup
             b == reader.curBlock
             u == GrownList(used[g], next)
         IN  /\ g \in Groups /\ u \in Seq(Blocks) /\ stage' \in [Groups -> Seq(Blocks)]
             /\ GroupSound(g, free[g], u, stage'[g])
             /\ \A h \in Groups \ {g} : stage'[h] = stage[h]
             /\ ToSet(u) \cup ToSet(stage'[g]) = ToSet(used[g]) \cup ToSet(stage[g])
             /\ ToSet(used[g]) \subseteq ToSet(u)
             /\ \A x, y : NextTo(used[g], x, y) => NextTo(u, x, y)
             /\ used[g] # <<>> => u # <<>> /\ Head(u) = Head(used[g])
             /\ next # None => next \in ToSet(u) /\ next[1] = g
             /\ next # None => IF InGroup(b) THEN NextTo(u, b, next) ELSE Head(u) = next
  <1> DEFINE g == reader.curGroup
             b == reader.curBlock
             v == used[g]
             u == GrownList(v, next)
  <1>1. /\ g \in Groups /\ v \in Seq(Blocks) /\ stage[g] \in Seq(Blocks) /\ free[g] \in Seq(Blocks)
        /\ GroupSound(g, free[g], v, stage[g]) /\ IsInjective(v) /\ None \notin Blocks
    BY WayTypes, Constants DEF GroupSound
  <1>2. InGroup(b) => b \in ToSet(v) BY DEF InGroup, ReaderOnItsWay, WaySound
  <1>3. NextUsed = IF InGroup(b) THEN Behinds(v, b) ELSE FirstOf(v)
    <2>1. CASE InGroup(b) BY <2>1 DEF NextUsed, Behinds
    <2>2. CASE ~InGroup(b) BY <2>2 DEF NextUsed, FirstOf
    <2> QED BY <2>1, <2>2
  <1>4. stage \in [Groups -> Seq(Blocks)] BY DEF TypeOK
  <1>5. CASE NextUsed # None
    <2>1. next = NextUsed /\ stage' = stage BY <1>5 DEF LeaveCurrent
    <2>2. u = v BY <1>5 DEF GrownList
    <2>3. IF InGroup(b) THEN NextTo(v, b, next) /\ next \in ToSet(v)
          ELSE v # <<>> /\ Head(v) = next /\ next \in ToSet(v)
      <3>1. CASE InGroup(b) BY <1>1, <1>2, <1>3, <1>5, <2>1, <3>1, BehindIs
      <3>2. CASE ~InGroup(b)
        <4>1. v # <<>> /\ next = Head(v) BY <1>1, <1>3, <1>5, <2>1, <3>2, FirstIs
        <4> QED BY <1>1, <3>2, <4>1, FirstGoes
      <3> QED BY <3>1, <3>2
    <2>4. next[1] = g BY <1>1, <2>3 DEF GroupSound
    <2> HIDE DEF u, v, g, b
    <2> QED BY <1>1, <1>4, <2>1, <2>2, <2>3, <2>4 DEF u, v, g, b
  <1>6. CASE NextUsed = None /\ stage[g] # <<>>
    <2>1. next = Head(stage[g]) /\ stage' = [stage EXCEPT ![g] = Tail(@)]
      BY <1>6 DEF LeaveCurrent
    <2>2. stage'[g] = Tail(stage[g]) /\ \A h \in Groups \ {g} : stage'[h] = stage[h]
      BY <1>1, <1>4, <2>1
    <2>3. /\ next \in Blocks /\ next[1] = g /\ next \notin ToSet(v) /\ next \in ToSet(stage[g])
          /\ Tail(stage[g]) \in Seq(Blocks) /\ Behind(v, next) \in Seq(Blocks)
          /\ ToSet(Behind(v, next)) = ToSet(v) \cup {next}
          /\ ToSet(Tail(stage[g])) = ToSet(stage[g]) \ {next}
          /\ GroupSound(g, free[g], Behind(v, next), Tail(stage[g]))
      <3> HIDE DEF v, g
      <3> QED BY <1>1, <1>6, <2>1, Taken
    <2>4. u = Behind(v, next) BY <1>1, <1>6, <2>3 DEF GrownList
    <2>5. stage' \in [Groups -> Seq(Blocks)] BY <1>1, <1>4, <2>1, <2>3
    <2>6. /\ v = <<>> => Head(u) = next
          /\ v # <<>> => Head(u) = Head(v) /\ NextTo(u, v[Len(v)], next)
          /\ \A x, y : NextTo(v, x, y) => NextTo(u, x, y)
      <3> HIDE DEF u, v
      <3>0. v \in Seq(Blocks) /\ next \in Blocks BY <1>1, <2>3
      <3>1. v = <<>> => Head(Behind(v, next)) = next BY <3>0, BehindInOrder
      <3>2. v # <<>> => /\ Head(Behind(v, next)) = Head(v)
                        /\ NextTo(Behind(v, next), v[Len(v)], next)
        BY <3>0, BehindInOrder
      <3>3. \A x, y : NextTo(v, x, y) => NextTo(Behind(v, next), x, y)
        BY <3>0, BehindInOrder
      <3> QED BY <2>4, <3>1, <3>2, <3>3
    <2>7. IF InGroup(b) THEN v[Len(v)] = b /\ v # <<>> ELSE v = <<>>
      <3>1. CASE InGroup(b) BY <1>1, <1>2, <1>3, <1>6, <3>1, BehindIs, Members
      <3>2. CASE ~InGroup(b)
        <4>1. v # <<>> => Head(v) \in Blocks BY <1>1
        <4>2. FirstOf(v) = None BY <1>3, <1>6, <3>2
        <4> QED BY <1>1, <3>2, <4>1, <4>2, FirstIs
      <3> QED BY <3>1, <3>2
    <2>8. u # <<>> BY <2>3, <2>4, Members
    <2>9. /\ ToSet(u) \cup ToSet(stage'[g]) = ToSet(v) \cup ToSet(stage[g])
          /\ ToSet(v) \subseteq ToSet(u) /\ next \in ToSet(u)
      BY <2>2, <2>3, <2>4
    <2>10. IF InGroup(b) THEN NextTo(u, b, next) ELSE Head(u) = next BY <2>6, <2>7
    <2>11. v # <<>> => u # <<>> /\ Head(u) = Head(v) BY <2>6, <2>8
    <2>12. u \in Seq(Blocks) /\ GroupSound(g, free[g], u, stage'[g]) BY <2>2, <2>3, <2>4
    <2> HIDE DEF u, v, g, b
    <2> QED BY <1>1, <2>2, <2>3, <2>5, <2>6, <2>9, <2>10, <2>11, <2>12 DEF u, v, g, b
  <1>7. CASE NextUsed = None /\ ~(stage[g] # <<>>)
    <2>1. next = None /\ stage' = stage BY <1>7 DEF LeaveCurrent
    <2>2. u = v BY <2>1 DEF GrownList
    <2> HIDE DEF u, v, g, b
    <2> QED BY <1>1, <1>4, <2>1, <2>2 DEF u, v, g, b
  <1> QED BY <1>5, <1>6, <1>7

\* The block b is unlinked behind the block in front of it, and only that one.
LEMMA Unlinked ==
  ASSUME NEW S, NEW s \in Seq(S), IsInjective(s), None \notin S, NEW b \in ToSet(s), NEW before,
         Follows(s, before, b)
  PROVE  \E k \in 1..Len(s) : /\ s[k] = b /\ Unlink(s, before, b) = Without(s, k)
                              /\ \A next : NextTo(s, b, next) => Follows(Without(s, k), before, next)
  <1>1. Len(s) \in Nat /\ DOMAIN s = 1..Len(s) /\ s # <<>> BY Members
  <1>2. \A i, j \in 1..Len(s) : s[i] = s[j] => i = j BY <1>1 DEF IsInjective
  <1>3. PICK k \in 1..Len(s) : s[k] = b BY Members
  <1>4. PlaceOf(s, b) = k BY <1>3, PlaceIs
  <1>5. PlaceOf(s, before) = k - 1 /\ (before = None => k = 1) /\ (before # None => k > 1 /\ s[k - 1] = before)
    <2>1. CASE before = None
      <3>1. s[1] = b /\ 1 \in 1..Len(s) BY <1>1, <2>1 DEF Follows
      <3>2. k = 1 BY <1>2, <1>3, <3>1
      <3>3. None \notin ToSet(s) BY Members
      <3>4. PlaceOf(s, before) = 0 BY <2>1, <3>3 DEF PlaceOf
      <3> QED BY <2>1, <3>2, <3>4
    <2>2. CASE before # None
      <3>1. PICK i \in 1..(Len(s) - 1) : s[i] = before /\ s[i + 1] = b BY <2>2 DEF Follows, NextTo
      <3>2. i \in 1..Len(s) /\ i + 1 \in 1..Len(s) BY <1>1
      <3>3. i + 1 = k BY <1>2, <1>3, <3>1, <3>2
      <3>4. i = k - 1 /\ k > 1 BY <1>1, <3>2, <3>3
      <3>5. PlaceOf(s, before) = i BY <3>1, <3>2, PlaceIs
      <3> QED BY <2>2, <3>1, <3>4, <3>5
    <2> QED BY <2>1, <2>2
  <1>6. Unlink(s, before, b) = Without(s, k) BY <1>4, <1>5 DEF Unlink, Without
  <1>7. ASSUME NEW next, NextTo(s, b, next) PROVE Follows(Without(s, k), before, next)
    <2>1. PICK i \in 1..(Len(s) - 1) : s[i] = b /\ s[i + 1] = next BY <1>7 DEF NextTo
    <2>2. i \in 1..Len(s) /\ i = k BY <1>1, <1>2, <1>3, <2>1
    <2>3. k < Len(s) BY <1>1, <2>2
    <2>4. PICK r : r = Without(s, k) OBVIOUS
    <2>5. CASE before = None
      <3>1. k = 1 /\ s[2] = next BY <1>5, <2>1, <2>2, <2>5
      <3>2. Head(r) = s[2] BY <2>3, <2>4, <3>1, TakenOut
      <3> QED BY <2>4, <2>5, <3>1, <3>2 DEF Follows
    <2>6. CASE before # None
      <3>1. k > 1 /\ s[k - 1] = before /\ s[k + 1] = next BY <1>5, <2>1, <2>2, <2>6
      <3>2. NextTo(r, s[k - 1], s[k + 1]) BY <2>3, <2>4, <3>1, TakenOut
      <3> QED BY <2>4, <2>6, <3>1, <3>2 DEF Follows
    <2> QED BY <2>5, <2>6
  <1> QED BY <1>3, <1>6, <1>7

\* What the reader has when it leaves a block with the mark.
LEMMA MarkedBlock ==
  ASSUME TypeOK, ListsSound, ReaderOnItsWay, reader.state = "nextBlock", Recycles
  PROVE  /\ reader.curBlock \in Blocks /\ reader.curBlock[1] = reader.curGroup
         /\ reader.curBlock \in ToSet(used[reader.curGroup])
         /\ reader.curBlock \in InUse
         /\ Follows(used[reader.curGroup], Before, reader.curBlock)
  <1>1. reader.curBlock # None /\ reader.curBlock[1] = reader.curGroup BY DEF Recycles, InGroup
  <1>2. reader.curBlock \in Blocks /\ reader.curBlock \in InUse BY <1>1, WayTypes
  <1>3. reader.curBlock \in ToSet(used[reader.curGroup]) BY <1>1 DEF ReaderOnItsWay, WaySound
  <1>4. In(reader, reader.curBlock) BY <1>1 DEF In
  <1>5. CASE In(reader, reader.lastBlock)
    <2>1. NextTo(used[reader.curGroup], reader.lastBlock, reader.curBlock)
      BY <1>4, <1>5 DEF ReaderOnItsWay, StateSound
    <2>2. Before = reader.lastBlock /\ reader.lastBlock # None
      BY <1>5 DEF Before, In, InGroup
    <2> QED BY <1>1, <1>2, <1>3, <2>1, <2>2 DEF Follows
  <1>6. CASE ~In(reader, reader.lastBlock)
    <2>1. Head(used[reader.curGroup]) = reader.curBlock
      BY <1>4, <1>6 DEF ReaderOnItsWay, StateSound
    <2>2. Before = None BY <1>6 DEF Before, In, InGroup
    <2> QED BY <1>1, <1>2, <1>3, <2>1, <2>2 DEF Follows
  <1> QED BY <1>5, <1>6

LeftList(u) == IF Recycles THEN Unlink(u, Before, reader.curBlock) ELSE u

LEMMA BlockLeft ==
  ASSUME TypeOK, ListsSound, ReaderOnItsWay, reader.state = "nextBlock",
         NEW next \in Blocks \cup {None}, LeaveCurrent(next)
  PROVE  LET g == reader.curGroup
             b == reader.curBlock
             fr == free'[g]
             us == used'[g]
             st == stage'[g]
         IN  /\ g \in Groups
             /\ free' \in [Groups -> Seq(Blocks)] /\ used' \in [Groups -> Seq(Blocks)]
             /\ stage' \in [Groups -> Seq(Blocks)]
             /\ \A h \in Groups \ {g} :
                   free'[h] = free[h] /\ used'[h] = used[h] /\ stage'[h] = stage[h]
             /\ GroupSound(g, fr, us, st)
             /\ ToSet(us) \cup ToSet(st) =
                   (ToSet(used[g]) \cup ToSet(stage[g])) \ (IF Recycles THEN {b} ELSE {})
             /\ ToSet(used[g]) \ (IF Recycles THEN {b} ELSE {}) \subseteq ToSet(us)
             /\ next # None => next \in ToSet(us) /\ next[1] = g /\ Follows(us, Stays, next)
  <1> DEFINE g == reader.curGroup
             b == reader.curBlock
             v == used[g]
             u == GrownList(v, next)
             st == stage'[g]
  <1>0. g # None BY DEF ReaderOnItsWay, StateSound
  <1>1. /\ g \in Groups /\ u \in Seq(Blocks) /\ stage' \in [Groups -> Seq(Blocks)]
        /\ GroupSound(g, free[g], u, st)
        /\ \A h \in Groups \ {g} : stage'[h] = stage[h]
        /\ ToSet(u) \cup ToSet(st) = ToSet(v) \cup ToSet(stage[g])
        /\ ToSet(v) \subseteq ToSet(u)
        /\ \A x, y : NextTo(v, x, y) => NextTo(u, x, y)
        /\ v # <<>> => u # <<>> /\ Head(u) = Head(v)
        /\ next # None => next \in ToSet(u) /\ next[1] = g
        /\ next # None => IF InGroup(b) THEN NextTo(u, b, next) ELSE Head(u) = next
    BY <1>0, BlockFound
  <1>2. /\ free \in [Groups -> Seq(Blocks)] /\ used \in [Groups -> Seq(Blocks)]
        /\ free[g] \in Seq(Blocks) /\ v \in Seq(Blocks) /\ st \in Seq(Blocks) /\ None \notin Blocks
    BY <1>1, Constants DEF TypeOK
  <1>3. CASE ~Recycles
    <2>1. used' = [used EXCEPT ![g] = u] /\ free' = free
      BY <1>3 DEF LeaveCurrent, GrownList, Behind
    <2> HIDE DEF u, v, st
    <2>2. used'[g] = u /\ \A h \in Groups \ {g} : used'[h] = used[h] BY <1>1, <1>2, <2>1
    <2>3. used' \in [Groups -> Seq(Blocks)] /\ free' \in [Groups -> Seq(Blocks)]
      BY <1>1, <1>2, <2>1
    <2>4. next # None => Follows(u, Stays, next)
      <3>1. CASE InGroup(b)
        <4>1. ~reader.marked /\ b # None BY <1>3, <3>1 DEF Recycles, InGroup
        <4>2. Stays = b BY <3>1, <4>1 DEF Stays
        <4> QED BY <1>1, <3>1, <4>1, <4>2 DEF Follows
      <3>2. CASE ~InGroup(b)
        <4>1. Stays = None BY <3>2 DEF Stays
        <4> QED BY <1>1, <3>2, <4>1 DEF Follows
      <3> QED BY <3>1, <3>2
    <2>5. GroupSound(g, free'[g], used'[g], st) BY <1>1, <2>1, <2>2
    <2>6. ToSet(used'[g]) \cup ToSet(st) = ToSet(v) \cup ToSet(stage[g]) BY <1>1, <2>2
    <2> QED BY <1>1, <1>3, <2>1, <2>2, <2>3, <2>4, <2>5, <2>6 DEF v, st
  <1>4. CASE Recycles
    <2>1. used' = [used EXCEPT ![g] = Unlink(u, Before, b)]
          /\ free' = [free EXCEPT ![g] = InFront(free[g], b)]
      BY <1>4, <1>1, <1>2 DEF LeaveCurrent, GrownList, Behind, InFront
    <2>2. /\ b \in Blocks /\ b[1] = g /\ b \in ToSet(v) /\ Follows(v, Before, b)
          /\ InGroup(b) /\ reader.marked
      BY <1>4, MarkedBlock DEF Recycles
    <2>3. b \in ToSet(u) /\ IsInjective(u) BY <1>1, <2>2 DEF GroupSound
    <2>4. Follows(u, Before, b)
      <3>1. v # <<>> BY <1>2, <2>2, Members
      <3> QED BY <1>1, <2>2, <3>1 DEF Follows
    <2> HIDE DEF u, v, st, b
    <2>5. PICK k \in 1..Len(u) : /\ u[k] = b /\ Unlink(u, Before, b) = Without(u, k)
                /\ \A x : NextTo(u, b, x) => Follows(Without(u, k), Before, x)
      BY <1>1, <1>2, <2>3, <2>4, Unlinked
    <2>6. PICK r : r = Without(u, k) OBVIOUS
    <2>7. r \in Seq(Blocks) /\ InFront(free[g], b) \in Seq(Blocks)
      BY <1>1, <1>2, <2>5, <2>6, PutBack
    <2>8. ToSet(r) = ToSet(u) \ {b} /\ b \notin ToSet(st)
      BY <1>1, <1>2, <2>5, <2>6, PutBack
    <2>9. GroupSound(g, InFront(free[g], b), r, st)
      BY <1>1, <1>2, <2>5, <2>6, PutBack
    <2>10. /\ used'[g] = r /\ free'[g] = InFront(free[g], b)
           /\ \A h \in Groups \ {g} : used'[h] = used[h] /\ free'[h] = free[h]
      BY <1>1, <1>2, <2>1, <2>5, <2>6
    <2>11. used' \in [Groups -> Seq(Blocks)] /\ free' \in [Groups -> Seq(Blocks)]
      BY <1>1, <1>2, <2>1, <2>5, <2>6, <2>7
    <2>12. ASSUME next # None PROVE next \in ToSet(r) /\ Follows(r, Stays, next)
      <3>1. NextTo(u, b, next) BY <1>1, <2>2, <2>12 DEF b
      <3>2. next # b BY <1>1, <2>3, <3>1, InOrder
      <3>3. Stays = Before BY <2>2 DEF Stays, b
      <3>4. Follows(r, Before, next) BY <2>5, <2>6, <3>1
      <3> QED BY <1>1, <2>8, <2>12, <3>2, <3>3, <3>4
    <2>13. ToSet(r) \cup ToSet(st) = (ToSet(v) \cup ToSet(stage[g])) \ {b} BY <1>1, <2>8
    <2>14. ToSet(v) \ {b} \subseteq ToSet(r) BY <1>1, <2>8
    <2> QED BY <1>1, <1>4, <2>9, <2>10, <2>11, <2>12, <2>13, <2>14 DEF v, st, b
  <1> QED BY <1>3, <1>4

\* One group's lists change: it is enough to look at that group.
LEMMA ListsChanged ==
  ASSUME TypeOK, ListsSound, NEW g \in Groups, groups' \in Seq(Groups),
         free' \in [Groups -> Seq(Blocks)], used' \in [Groups -> Seq(Blocks)],
         stage' \in [Groups -> Seq(Blocks)],
         \A h \in Groups \ {g} :
            free'[h] = free[h] /\ used'[h] = used[h] /\ stage'[h] = stage[h],
         GroupSound(g, free'[g], used'[g], stage'[g]),
         ToSet(groups') = ToSet(groups) \cup {g}
  PROVE  /\ ListsSound'
         /\ InUse' = (InUse \ (ToSet(used[g]) \cup ToSet(stage[g])))
                        \cup (ToSet(used'[g]) \cup ToSet(stage'[g]))
  <1>1. Live \subseteq Groups /\ Live' = Live \cup {g}
    BY Members DEF TypeOK, Live
  <1>2. ListsSound'
    <2>1. \A h \in Groups : GroupSound(h, free'[h], used'[h], stage'[h])
      BY DEF ListsSound
    <2>2. \A h \in Groups \ Live' : used'[h] = <<>> /\ stage'[h] = <<>>
      BY <1>1 DEF ListsSound
    <2> QED BY <2>1, <2>2 DEF ListsSound
  <1>3. \A h \in Groups : h \notin Live => ToSet(used[h]) = {} /\ ToSet(stage[h]) = {}
    <2>1. \A h \in Groups : h \notin Live => used[h] = <<>> /\ stage[h] = <<>>
      BY DEF ListsSound
    <2>2. ToSet(<<>>) = {}
      <3>1. <<>> \in Seq(Blocks) OBVIOUS
      <3> QED BY <3>1, Members
    <2> QED BY <2>1, <2>2
  <1>4. \A h \in Groups : \A b \in ToSet(used[h]) \cup ToSet(stage[h]) : b[1] = h
    BY DEF ListsSound, GroupSound
  <1>5. InUse = UNION {ToSet(used[h]) \cup ToSet(stage[h]) : h \in Live} BY DEF InUse
  <1>6. InUse' = UNION {ToSet(used'[h]) \cup ToSet(stage'[h]) : h \in Live'} BY DEF InUse
  <1>7. ASSUME NEW b \in InUse'
        PROVE  b \in (InUse \ (ToSet(used[g]) \cup ToSet(stage[g])))
                        \cup (ToSet(used'[g]) \cup ToSet(stage'[g]))
    <2>1. PICK h \in Live' : b \in ToSet(used'[h]) \cup ToSet(stage'[h]) BY <1>6
    <2>2. CASE h = g BY <2>1, <2>2
    <2>3. CASE h # g
      <3>1. h \in Live /\ b \in ToSet(used[h]) \cup ToSet(stage[h]) BY <1>1, <2>1, <2>3
      <3>2. b \in InUse BY <1>5, <3>1
      <3>3. b[1] = h BY <1>1, <1>4, <3>1
      <3>4. b \notin ToSet(used[g]) \cup ToSet(stage[g]) BY <1>4, <2>3, <3>3
      <3> QED BY <3>2, <3>4
    <2> QED BY <2>2, <2>3
  <1>8. ASSUME NEW b, b \in (InUse \ (ToSet(used[g]) \cup ToSet(stage[g])))
                        \cup (ToSet(used'[g]) \cup ToSet(stage'[g]))
        PROVE  b \in InUse'
    <2>1. CASE b \in ToSet(used'[g]) \cup ToSet(stage'[g]) BY <1>1, <1>6, <2>1
    <2>2. CASE b \notin ToSet(used'[g]) \cup ToSet(stage'[g])
      <3>1. PICK h \in Live : b \in ToSet(used[h]) \cup ToSet(stage[h]) BY <1>5, <1>8, <2>2
      <3>2. h # g BY <1>8, <2>2, <3>1
      <3> QED BY <1>1, <1>6, <3>1, <3>2
    <2> QED BY <2>1, <2>2
  <1>9. InUse' = (InUse \ (ToSet(used[g]) \cup ToSet(stage[g])))
                        \cup (ToSet(used'[g]) \cup ToSet(stage'[g]))
    BY <1>7, <1>8
  <1> QED BY <1>2, <1>9

LEMMA ListsLeft ==
  ASSUME TypeOK, ListsSound, ReaderOnItsWay, reader.state = "nextBlock", groups' = groups,
         NEW next \in Blocks \cup {None}, LeaveCurrent(next)
  PROVE  /\ ListsSound'
         /\ InUse' = IF Recycles THEN InUse \ {reader.curBlock} ELSE InUse
         /\ \A h \in Groups : ToSet(used[h]) \ (IF Recycles THEN {reader.curBlock} ELSE {})
                                \subseteq ToSet(used'[h])
  <1> DEFINE g == reader.curGroup
             gone == IF Recycles THEN {reader.curBlock} ELSE {}
  <1>1. /\ g \in Groups
        /\ free' \in [Groups -> Seq(Blocks)] /\ used' \in [Groups -> Seq(Blocks)]
        /\ stage' \in [Groups -> Seq(Blocks)]
        /\ \A h \in Groups \ {g} :
              free'[h] = free[h] /\ used'[h] = used[h] /\ stage'[h] = stage[h]
        /\ GroupSound(g, free'[g], used'[g], stage'[g])
        /\ ToSet(used'[g]) \cup ToSet(stage'[g]) = (ToSet(used[g]) \cup ToSet(stage[g])) \ gone
        /\ ToSet(used[g]) \ gone \subseteq ToSet(used'[g])
    BY BlockLeft
  <1>2. g \in Live BY <1>1, Constants DEF ReaderOnItsWay, WaySound, Live
  <1>3. groups' \in Seq(Groups) /\ ToSet(groups') = ToSet(groups) \cup {g}
    BY <1>2 DEF TypeOK, Live
  <1>4. gone \subseteq ToSet(used[g])
    BY MarkedBlock
  <1>5. ToSet(used[g]) \cup ToSet(stage[g]) \subseteq InUse BY <1>1, UseIs
  <1> HIDE DEF g, gone
  <1>6. ListsSound' BY <1>1, <1>3, ListsChanged
  <1>7. InUse' = (InUse \ (ToSet(used[g]) \cup ToSet(stage[g])))
                        \cup (ToSet(used'[g]) \cup ToSet(stage'[g]))
    BY <1>1, <1>3, ListsChanged
  <1>8. InUse' = InUse \ gone BY <1>1, <1>4, <1>5, <1>7
  <1>9. \A h \in Groups : ToSet(used[h]) \ gone \subseteq ToSet(used'[h])
    BY <1>1
  <1> QED BY <1>6, <1>8, <1>9 DEF gone

-----------------------------------------------------------------------------
(***************************************************************************)
(* The record of what the reader remembers.                                *)
(***************************************************************************)

ReaderType ==
    [state : {"lp", "nextGroup", "nextBlock", "hp", "completed"},
     curGroup : Groups \cup {None}, lastGroup : Groups \cup {None},
     curBlock : Blocks \cup {None}, lastBlock : Blocks \cup {None},
     endWorking : BOOLEAN, endBlock : Blocks \cup {None},
     marked : BOOLEAN, using : Int, holes : Int, batch : Nat, size : Nat]

\* e is at the same place as r, and has the same batch in hand.
SameBatch(r, e) == e.batch = r.batch /\ e.size = r.size
SamePlace(r, e) ==
    /\ e.curGroup = r.curGroup /\ e.lastGroup = r.lastGroup
    /\ e.curBlock = r.curBlock /\ e.lastBlock = r.lastBlock
    /\ e.marked = r.marked

LEMMA RefreshedIs ==
  ASSUME NEW r \in ReaderType
  PROVE  /\ Refreshed(r) \in ReaderType /\ SamePlace(r, Refreshed(r))
         /\ SameBatch(r, Refreshed(r)) /\ Refreshed(r).state = r.state
  <1>1. CASE r.marked /\ r.curBlock # None
    <2>1. Refreshed(r) = [r EXCEPT !.endWorking = FALSE] BY <1>1 DEF Refreshed
    <2> QED BY <2>1 DEF ReaderType, SamePlace, SameBatch
  <1>2. CASE ~(r.marked /\ r.curBlock # None)
    <2>1. Refreshed(r) = [r EXCEPT !.endWorking = TRUE, !.endBlock = r.curBlock]
      BY <1>2 DEF Refreshed
    <2> QED BY <2>1 DEF ReaderType, SamePlace, SameBatch
  <1> QED BY <1>1, <1>2

LEMMA LeftIs ==
  ASSUME reader \in ReaderType
  PROVE  /\ Left \in ReaderType /\ SameBatch(reader, Left) /\ Left.state = reader.state
         /\ Left.curGroup = reader.curGroup /\ Left.lastGroup = reader.lastGroup
         /\ Left.curBlock = reader.curBlock /\ Left.marked = reader.marked
         /\ Left.lastBlock = IF \/ reader.curBlock = None
                                \/ InGroup(reader.curBlock) /\ ~reader.marked
                             THEN reader.curBlock ELSE reader.lastBlock
  <1> DEFINE r == IF Recycles THEN Refreshed(reader) ELSE reader
             u == IF InGroup(reader.curBlock) /\ ~reader.marked THEN r.using + 1 ELSE r.using
             l == IF \/ reader.curBlock = None
                     \/ InGroup(reader.curBlock) /\ ~reader.marked
                  THEN reader.curBlock ELSE r.lastBlock
  <1>1. r \in ReaderType /\ SamePlace(reader, r) /\ SameBatch(reader, r) /\ r.state = reader.state
    BY RefreshedIs DEF SamePlace, SameBatch
  <1>2. Left = [r EXCEPT !.using = u, !.lastBlock = l] BY DEF Left
  <1> HIDE DEF r
  <1>3. u \in Int /\ l \in Blocks \cup {None} BY <1>1 DEF ReaderType
  <1>4. l = IF \/ reader.curBlock = None
               \/ InGroup(reader.curBlock) /\ ~reader.marked
            THEN reader.curBlock ELSE reader.lastBlock
    BY <1>1 DEF SamePlace
  <1> HIDE DEF u, l
  <1>5. Left \in ReaderType /\ SameBatch(r, Left) /\ Left.state = r.state
        /\ Left.curGroup = r.curGroup /\ Left.lastGroup = r.lastGroup
        /\ Left.curBlock = r.curBlock /\ Left.marked = r.marked /\ Left.lastBlock = l
    BY <1>1, <1>2, <1>3 DEF ReaderType, SameBatch
  <1> QED BY <1>1, <1>4, <1>5 DEF SamePlace, SameBatch

LEMMA EnteredIs ==
  ASSUME NEW r \in ReaderType, NEW b \in Blocks, context[b].removed \in BOOLEAN
  PROVE  LET e == Entered(r, b)
         IN  /\ e \in ReaderType /\ SameBatch(r, e)
             /\ e.curGroup = r.curGroup /\ e.lastGroup = r.lastGroup
             /\ e.lastBlock = r.lastBlock /\ e.curBlock = b
             /\ e.marked = MarkedNow(context[b])
             /\ e.state = r.state \/ e.state \in {"completed", "hp"}
             /\ context[b].seq # readSeq'[context[b].t] => e.state = r.state
             /\ context[b].seq = readSeq'[context[b].t] => e.state \in {"completed", "hp"}
  <1> DEFINE h == IF r.holes > 0 THEN r.holes - 1 ELSE r.holes
             m == MarkedNow(context[b])
             e == [r EXCEPT !.curBlock = b, !.marked = m, !.holes = h]
             valid == context[b].seq = readSeq'[context[b].t]
  <1>1. h \in Int BY DEF ReaderType
  <1>2. m \in BOOLEAN BY DEF MarkedNow
  <1>3. Entered(r, b) =
          IF ~valid THEN [e EXCEPT !.endWorking = FALSE]
          ELSE IF e.endWorking /\ e.endBlock = b THEN [e EXCEPT !.state = "completed"]
          ELSE IF ~e.endWorking /\ ~e.marked
          THEN [e EXCEPT !.endWorking = TRUE, !.endBlock = b, !.state = "hp"]
          ELSE [e EXCEPT !.state = "hp"]
    BY DEF Entered
  <1> HIDE DEF h, m
  <1>4. /\ e \in ReaderType /\ SameBatch(r, e)
        /\ e.curGroup = r.curGroup /\ e.lastGroup = r.lastGroup
        /\ e.lastBlock = r.lastBlock /\ e.curBlock = b /\ e.marked = m /\ e.state = r.state
    BY <1>1, <1>2 DEF ReaderType, SameBatch
  <1> HIDE DEF e, valid
  <1>5. CASE ~valid
    <2>1. Entered(r, b) = [e EXCEPT !.endWorking = FALSE] BY <1>3, <1>5
    <2> QED BY <1>4, <1>5, <2>1 DEF ReaderType, SameBatch, valid, m
  <1>6. CASE valid /\ e.endWorking /\ e.endBlock = b
    <2>1. Entered(r, b) = [e EXCEPT !.state = "completed"] BY <1>3, <1>6
    <2> QED BY <1>4, <1>6, <2>1 DEF ReaderType, SameBatch, valid, m
  <1>7. CASE valid /\ ~(e.endWorking /\ e.endBlock = b) /\ ~e.endWorking /\ ~e.marked
    <2>1. Entered(r, b) = [e EXCEPT !.endWorking = TRUE, !.endBlock = b, !.state = "hp"]
      BY <1>3, <1>7
    <2> QED BY <1>4, <1>7, <2>1 DEF ReaderType, SameBatch, valid, m
  <1>8. CASE valid /\ ~(e.endWorking /\ e.endBlock = b) /\ ~(~e.endWorking /\ ~e.marked)
    <2>1. Entered(r, b) = [e EXCEPT !.state = "hp"] BY <1>3, <1>8
    <2> QED BY <1>4, <1>8, <2>1 DEF ReaderType, SameBatch, valid, m
  <1> QED BY <1>5, <1>6, <1>7, <1>8

-----------------------------------------------------------------------------
(***************************************************************************)
(* The lists and the reader's way through them are kept.                   *)
(***************************************************************************)

\* Where the blocks are that the reader remembers.
LEMMA WayIs ==
  ASSUME TypeOK, ListsSound, ReaderOnItsWay
  PROVE  /\ reader \in ReaderType
         /\ reader.curGroup # None => reader.curGroup \in Groups /\ reader.curGroup \in Live
         /\ reader.lastBlock # None =>
               /\ NotBehind(groups, reader.lastBlock[1], reader.curGroup)
               /\ NotBehind(groups, reader.lastBlock[1], reader.lastBlock[1])
               /\ reader.lastBlock[1] \in Groups
         /\ reader.state = "nextBlock" /\ Recycles => reader.lastBlock # reader.curBlock
         /\ reader.curBlock # None /\ ~InGroup(reader.curBlock) => ~InGroup(reader.lastBlock)
  <1>1. reader \in ReaderType BY DEF TypeOK, ReaderType
  <1>2. reader.curGroup # None => reader.curGroup \in Groups /\ reader.curGroup \in Live
    BY WayTypes DEF ReaderOnItsWay, WaySound, Live
  <1>3. groups \in Seq(Groups) /\ IsInjective(groups) BY DEF TypeOK
  <1>4. ASSUME reader.lastBlock # None
        PROVE  /\ NotBehind(groups, reader.lastBlock[1], reader.curGroup)
               /\ NotBehind(groups, reader.lastBlock[1], reader.lastBlock[1])
               /\ NotBehind(groups, reader.lastBlock[1], reader.curBlock[1])
               /\ NotBehind(groups, reader.curBlock[1], reader.curGroup)
    <2>1. /\ NotBehind(groups, reader.lastBlock[1], reader.curBlock[1])
          /\ NotBehind(groups, reader.curBlock[1], reader.curGroup)
      BY <1>4 DEF ReaderOnItsWay, WaySound
    <2>2. NotBehind(groups, reader.lastBlock[1], reader.curGroup) BY <1>3, <2>1, InOrder
    <2>3. reader.lastBlock[1] \in ToSet(groups) BY <1>3, <2>1, InOrder
    <2>4. NotBehind(groups, reader.lastBlock[1], reader.lastBlock[1]) BY <1>3, <2>3, InOrder
    <2> QED BY <2>1, <2>2, <2>4
  <1>5. reader.lastBlock # None => reader.lastBlock[1] \in Groups BY WayTypes, Constants
  <1>6. ASSUME reader.state = "nextBlock", Recycles PROVE reader.lastBlock # reader.curBlock
    <2>1. /\ reader.curBlock[1] = reader.curGroup /\ reader.curBlock # None
          /\ Follows(used[reader.curGroup], Before, reader.curBlock)
      BY <1>6, MarkedBlock, Constants
    <2>2. CASE InGroup(reader.lastBlock)
      <3>1. NextTo(used[reader.curGroup], reader.lastBlock, reader.curBlock)
        BY <2>1, <2>2 DEF Before, Follows, InGroup
      <3>2. used[reader.curGroup] \in Seq(Blocks) /\ IsInjective(used[reader.curGroup])
        <4>1. reader.curGroup # None BY <1>6 DEF ReaderOnItsWay, StateSound
        <4> QED BY <4>1, <1>2, WayTypes DEF GroupSound
      <3> QED BY <3>1, <3>2, InOrder
    <2>3. CASE ~InGroup(reader.lastBlock)
      BY <2>1, <2>3 DEF InGroup
    <2> QED BY <2>2, <2>3
  <1>7. ASSUME reader.curBlock # None, ~InGroup(reader.curBlock)
        PROVE  ~InGroup(reader.lastBlock)
    <2>1. SUFFICES ASSUME InGroup(reader.lastBlock) PROVE FALSE OBVIOUS
    <2>2. reader.lastBlock # None /\ reader.lastBlock[1] = reader.curGroup
      BY <2>1 DEF InGroup
    <2>3. reader.curBlock[1] = reader.curGroup BY <1>3, <1>4, <2>2, InOrder
    <2> QED BY <1>7, <2>3 DEF InGroup
  <1> QED BY <1>1, <1>2, <1>4, <1>5, <1>6, <1>7

LEMMA EnterOnItsWay ==
  ASSUME TypeOK, ListsSound, ReaderOnItsWay, EnterBlock
  PROVE  ListsSound' /\ ReaderOnItsWay'
  <1>0. PICK next \in Blocks : /\ LeaveCurrent(next) /\ reader' = Entered(Left, next)
                               /\ reader.state = "nextBlock" /\ groups' = groups
    BY DEF EnterBlock
  <1> DEFINE g == reader.curGroup
             b == reader.curBlock
             gone == IF Recycles THEN {b} ELSE {}
             x == reader'.lastBlock
  <1>1. next # None BY Constants
  <1>2. ListsSound' /\ \A h \in Groups : ToSet(used[h]) \ gone \subseteq ToSet(used'[h])
    BY <1>0, ListsLeft
  <1>3. g \in Groups /\ next \in ToSet(used'[g]) /\ next[1] = g /\ Follows(used'[g], Stays, next)
    BY <1>0, <1>1, BlockLeft
  <1>4. /\ reader'.curGroup = g /\ reader'.lastGroup = reader.lastGroup
        /\ reader'.curBlock = next
        /\ reader'.state \in {"nextBlock", "hp", "completed"}
        /\ x = IF \/ b = None
                  \/ InGroup(b) /\ ~reader.marked
               THEN b ELSE reader.lastBlock
    <2>1. reader \in ReaderType BY DEF TypeOK, ReaderType
    <2>2. context[next].removed \in BOOLEAN BY DEF TypeOK
    <2>3. PICK l : l = Left OBVIOUS
    <2>4. /\ l \in ReaderType /\ l.curGroup = g /\ l.lastGroup = reader.lastGroup
          /\ l.state = "nextBlock"
          /\ l.lastBlock = IF \/ b = None
                              \/ InGroup(b) /\ ~reader.marked
                           THEN b ELSE reader.lastBlock
      BY <1>0, <2>1, <2>3, LeftIs
    <2>5. reader' = Entered(l, next) BY <1>0, <2>3
    <2>6. /\ reader'.curGroup = l.curGroup /\ reader'.lastGroup = l.lastGroup
          /\ reader'.lastBlock = l.lastBlock /\ reader'.curBlock = next
          /\ reader'.state \in {"nextBlock", "hp", "completed"}
      BY <2>2, <2>4, <2>5, EnteredIs
    <2> QED BY <2>4, <2>6
  <1>5. g \in ToSet(groups) /\ groups \in Seq(Groups) /\ IsInjective(groups)
    BY <1>3, Constants DEF ReaderOnItsWay, WaySound, TypeOK
  <1>6. NotBehind(groups, g, g) BY <1>5, InOrder
  <1>7. x # None => /\ x \in ToSet(used'[x[1]]) /\ NotBehind(groups, x[1], g)
    <2>1. CASE b = None BY <1>4, <2>1
    <2>2. CASE InGroup(b) /\ ~reader.marked
      <3>1. x = b /\ b[1] = g /\ b # None BY <1>4, <2>2 DEF InGroup
      <3>2. b \in ToSet(used[g]) /\ gone = {}
        BY <2>2, <3>1 DEF ReaderOnItsWay, WaySound, Recycles
      <3> QED BY <1>2, <1>3, <1>6, <3>1, <3>2
    <2>3. CASE b # None /\ ~(InGroup(b) /\ ~reader.marked)
      <3>1. x = reader.lastBlock BY <1>4, <2>3
      <3>2. HAVE x # None
      <3>3. NotBehind(groups, x[1], g) /\ x[1] \in Groups BY <3>1, <3>2, WayIs
      <3>4. x \in ToSet(used[x[1]]) BY <3>1, <3>2 DEF ReaderOnItsWay, WaySound
      <3>5. x \notin gone BY <1>0, <3>1, WayIs
      <3> HIDE DEF x, gone
      <3> QED BY <1>2, <3>3, <3>4, <3>5
    <2> QED BY <2>1, <2>2, <2>3
  <1>8. WaySound(groups', used', reader')
    <2>1. reader'.curGroup # None => reader'.curGroup \in ToSet(groups') BY <1>0, <1>4, <1>5
    <2>2. reader'.curGroup # None /\ reader'.lastGroup # None
            => NextTo(groups', reader'.lastGroup, reader'.curGroup)
      BY <1>0, <1>4 DEF ReaderOnItsWay, WaySound
    <2>3. /\ reader'.curGroup # None /\ reader'.curBlock \in ToSet(used'[reader'.curBlock[1]])
          /\ NotBehind(groups', reader'.curBlock[1], reader'.curGroup)
      BY <1>0, <1>3, <1>4, <1>6, Constants
    <2>4. x # None => /\ reader'.curBlock # None /\ x \in ToSet(used'[x[1]])
                      /\ NotBehind(groups', x[1], reader'.curBlock[1])
      BY <1>0, <1>1, <1>3, <1>4, <1>7
    <2> QED BY <2>1, <2>2, <2>3, <2>4 DEF WaySound
  <1>9. Stays = IF In(reader', x) THEN x ELSE None
    <2>1. In(reader', x) <=> InGroup(x) BY <1>4 DEF In, InGroup
    <2>2. CASE b = None
      <3>1. x = None /\ ~InGroup(b) BY <1>4, <2>2 DEF InGroup
      <3> QED BY <2>1, <3>1 DEF Stays, InGroup
    <2>3. CASE InGroup(b) /\ ~reader.marked
      <3>1. x = b BY <1>4, <2>3
      <3> QED BY <2>1, <2>3, <3>1 DEF Stays
    <2>4. CASE b # None /\ ~InGroup(b)
      <3>1. x = reader.lastBlock BY <1>4, <2>4
      <3>2. ~InGroup(reader.lastBlock) BY <2>4, WayIs
      <3> QED BY <2>1, <2>4, <3>1, <3>2 DEF Stays
    <2>5. CASE b # None /\ InGroup(b) /\ reader.marked
      <3>1. x = reader.lastBlock BY <1>4, <2>5
      <3> QED BY <2>1, <2>5, <3>1 DEF Stays, Before
    <2> QED BY <2>2, <2>3, <2>4, <2>5
  <1>10. StateSound(used', reader')
    <2>1. In(reader', next) BY <1>1, <1>3, <1>4 DEF In
    <2>2. IF In(reader', x) THEN NextTo(used'[g], x, next) ELSE Head(used'[g]) = next
      BY <1>3, <1>9 DEF Follows, In
    <2>3. g # None BY <1>3, Constants
    <2> HIDE DEF x
    <2> QED BY <1>4, <2>1, <2>2, <2>3 DEF StateSound, x
  <1> QED BY <1>2, <1>8, <1>10 DEF ReaderOnItsWay

LEMMA GroupLeftOnItsWay ==
  ASSUME TypeOK, ListsSound, ReaderOnItsWay, LeaveGroup
  PROVE  ListsSound' /\ ReaderOnItsWay'
  <1>0. /\ LeaveCurrent(None) /\ reader.state = "nextBlock" /\ groups' = groups
        /\ reader' = [Left EXCEPT !.curBlock = IF Recycles THEN Left.lastBlock ELSE @,
                              !.marked = FALSE, !.state = "nextGroup"]
    BY DEF LeaveGroup
  <1> DEFINE g == reader.curGroup
             b == reader.curBlock
             gone == IF Recycles THEN {b} ELSE {}
             x == reader'.lastBlock
             y == reader'.curBlock
  <1>2. ListsSound' /\ \A h \in Groups : ToSet(used[h]) \ gone \subseteq ToSet(used'[h])
    BY <1>0, ListsLeft
  <1>3. g # None /\ g \in Groups /\ groups \in Seq(Groups) /\ IsInjective(groups)
    <2>1. g # None BY <1>0 DEF ReaderOnItsWay, StateSound
    <2> QED BY <2>1, WayIs DEF TypeOK
  <1>4. /\ reader'.curGroup = g /\ reader'.lastGroup = reader.lastGroup
        /\ reader'.state = "nextGroup" /\ reader'.marked = FALSE
        /\ y = IF Recycles THEN x ELSE b
        /\ x = IF \/ b = None
                  \/ InGroup(b) /\ ~reader.marked
               THEN b ELSE reader.lastBlock
    <2>1. reader \in ReaderType BY DEF TypeOK, ReaderType
    <2>3. PICK l : l = Left OBVIOUS
    <2>4. /\ l \in ReaderType /\ l.curGroup = g /\ l.lastGroup = reader.lastGroup
          /\ l.curBlock = b
          /\ l.lastBlock = IF \/ b = None
                              \/ InGroup(b) /\ ~reader.marked
                           THEN b ELSE reader.lastBlock
      BY <1>0, <2>1, <2>3, LeftIs
    <2>5. reader' = [l EXCEPT !.curBlock = IF Recycles THEN l.lastBlock ELSE l.curBlock,
                              !.marked = FALSE, !.state = "nextGroup"]
      BY <1>0, <2>3
    <2>6. PICK d : d = IF Recycles THEN l.lastBlock ELSE l.curBlock OBVIOUS
    <2>7. reader' = [l EXCEPT !.curBlock = d, !.marked = FALSE, !.state = "nextGroup"]
      BY <2>5, <2>6
    <2>8. /\ reader'.curGroup = l.curGroup /\ reader'.lastGroup = l.lastGroup
          /\ reader'.lastBlock = l.lastBlock /\ reader'.curBlock = d
          /\ reader'.state = "nextGroup" /\ reader'.marked = FALSE
      BY <2>4, <2>7 DEF ReaderType
    <2> QED BY <2>4, <2>6, <2>8
  <1>5. ASSUME reader.lastBlock # None
        PROVE  /\ reader.lastBlock \in ToSet(used'[reader.lastBlock[1]])
               /\ NotBehind(groups, reader.lastBlock[1], g)
               /\ NotBehind(groups, reader.lastBlock[1], reader.lastBlock[1])
    <2>1. /\ NotBehind(groups, reader.lastBlock[1], g)
          /\ NotBehind(groups, reader.lastBlock[1], reader.lastBlock[1])
          /\ reader.lastBlock[1] \in Groups
      BY <1>5, WayIs
    <2>2. reader.lastBlock \in ToSet(used[reader.lastBlock[1]])
      BY <1>5 DEF ReaderOnItsWay, WaySound
    <2>3. reader.lastBlock \notin gone BY <1>0, WayIs
    <2> HIDE DEF gone
    <2> QED BY <1>2, <2>1, <2>2, <2>3
  <1>6. ASSUME b # None, ~Recycles
        PROVE  /\ b \in ToSet(used'[b[1]]) /\ NotBehind(groups, b[1], g)
               /\ NotBehind(groups, b[1], b[1])
    <2>1. b \in ToSet(used[b[1]]) /\ NotBehind(groups, b[1], g)
      BY <1>6 DEF ReaderOnItsWay, WaySound
    <2>2. b[1] \in Groups BY <1>6, WayTypes
    <2>3. b[1] \in ToSet(groups) BY <1>3, <2>1, InOrder
    <2>4. NotBehind(groups, b[1], b[1]) BY <1>3, <2>3, InOrder
    <2>5. gone = {} BY <1>6
    <2> HIDE DEF gone, b
    <2> QED BY <1>2, <2>1, <2>2, <2>4, <2>5
  <1>7. WaySound(groups', used', reader')
    <2>1. reader'.curGroup # None => reader'.curGroup \in ToSet(groups')
      BY <1>0, <1>4 DEF ReaderOnItsWay, WaySound
    <2>2. reader'.curGroup # None /\ reader'.lastGroup # None
            => NextTo(groups', reader'.lastGroup, reader'.curGroup)
      BY <1>0, <1>4 DEF ReaderOnItsWay, WaySound
    <2>3. Recycles => b # None /\ InGroup(b) /\ reader.marked BY DEF Recycles, InGroup
    <2>4. y # None => y \in ToSet(used'[y[1]]) /\ NotBehind(groups', y[1], g)
      <3>1. CASE Recycles
        <4>1. y = reader.lastBlock BY <1>4, <2>3, <3>1
        <4> QED BY <1>0, <1>5, <4>1
      <3>2. CASE ~Recycles
        <4>1. y = b BY <1>4, <3>2
        <4> QED BY <1>0, <1>6, <3>2, <4>1
      <3> QED BY <3>1, <3>2
    <2>5. x # None => /\ y # None /\ x \in ToSet(used'[x[1]])
                      /\ NotBehind(groups', x[1], y[1])
      <3>0. HAVE x # None
      <3>1. CASE Recycles
        <4>1. x = reader.lastBlock /\ y = reader.lastBlock BY <1>4, <2>3, <3>1
        <4> QED BY <1>0, <1>5, <3>0, <4>1
      <3>2. CASE ~Recycles /\ InGroup(b) /\ ~reader.marked
        <4>1. x = b /\ y = b BY <1>4, <3>2
        <4> QED BY <1>0, <1>6, <3>0, <3>2, <4>1
      <3>3. CASE ~Recycles /\ ~(InGroup(b) /\ ~reader.marked)
        <4>1. b # None /\ x = reader.lastBlock /\ y = b BY <1>4, <3>0, <3>3
        <4>2. NotBehind(groups, x[1], b[1])
          BY <3>0, <4>1 DEF ReaderOnItsWay, WaySound
        <4> QED BY <1>0, <1>5, <3>0, <4>1, <4>2
      <3> QED BY <3>1, <3>2, <3>3
    <2> HIDE DEF x, y
    <2>6. /\ y # None => /\ reader'.curGroup # None /\ y \in ToSet(used'[y[1]])
                         /\ NotBehind(groups', y[1], reader'.curGroup)
      BY <1>3, <1>4, <2>4
    <2> QED BY <2>1, <2>2, <2>5, <2>6 DEF WaySound, x, y
  <1>8. StateSound(used', reader') BY <1>4 DEF StateSound
  <1> QED BY <1>2, <1>7, <1>8 DEF ReaderOnItsWay

\* The next group is the one behind the group the reader is in.
LEMMA GroupFound ==
  ASSUME TypeOK, ListsSound, ReaderOnItsWay, NEW next, next = NextOf(reader.curGroup),
         next # None
  PROVE  /\ next \in ToSet(groups) /\ next \in Groups
         /\ reader.curGroup # None => NextTo(groups, reader.curGroup, next)
  <1>1. groups \in Seq(Groups) /\ None \notin Groups BY Constants DEF TypeOK
  <1>2. CASE reader.curGroup = None
    <2>1. next = FirstOf(groups) BY <1>2 DEF NextOf, FirstOf
    <2>2. groups # <<>> /\ next = Head(groups) BY <1>1, <2>1, FirstIs
    <2>3. Head(groups) = groups[1] /\ 1 \in 1..Len(groups) BY <1>1, <2>2
    <2> QED BY <1>1, <1>2, <2>2, <2>3, Members
  <1>3. CASE reader.curGroup # None
    <2>1. next = Behinds(groups, reader.curGroup) BY <1>3 DEF NextOf, Behinds
    <2>2. reader.curGroup \in ToSet(groups) BY <1>3 DEF ReaderOnItsWay, WaySound
    <2>3. NextTo(groups, reader.curGroup, next) /\ next \in ToSet(groups)
      BY <1>1, <2>1, <2>2, BehindIs
    <2>4. next \in Groups BY <1>1, <2>3, Members
    <2> QED BY <2>3, <2>4
  <1> QED BY <1>2, <1>3

\* A group that is deleted is empty, and none of what the reader remembers is in
\* it.
LEMMA GroupDeleted ==
  ASSUME TypeOK, ListsSound, ReaderOnItsWay, Deletes
  PROVE  LET g == reader.curGroup
             gs == RemoveAt(groups, PlaceOf(groups, g))
         IN  /\ g \in Groups /\ used[g] = <<>> /\ stage[g] = <<>>
             /\ gs \in Seq(Groups) /\ IsInjective(gs) /\ ToSet(gs) = ToSet(groups) \ {g}
             /\ \A x, y : x # g /\ y # g /\ NotBehind(groups, x, y) => NotBehind(gs, x, y)
             /\ \A x, y : NextTo(groups, x, g) /\ NextTo(groups, g, y) => NextTo(gs, x, y)
             /\ reader.curBlock # None => reader.curBlock[1] # g
             /\ reader.lastBlock # None => reader.lastBlock[1] # g
  <1> DEFINE g == reader.curGroup
  <1>1. g \in Groups /\ used[g] = <<>> /\ stage[g] = <<>> /\ g \in ToSet(groups)
    BY WayIs DEF Deletes, ReaderOnItsWay, WaySound
  <1>2. groups \in Seq(Groups) /\ IsInjective(groups) BY DEF TypeOK
  <1>3. PICK k \in 1..Len(groups) : groups[k] = g BY <1>1, <1>2, Members
  <1>4. PlaceOf(groups, g) = k BY <1>2, <1>3, PlaceIs
  <1>5. PICK gs : gs = Without(groups, k) OBVIOUS
  <1>6. RemoveAt(groups, PlaceOf(groups, g)) = gs BY <1>4, <1>5 DEF RemoveAt, Without
  <1>7. Len(groups) \in Nat /\ DOMAIN groups = 1..Len(groups) BY <1>2, Members
  <1> HIDE DEF g
  <1>8. gs \in Seq(Groups) /\ IsInjective(gs) BY <1>2, <1>5, TakenOut
  <1>9. ToSet(gs) = ToSet(groups) \ {g} BY <1>2, <1>3, <1>5, TakenOut
  <1>10. ASSUME NEW x, NEW y, x # g, y # g, NotBehind(groups, x, y)
         PROVE  NotBehind(gs, x, y)
    <2>1. x # groups[k] /\ y # groups[k] BY <1>3, <1>10
    <2> QED BY <1>2, <1>5, <1>10, <2>1, TakenOut
  <1>11. ASSUME NEW x, NEW y, NextTo(groups, x, g), NextTo(groups, g, y)
         PROVE  NextTo(gs, x, y)
    <2>1. PICK i \in 1..(Len(groups) - 1) : groups[i] = x /\ groups[i + 1] = g
      BY <1>11 DEF NextTo
    <2>2. PICK j \in 1..(Len(groups) - 1) : groups[j] = g /\ groups[j + 1] = y
      BY <1>11 DEF NextTo
    <2>3. i + 1 \in 1..Len(groups) /\ j \in 1..Len(groups) BY <1>7
    <2>4. i + 1 = k /\ j = k BY <1>2, <1>3, <1>7, <2>1, <2>2, <2>3 DEF IsInjective
    <2>5. k > 1 /\ k < Len(groups) /\ i = k - 1 BY <1>7, <2>3, <2>4
    <2>6. NextTo(gs, groups[k - 1], groups[k + 1]) BY <1>2, <1>5, <2>5, TakenOut
    <2> QED BY <2>1, <2>2, <2>4, <2>5, <2>6
  <1>12. ToSet(<<>>) = {}
    <2>1. <<>> \in Seq(Blocks) OBVIOUS
    <2> QED BY <2>1, Members
  <1>13. /\ reader.curBlock # None => reader.curBlock[1] # g
         /\ reader.lastBlock # None => reader.lastBlock[1] # g
    BY <1>1, <1>12 DEF ReaderOnItsWay, WaySound
  <1> QED BY <1>1, <1>6, <1>8, <1>9, <1>10, <1>11, <1>13 DEF g

\* What the reader remembers once it has moved on.
LEMMA MovedOn ==
  ASSUME TypeOK, ListsSound, ReaderOnItsWay, NextGroup
  PROVE  LET next == NextOf(reader.curGroup)
         IN  /\ reader' \in ReaderType /\ SameBatch(reader, reader')
             /\ reader'.marked = reader.marked /\ reader'.curGroup = next
             /\ reader'.lastGroup = IF Deletes THEN reader.lastGroup ELSE reader.curGroup
             /\ reader'.state = "nextBlock" \/ reader'.state \in {"completed", "lp"}
             /\ reader'.state = "nextBlock" <=> next # None
             /\ next # None => /\ reader'.curBlock = reader.curBlock
                               /\ reader'.lastBlock = reader.lastBlock
             /\ next = None => reader'.curBlock = None /\ reader'.lastBlock = None
  <1> DEFINE next == NextOf(reader.curGroup)
             kept == reader.curGroup # None /\ ~Deletes
             h == IF next = None THEN 0
                  ELSE IF kept THEN reader.holes + BlocksPerGroup - reader.using ELSE reader.holes
             l == IF Deletes THEN reader.lastGroup ELSE reader.curGroup
             r == [reader EXCEPT !.holes = h, !.using = 0, !.lastGroup = l, !.curGroup = next]
             s == IF r.endWorking /\ r.endBlock = None THEN "completed" ELSE "lp"
             e == IF r.endWorking THEN r.endBlock ELSE None
  <1>1. reader' = IF next # None THEN [r EXCEPT !.state = "nextBlock"]
                  ELSE [r EXCEPT !.curBlock = None, !.lastBlock = None, !.state = s,
                                 !.endBlock = e, !.endWorking = TRUE]
    BY DEF NextGroup
  <1>2. reader \in ReaderType BY WayIs
  <1>3. h \in Int /\ l \in Groups \cup {None} BY <1>2, Constants DEF ReaderType
  <1>4. next \in Groups \cup {None} BY GroupFound
  <1> HIDE DEF h, l, next
  <1>5. /\ r \in ReaderType /\ SameBatch(reader, r) /\ r.marked = reader.marked
        /\ r.curGroup = next /\ r.lastGroup = l /\ r.curBlock = reader.curBlock
        /\ r.lastBlock = reader.lastBlock
    <2>1. PICK p : p = reader OBVIOUS
    <2>2. r = [p EXCEPT !.holes = h, !.using = 0, !.lastGroup = l, !.curGroup = next]
      BY <2>1
    <2>3. p \in ReaderType BY <1>2, <2>1
    <2> HIDE DEF r
    <2>4. r \in ReaderType
      <3>1. PICK q : q = [p EXCEPT !.holes = h, !.using = 0] OBVIOUS
      <3>2. q \in ReaderType
        <4>1. PICK z \in Int : z = 0 OBVIOUS
        <4>2. q = [p EXCEPT !.holes = h, !.using = z] BY <3>1, <4>1
        <4> QED BY <1>3, <2>3, <4>2 DEF ReaderType
      <3>3. r = [q EXCEPT !.lastGroup = l, !.curGroup = next]
        BY <2>2, <2>3, <3>1 DEF ReaderType
      <3> QED BY <1>3, <1>4, <3>2, <3>3 DEF ReaderType
    <2>5. /\ SameBatch(p, r) /\ r.marked = p.marked
          /\ r.curGroup = next /\ r.lastGroup = l /\ r.curBlock = p.curBlock
          /\ r.lastBlock = p.lastBlock
      BY <2>2, <2>3 DEF ReaderType, SameBatch
    <2> QED BY <2>1, <2>4, <2>5
  <1> HIDE DEF r
  <1>6. s \in {"completed", "lp"} /\ e \in Blocks \cup {None} BY <1>5 DEF ReaderType
  <1> HIDE DEF s, e
  <1>7. CASE next # None
    <2>1. reader' = [r EXCEPT !.state = "nextBlock"] BY <1>1, <1>7
    <2>2. /\ reader' \in ReaderType /\ SameBatch(r, reader') /\ reader'.marked = r.marked
          /\ reader'.curGroup = next /\ reader'.lastGroup = l /\ reader'.curBlock = r.curBlock
          /\ reader'.lastBlock = r.lastBlock /\ reader'.state = "nextBlock"
      BY <1>5, <2>1 DEF ReaderType, SameBatch
    <2> QED BY <1>5, <1>7, <2>2 DEF SameBatch, next, l
  <1>8. CASE next = None
    <2>1. reader' = [r EXCEPT !.curBlock = None, !.lastBlock = None, !.state = s,
                                 !.endBlock = e, !.endWorking = TRUE] BY <1>1, <1>8
    <2>2. /\ reader' \in ReaderType /\ SameBatch(r, reader') /\ reader'.marked = r.marked
          /\ reader'.curGroup = next /\ reader'.lastGroup = l /\ reader'.curBlock = None
          /\ reader'.lastBlock = None /\ reader'.state = s
      BY <1>5, <1>6, <2>1 DEF ReaderType, SameBatch
    <2>3. reader'.state # "nextBlock" BY <1>6, <2>2
    <2> QED BY <1>5, <1>6, <1>8, <2>2, <2>3 DEF SameBatch, next, l
  <1> QED BY <1>7, <1>8

LEMMA NextGroupOnItsWay ==
  ASSUME TypeOK, ListsSound, ReaderOnItsWay, NextGroup
  PROVE  ListsSound' /\ ReaderOnItsWay' /\ InUse' = InUse
  <1> DEFINE g == reader.curGroup
             next == NextOf(g)
  <1>1. /\ groups' = (IF Deletes THEN RemoveAt(groups, PlaceOf(groups, g)) ELSE groups)
        /\ free' = free /\ used' = used /\ stage' = stage /\ reader.state = "nextGroup"
    BY DEF NextGroup
  <1>2. reader.marked = FALSE
    <2>1. reader.marked \in BOOLEAN BY WayIs DEF ReaderType
    <2> QED BY <1>1, <2>1 DEF ReaderOnItsWay, StateSound
  <1>3. groups \in Seq(Groups) /\ IsInjective(groups) BY DEF TypeOK
  <1>4. Deletes => /\ g \in Groups /\ used[g] = <<>> /\ stage[g] = <<>>
                   /\ groups' \in Seq(Groups) /\ IsInjective(groups')
                   /\ ToSet(groups') = ToSet(groups) \ {g}
                   /\ \A x, y : x # g /\ y # g /\ NotBehind(groups, x, y) => NotBehind(groups', x, y)
                   /\ \A x, y : NextTo(groups, x, g) /\ NextTo(groups, g, y) => NextTo(groups', x, y)
                   /\ reader.curBlock # None => reader.curBlock[1] # g
                   /\ reader.lastBlock # None => reader.lastBlock[1] # g
    BY <1>1, GroupDeleted
  <1>5. ListsSound'
    <2>1. \A h \in Groups : GroupSound(h, free'[h], used'[h], stage'[h])
      BY <1>1 DEF ListsSound
    <2>2. \A h \in Groups \ Live' : used'[h] = <<>> /\ stage'[h] = <<>>
      BY <1>1, <1>4 DEF ListsSound, Live
    <2> QED BY <2>1, <2>2 DEF ListsSound
  <1>6. InUse' = InUse
    <2>1. ToSet(<<>>) = {}
      <3>1. <<>> \in Seq(Blocks) OBVIOUS
      <3> QED BY <3>1, Members
    <2>2. Deletes => ToSet(used[g]) \cup ToSet(stage[g]) = {} BY <1>4, <2>1
    <2> QED BY <1>1, <1>4, <2>2 DEF InUse, Live
  <1>7. /\ reader'.marked = FALSE /\ reader'.curGroup = next
        /\ reader'.lastGroup = IF Deletes THEN reader.lastGroup ELSE g
        /\ reader'.state = "nextBlock" \/ reader'.state \in {"completed", "lp"}
        /\ reader'.state = "nextBlock" <=> next # None
        /\ next # None => /\ reader'.curBlock = reader.curBlock
                          /\ reader'.lastBlock = reader.lastBlock
        /\ next = None => reader'.curBlock = None /\ reader'.lastBlock = None
    BY <1>2, MovedOn
  <1>8. ASSUME next = None PROVE ReaderOnItsWay'
    <2>1. WaySound(groups', used', reader') BY <1>7, <1>8 DEF WaySound
    <2>2. StateSound(used', reader') BY <1>7, <1>8 DEF StateSound, In
    <2> QED BY <2>1, <2>2 DEF ReaderOnItsWay
  <1>9. ASSUME next # None PROVE ReaderOnItsWay'
    <2>1. next \in ToSet(groups) /\ (g # None => NextTo(groups, g, next)) BY <1>9, GroupFound
    <2>2. g # None => NotBehind(groups, g, next) /\ g # next BY <1>3, <2>1, InOrder
    <2>3. ~Deletes => groups' = groups BY <1>1
    <2>4. Deletes => g # None BY DEF Deletes
    <2> HIDE DEF g, next
    <2>5. next \in ToSet(groups') BY <1>4, <2>1, <2>2, <2>3, <2>4
    <2>6. reader'.lastGroup # None => NextTo(groups', reader'.lastGroup, next)
      <3>1. CASE ~Deletes BY <1>7, <2>1, <2>3, <3>1
      <3>2. CASE Deletes
        <4>1. reader.lastGroup # None => NextTo(groups, reader.lastGroup, g)
          BY <2>4, <3>2 DEF ReaderOnItsWay, WaySound, g
        <4> QED BY <1>4, <1>7, <2>1, <2>4, <3>2, <4>1
      <3> QED BY <3>1, <3>2
    <2>7. reader.curBlock # None =>
            /\ reader.curBlock \in ToSet(used[reader.curBlock[1]])
            /\ NotBehind(groups', reader.curBlock[1], next)
            /\ reader.curBlock[1] # next
      <3>0. HAVE reader.curBlock # None
      <3>1. /\ g # None /\ reader.curBlock \in ToSet(used[reader.curBlock[1]])
            /\ NotBehind(groups, reader.curBlock[1], g)
        BY <3>0 DEF ReaderOnItsWay, WaySound, g
      <3>2. NotBehind(groups, reader.curBlock[1], next) BY <1>3, <2>2, <3>1, InOrder
      <3>3. reader.curBlock[1] # next BY <1>3, <2>2, <3>1, InOrder
      <3> QED BY <1>4, <2>2, <2>3, <3>0, <3>1, <3>2, <3>3
    <2>8. reader.lastBlock # None =>
            /\ reader.curBlock # None
            /\ reader.lastBlock \in ToSet(used[reader.lastBlock[1]])
            /\ NotBehind(groups', reader.lastBlock[1], reader.curBlock[1])
      <3>0. HAVE reader.lastBlock # None
      <3>1. /\ reader.curBlock # None /\ reader.lastBlock \in ToSet(used[reader.lastBlock[1]])
            /\ NotBehind(groups, reader.lastBlock[1], reader.curBlock[1])
        BY <3>0 DEF ReaderOnItsWay, WaySound
      <3> QED BY <1>4, <2>3, <3>0, <3>1
    <2>9. WaySound(groups', used', reader')
      BY <1>1, <1>7, <1>9, <2>5, <2>6, <2>7, <2>8 DEF WaySound
    <2>10. StateSound(used', reader')
      <3>1. ~In(reader', reader'.curBlock) BY <1>7, <1>9, <2>7 DEF In
      <3> QED BY <1>7, <1>9, <3>1 DEF StateSound
    <2> QED BY <2>9, <2>10 DEF ReaderOnItsWay
  <1> QED BY <1>5, <1>6, <1>8, <1>9

\* The block a thread is given comes from the free blocks of its group.
LEMMA BlockGiven ==
  ASSUME TypeOK, ListsSound, ReaderOnItsWay, NEW g \in Groups,
         \/ g \in WithFree /\ UNCHANGED groups
         \/ g \notin ToSet(groups) /\ HeadIsFull /\ groups' = <<g>> \o groups
  PROVE  /\ free[g] # <<>> /\ groups' \in Seq(Groups) /\ IsInjective(groups')
         /\ ToSet(groups') = ToSet(groups) \cup {g}
         /\ \A x, y : /\ NextTo(groups, x, y) => NextTo(groups', x, y)
                      /\ NotBehind(groups, x, y) => NotBehind(groups', x, y)
  <1>1. groups \in Seq(Groups) /\ IsInjective(groups) BY DEF TypeOK
  <1>2. CASE g \in WithFree /\ UNCHANGED groups BY <1>1, <1>2 DEF WithFree
  <1>3. CASE g \notin ToSet(groups) /\ groups' = <<g>> \o groups
    <2>1. groups' = InFront(groups, g) BY <1>3 DEF InFront
    <2>2. used[g] = <<>> /\ stage[g] = <<>> BY <1>3 DEF ListsSound, Live
    <2>3. free[g] # <<>>
      <3>1. Len(free[g]) + Len(used[g]) + Len(stage[g]) = BlocksPerGroup
        BY DEF ListsSound, GroupSound
      <3>2. free[g] \in Seq(Blocks) BY DEF TypeOK
      <3> QED BY <2>2, <3>1, <3>2, Constants
    <2>4. InFront(groups, g) \in Seq(Groups) BY <1>1, <1>3, PutInFront
    <2>5. IsInjective(InFront(groups, g)) BY <1>1, <1>3, PutInFront
    <2>7. ToSet(InFront(groups, g)) = ToSet(groups) \cup {g} BY <1>1, <1>3, PutInFront
    <2>6. \A x, y : /\ NextTo(groups, x, y) => NextTo(groups', x, y)
                    /\ NotBehind(groups, x, y) => NotBehind(groups', x, y)
      BY <1>1, <2>1, InFrontInOrder
    <2> QED BY <2>1, <2>3, <2>4, <2>5, <2>6, <2>7
  <1> QED BY <1>1, <1>2, <1>3

LEMMA NewBlockOnItsWay ==
  ASSUME TypeOK, ListsSound, ReaderOnItsWay, NEW t \in Threads, NewBlock(t)
  PROVE  \E g \in Groups :
            LET b == Head(free[g])
            IN  /\ ListsSound' /\ ReaderOnItsWay'
                /\ groups' \in Seq(Groups) /\ IsInjective(groups')
                /\ free' \in [Groups -> Seq(Blocks)] /\ stage' \in [Groups -> Seq(Blocks)]
                /\ b \in Blocks /\ b \notin InUse /\ InUse' = InUse \cup {b}
                /\ context' = [context EXCEPT ![b] =
                        [NoContext EXCEPT !.t = t, !.seq = writeSeq[t]]]
                /\ data' = [data EXCEPT ![b] = <<>>]
                /\ curBlock' = [curBlock EXCEPT ![t] = b]
  <1>1. PICK g \in Groups :
        /\ \/ g \in WithFree /\ UNCHANGED groups
           \/ g \notin ToSet(groups) /\ HeadIsFull /\ groups' = <<g>> \o groups
        /\ free' = [free EXCEPT ![g] = Tail(@)]
        /\ stage' = [stage EXCEPT ![g] = <<Head(free[g])>> \o @]
        /\ context' = [context EXCEPT ![Head(free[g])] =
                        [NoContext EXCEPT !.t = t, !.seq = writeSeq[t]]]
        /\ data' = [data EXCEPT ![Head(free[g])] = <<>>]
        /\ curBlock' = [curBlock EXCEPT ![t] = Head(free[g])]
    BY DEF NewBlock
  <1>2. used' = used /\ reader' = reader BY DEF NewBlock, readerVars
  <1> DEFINE b == Head(free[g])
  <1>3. /\ free[g] # <<>> /\ groups' \in Seq(Groups) /\ IsInjective(groups')
        /\ ToSet(groups') = ToSet(groups) \cup {g}
        /\ \A x, y : /\ NextTo(groups, x, y) => NextTo(groups', x, y)
                     /\ NotBehind(groups, x, y) => NotBehind(groups', x, y)
    BY <1>1, BlockGiven
  <1>4. /\ free \in [Groups -> Seq(Blocks)] /\ stage \in [Groups -> Seq(Blocks)]
        /\ used \in [Groups -> Seq(Blocks)] BY DEF TypeOK
  <1>5. GroupSound(g, free[g], used[g], stage[g]) BY DEF ListsSound
  <1>6. /\ b \in Blocks /\ b[1] = g
        /\ b \notin ToSet(used[g]) /\ b \notin ToSet(stage[g])
        /\ Tail(free[g]) \in Seq(Blocks) /\ InFront(stage[g], b) \in Seq(Blocks)
        /\ ToSet(InFront(stage[g], b)) = ToSet(stage[g]) \cup {b}
        /\ GroupSound(g, Tail(free[g]), used[g], InFront(stage[g], b))
    BY <1>3, <1>4, <1>5, Allocated
  <1>7. stage' = [stage EXCEPT ![g] = InFront(stage[g], b)] BY <1>1, <1>4 DEF InFront
  <1> HIDE DEF b
  <1>8. /\ free' \in [Groups -> Seq(Blocks)] /\ stage' \in [Groups -> Seq(Blocks)]
        /\ used' \in [Groups -> Seq(Blocks)]
        /\ free'[g] = Tail(free[g]) /\ stage'[g] = InFront(stage[g], b) /\ used'[g] = used[g]
        /\ \A h \in Groups \ {g} :
            free'[h] = free[h] /\ used'[h] = used[h] /\ stage'[h] = stage[h]
    BY <1>1, <1>2, <1>4, <1>6, <1>7
  <1>9. GroupSound(g, free'[g], used'[g], stage'[g]) BY <1>6, <1>8
  <1>10. ListsSound' BY <1>3, <1>8, <1>9, ListsChanged
  <1>11. InUse' = (InUse \ (ToSet(used[g]) \cup ToSet(stage[g])))
                        \cup (ToSet(used'[g]) \cup ToSet(stage'[g]))
    BY <1>3, <1>8, <1>9, ListsChanged
  <1>12. b \notin InUse BY <1>6, UseIs
  <1>13. ToSet(used[g]) \cup ToSet(stage[g]) \subseteq InUse BY UseIs
  <1>14. InUse' = InUse \cup {b} BY <1>6, <1>8, <1>11, <1>13
  <1>15. ReaderOnItsWay'
    <2>1. WaySound(groups', used', reader')
      BY <1>2, <1>3 DEF ReaderOnItsWay, WaySound
    <2> QED BY <1>2, <2>1 DEF ReaderOnItsWay
  <1> QED BY <1>1, <1>3, <1>6, <1>8, <1>10, <1>12, <1>14, <1>15 DEF b

-----------------------------------------------------------------------------
(***************************************************************************)
(* The types are kept, and what the small operations do.                   *)
(***************************************************************************)

Place == [t : Threads, seq : Nat, num : Nat, done : BOOLEAN]
ContextType == [t : Threads \cup {None}, seq : Nat, finished : BOOLEAN,
                removed : BOOLEAN, reallocate : BOOLEAN]
Points == {"idle", "lp", "hp", "new", "put", "commit", "forget", "forgetIdle", "mark", "gone"}

ListTypes ==
    /\ groups \in Seq(Groups) /\ IsInjective(groups)
    /\ free \in [Groups -> Seq(Blocks)] /\ used \in [Groups -> Seq(Blocks)]
    /\ stage \in [Groups -> Seq(Blocks)]
DataTypes == data \in [Blocks -> Seq(Nat)] /\ \A b \in Blocks : Len(data[b]) <= BlockRoom
ThreadTypes ==
    /\ pc \in [Threads -> Points] /\ curBlock \in [Threads -> Blocks \cup {None}]
    /\ writeSeq \in [Threads -> Nat] /\ sent \in [Threads -> Nat]
ReaderTypes ==
    /\ readSeq \in [Threads -> Nat] /\ read \in [Threads -> Nat] /\ deleted \subseteq Threads
    /\ reader \in ReaderType /\ rpc \in {"idle", "round", "block", "ring", "empty"}

LEMMA TypesAre ==
  TypeOK <=> /\ lp \in Seq(Place) /\ ListTypes /\ context \in [Blocks -> ContextType]
             /\ DataTypes /\ ThreadTypes /\ ReaderTypes
  BY DEF TypeOK, Place, ListTypes, ContextType, DataTypes, ThreadTypes, Points, ReaderTypes,
         ReaderType

LEMMA TypesWillBe ==
  ASSUME lp' \in Seq(Place), ListTypes', context' \in [Blocks -> ContextType], DataTypes',
         ThreadTypes', ReaderTypes'
  PROVE  TypeOK'
  BY DEF TypeOK, Place, ListTypes, ContextType, DataTypes, ThreadTypes, Points, ReaderTypes,
         ReaderType

LEMMA CommittedIs ==
  ASSUME lp \in Seq(Place), NEW t \in Threads
  PROVE  /\ Committed(t) \in Seq(Place) /\ Len(Committed(t)) = Len(lp)
         /\ \A i \in 1..Len(lp) :
               /\ Committed(t)[i].t = lp[i].t /\ Committed(t)[i].seq = lp[i].seq
               /\ Committed(t)[i].num = lp[i].num
               /\ Committed(t)[i].done = (lp[i].done \/ lp[i].t = t)
  <1>1. Len(lp) \in Nat /\ DOMAIN lp = 1..Len(lp) BY Members
  <1>2. \A i \in 1..Len(lp) : lp[i] \in Place BY Members
  <1>3. PICK r : r = Committed(t) OBVIOUS
  <1>4. r = [i \in 1..Len(lp) |->
                IF lp[i].t = t THEN [lp[i] EXCEPT !.done = TRUE] ELSE lp[i]]
    BY <1>1, <1>3 DEF Committed
  <1>5. ASSUME NEW i \in 1..Len(lp)
        PROVE  /\ r[i] \in Place /\ r[i].t = lp[i].t /\ r[i].seq = lp[i].seq
               /\ r[i].num = lp[i].num /\ r[i].done = (lp[i].done \/ lp[i].t = t)
    <2>1. PICK e \in Place : e = lp[i] BY <1>2
    <2>2. r[i] = IF e.t = t THEN [e EXCEPT !.done = TRUE] ELSE e BY <1>4, <2>1
    <2>3. CASE e.t = t
      <3>1. r[i] = [e EXCEPT !.done = TRUE] BY <2>2, <2>3
      <3>2. /\ r[i] \in Place /\ r[i].t = e.t /\ r[i].seq = e.seq
            /\ r[i].num = e.num /\ r[i].done = TRUE
        BY <3>1 DEF Place
      <3> QED BY <2>1, <2>3, <3>2
    <2>4. CASE e.t # t
      <3>1. r[i] = e BY <2>2, <2>4
      <3>2. e.done \in BOOLEAN BY DEF Place
      <3> QED BY <2>1, <2>4, <3>1, <3>2
    <2> QED BY <2>3, <2>4
  <1>6. r \in Seq(Place) /\ Len(r) = Len(lp)
    <2>1. \A i \in 1..Len(lp) : r[i] \in Place BY <1>5
    <2>2. r \in [1..Len(lp) -> Place] BY <1>4, <2>1
    <2> QED BY <1>1, <2>2
  <1> QED BY <1>3, <1>5, <1>6

LEMMA MarkIs ==
  ASSUME context \in [Blocks -> ContextType], NEW b \in Blocks, Mark(b)
  PROVE  /\ context' \in [Blocks -> ContextType]
         /\ \A d \in Blocks : /\ context'[d].t = context[d].t /\ context'[d].seq = context[d].seq
                              /\ context'[d].finished = context[d].finished
                              /\ context'[d].removed = (context[d].removed \/ d = b)
  <1>1. PICK c \in ContextType : c = context[b] OBVIOUS
  <1>2. PICK e : e = [c EXCEPT !.removed = TRUE] OBVIOUS
  <1>3. /\ e \in ContextType /\ e.t = c.t /\ e.seq = c.seq /\ e.finished = c.finished
        /\ e.removed = TRUE
    BY <1>2 DEF ContextType
  <1>4. context' = [context EXCEPT ![b] = e] BY <1>1, <1>2 DEF Mark
  <1>5. \A d \in Blocks : context[d].removed \in BOOLEAN BY DEF ContextType
  <1> QED BY <1>1, <1>3, <1>4, <1>5

LEMMA DeregisterIs ==
  ASSUME readSeq \in [Threads -> Nat], deleted \subseteq Threads, NEW t \in Threads,
         NEW finished \in BOOLEAN, Deregister(t, finished)
  PROVE  /\ readSeq' \in [Threads -> Nat] /\ deleted' \subseteq Threads
         /\ deleted' = IF finished THEN deleted \cup {t} ELSE deleted
         /\ readSeq'[t] = IF finished THEN readSeq[t] ELSE readSeq[t] + 1
         /\ \A u \in Threads \ {t} : readSeq'[u] = readSeq[u]
  BY DEF Deregister

\* The lists, and the reader's way through them.
OnItsWay == ListTypes /\ ListsSound /\ ReaderOnItsWay

LEMMA SameLists ==
  ASSUME OnItsWay, groups' = groups, free' = free, used' = used, stage' = stage,
         SamePlace(reader, reader'), reader'.state = reader.state
  PROVE  OnItsWay' /\ InUse' = InUse
  <1>1. ListTypes' BY DEF OnItsWay, ListTypes
  <1>2. ListsSound' BY DEF OnItsWay, ListsSound, Live
  <1>3. WaySound(groups', used', reader') BY DEF OnItsWay, ReaderOnItsWay, WaySound, SamePlace
  <1>4. StateSound(used', reader') BY DEF OnItsWay, ReaderOnItsWay, StateSound, SamePlace, In
  <1>5. InUse' = InUse BY DEF InUse, Live
  <1> QED BY <1>1, <1>2, <1>3, <1>4, <1>5 DEF OnItsWay, ReaderOnItsWay

\* The state changes, and with it only what state says.
LEMMA SameListsOtherState ==
  ASSUME OnItsWay, groups' = groups, free' = free, used' = used, stage' = stage,
         SamePlace(reader, reader'), StateSound(used, reader')
  PROVE  OnItsWay' /\ InUse' = InUse
  <1>1. ListTypes' BY DEF OnItsWay, ListTypes
  <1>2. ListsSound' BY DEF OnItsWay, ListsSound, Live
  <1>3. WaySound(groups', used', reader') BY DEF OnItsWay, ReaderOnItsWay, WaySound, SamePlace
  <1>4. StateSound(used', reader') OBVIOUS
  <1>5. InUse' = InUse BY DEF InUse, Live
  <1> QED BY <1>1, <1>2, <1>3, <1>4, <1>5 DEF OnItsWay, ReaderOnItsWay

-----------------------------------------------------------------------------
(***************************************************************************)
(* The invariant is kept: what the threads do.                             *)
(***************************************************************************)

\* What holds in every state, in the parts the steps below go by.
LEMMA Parts ==
  ASSUME BufferInv
  PROVE  /\ lp \in Seq(Place) /\ ListTypes /\ context \in [Blocks -> ContextType]
         /\ DataTypes /\ ThreadTypes /\ ReaderTypes /\ reader \in ReaderType /\ OnItsWay
         /\ InUse \subseteq Blocks
         /\ Len(lp) \in Nat /\ DOMAIN lp = 1..Len(lp) /\ \A i \in 1..Len(lp) : lp[i] \in Place
  <1>1. TypeOK /\ ListsSound /\ ReaderOnItsWay BY DEF BufferInv
  <1>2. /\ lp \in Seq(Place) /\ ListTypes /\ context \in [Blocks -> ContextType]
        /\ DataTypes /\ ThreadTypes /\ ReaderTypes
    BY <1>1, TypesAre
  <1>3. reader \in ReaderType BY <1>2 DEF ReaderTypes
  <1>4. OnItsWay BY <1>1, <1>2 DEF OnItsWay
  <1>5. InUse \subseteq Blocks BY <1>1, UseIs
  <1>6. Len(lp) \in Nat /\ DOMAIN lp = 1..Len(lp) /\ \A i \in 1..Len(lp) : lp[i] \in Place
    BY <1>2, Members
  <1> QED BY <1>2, <1>3, <1>4, <1>5, <1>6

\* The parts of the next state make the invariant of the next state.
LEMMA Whole ==
  ASSUME OnItsWay', lp' \in Seq(Place), context' \in [Blocks -> ContextType], DataTypes',
         ThreadTypes', ReaderTypes', NumbersSound', RecordsSound'
  PROVE  BufferInv'
  BY TypesWillBe DEF OnItsWay, BufferInv

\* Nothing of the lists or the reader has changed.
ListsStay == UNCHANGED <<groups, free, used, stage>>
ReaderStays == UNCHANGED <<readSeq, deleted, reader, rpc, read>>

LEMMA ThreadsOnly ==
  ASSUME BufferInv, ListsStay, ReaderStays
  PROVE  OnItsWay' /\ InUse' = InUse /\ ReaderTypes'
  <1>1. OnItsWay /\ ReaderTypes BY Parts
  <1>2. groups' = groups /\ free' = free /\ used' = used /\ stage' = stage BY DEF ListsStay
  <1>3. SamePlace(reader, reader') /\ reader'.state = reader.state
    BY DEF ReaderStays, SamePlace
  <1>4. OnItsWay' /\ InUse' = InUse BY <1>1, <1>2, <1>3, SameLists
  <1>5. ReaderTypes' BY <1>1 DEF ReaderTypes, ReaderStays
  <1> QED BY <1>4, <1>5

\* What lies where has not changed.
HoldsStays == \A t \in Threads, s, n \in Nat : Holds(t, s, n)' <=> Holds(t, s, n)

LEMMA HoldsSame ==
  ASSUME lp' = lp, InUse' = InUse, data' = data,
         \A d \in InUse : context'[d].t = context[d].t /\ context'[d].seq = context[d].seq
  PROVE  HoldsStays
  <1>1. SUFFICES ASSUME NEW t \in Threads, NEW s \in Nat, NEW n \in Nat
                 PROVE  Holds(t, s, n)' <=> Holds(t, s, n)
    BY DEF HoldsStays
  <1>2. InRing(t, s, n)' <=> InRing(t, s, n) BY DEF InRing
  <1>3. InBlock(t, s, n)' <=> InBlock(t, s, n) BY DEF InBlock
  <1> QED BY <1>2, <1>3 DEF Holds

LEMMA NoneMissingStill ==
  ASSUME BufferInv, HoldsStays, sent' = sent, read' = read
  PROVE  NoneMissing'
  <1>1. sent \in [Threads -> Nat] /\ read \in [Threads -> Nat]
    BY Parts DEF ThreadTypes, ReaderTypes
  <1>2. SUFFICES ASSUME NEW t \in Threads, NEW n \in (read[t] + 1)..sent[t]
                 PROVE  \E s \in Nat : Holds(t, s, n)'
    BY DEF NoneMissing
  <1>3. n \in Nat /\ t \in Threads
    <2>1. read[t] \in Nat /\ sent[t] \in Nat BY <1>1
    <2> QED BY <1>2, <2>1
  <1>4. PICK s \in Nat : Holds(t, s, n)
    BY <1>2 DEF BufferInv, RecordsSound, NoneMissing
  <1>5. Holds(t, s, n)' BY <1>3, <1>4 DEF HoldsStays
  <1> QED BY <1>5

\* The block the reader has a batch of.
LEMMA BatchBlock ==
  ASSUME BufferInv
  PROVE  /\ reader.state = "hp" \/ Batching \/ reader.marked =>
               /\ reader.curBlock \in Blocks /\ reader.curBlock # None
               /\ reader.curBlock \in InUse
         /\ Batching => reader.state = "hp"
  <1>1. Batching => reader.state = "hp" BY DEF BufferInv, RecordsSound, InHand
  <1>2. reader.state = "hp" \/ reader.marked => reader.curBlock # None
    BY Parts DEF OnItsWay, ReaderOnItsWay, StateSound, In
  <1>3. reader.curBlock # None => reader.curBlock \in Blocks /\ reader.curBlock \in InUse
    BY WayTypes DEF BufferInv
  <1> QED BY <1>1, <1>2, <1>3

\* A thread goes on, which changes nothing but where it is.
LEMMA PcMoves ==
  ASSUME BufferInv, NEW t \in Threads, NEW l \in {"idle", "lp", "hp", "forgetIdle"}, Goto(t, l),
         pc[t] \in {"idle", "lp", "hp", "put"}, l = "forgetIdle" => curBlock[t] # None,
         l \in {"lp", "hp"} => sent[t] < Rounds[t],
         lp' = lp, ListsStay, ReaderStays,
         context' = context, data' = data, curBlock' = curBlock, writeSeq' = writeSeq,
         sent' = sent
  PROVE  BufferInv'
  <1>1. OnItsWay' /\ InUse' = InUse /\ ReaderTypes' BY ThreadsOnly
  <1>2. lp \in Seq(Place) /\ context \in [Blocks -> ContextType] /\ DataTypes /\ ThreadTypes
    BY Parts
  <1>3. pc'[t] = l /\ \A u \in Threads \ {t} : pc'[u] = pc[u]
    BY <1>2 DEF Goto, ThreadTypes
  <1>4. ThreadTypes' /\ DataTypes' BY <1>2 DEF Goto, ThreadTypes, Points, DataTypes
  <1>5. NumbersSound /\ RecordsSound BY DEF BufferInv
  <1>6. \A i \in DOMAIN lp : lp[i].t \in Threads BY Parts DEF Place
  <1>7. \A b \in InUse : context[b].t \in Threads BY <1>5 DEF NumbersSound, BlocksSound
  <1>8. RingSound'
    BY <1>3, <1>5, <1>6 DEF NumbersSound, RingSound, ReaderStays
  <1>9. BlocksSound'
    BY <1>1, <1>3, <1>5, <1>7 DEF NumbersSound, BlocksSound, ReaderStays
  <1>10. NumbersApart' BY <1>1, <1>5 DEF NumbersSound, NumbersApart
  <1>11. ThreadsSound' BY <1>1, <1>3, <1>5 DEF NumbersSound, ThreadsSound, ReaderStays
  <1>12. FreeSound' BY <1>1, <1>5 DEF NumbersSound, FreeSound
  <1>13. BlockAsSeen'
    BY <1>5 DEF NumbersSound, BlockAsSeen, ReaderStays, RingHasNext, Verified
  <1>14. HoldsStays BY <1>1, HoldsSame
  <1>15. RecordsInOrder'
    BY <1>1, <1>5, <1>14 DEF RecordsSound, RecordsInOrder, HoldsStays
  <1>16. RecordsInRange'
    <2>1. \A u \in Threads : BeingRead(u)' <=> BeingRead(u) BY DEF BeingRead, Batching, ReaderStays
    <2> QED BY <1>3, <1>5, <1>14, <2>1 DEF RecordsSound, RecordsInRange, HoldsStays, ReaderStays
  <1>17. NoneMissing' BY <1>14, NoneMissingStill DEF ReaderStays
  <1>18. Counts' BY <1>3, <1>5 DEF RecordsSound, Counts, ReaderStays
  <1>19. InHand' BY <1>5 DEF RecordsSound, InHand, Batching, ReaderStays
  <1>20. NumbersSound' BY <1>8, <1>9, <1>10, <1>11, <1>12, <1>13 DEF NumbersSound
  <1>21. RecordsSound' BY <1>15, <1>16, <1>17, <1>18, <1>19 DEF RecordsSound
  <1> QED BY <1>1, <1>2, <1>4, <1>20, <1>21, Whole

\* A thread gives its block up, and goes on with another one, without one, or not
\* at all.
LEMMA BlockGivenUp ==
  ASSUME BufferInv, NEW t \in Threads, NEW l \in {"new", "commit", "idle", "gone"}, Goto(t, l),
         NEW b \in Blocks, b = curBlock[t],
         \/ l = "new" /\ pc[t] \in {"hp", "put"} /\ curBlock' = curBlock
         \/ l = "commit" /\ pc[t] = "forget" /\ curBlock' = [curBlock EXCEPT ![t] = None]
         \/ l = "idle" /\ pc[t] = "forgetIdle" /\ curBlock' = [curBlock EXCEPT ![t] = None]
         \/ l = "gone" /\ pc[t] = "idle" /\ curBlock' = curBlock,
         lp' = lp, ListsStay, ReaderStays, data' = data, writeSeq' = writeSeq, sent' = sent,
         context' \in [Blocks -> ContextType],
         \A d \in Blocks : /\ context'[d].t = context[d].t /\ context'[d].seq = context[d].seq
                           /\ context'[d].finished = (context[d].finished \/ (d = b /\ l = "gone"))
                           /\ context'[d].removed = (context[d].removed \/ d = b)
  PROVE  BufferInv'
  <1>1. OnItsWay' /\ InUse' = InUse /\ ReaderTypes' BY ThreadsOnly
  <1>2. /\ lp \in Seq(Place) /\ context \in [Blocks -> ContextType] /\ DataTypes /\ ThreadTypes
        /\ InUse \subseteq Blocks
    BY Parts
  <1>3. pc'[t] = l /\ \A u \in Threads \ {t} : pc'[u] = pc[u]
    BY <1>2 DEF Goto, ThreadTypes
  <1>4. ThreadTypes' /\ DataTypes'
    <2>1. curBlock' \in [Threads -> Blocks \cup {None}] BY <1>2 DEF ThreadTypes
    <2>2. pc' \in [Threads -> Points] BY <1>2 DEF Goto, ThreadTypes, Points
    <2> QED BY <1>2, <2>1, <2>2 DEF ThreadTypes, DataTypes
  <1>5. NumbersSound /\ RecordsSound BY DEF BufferInv
  <1>6. \A i \in DOMAIN lp : lp[i].t \in Threads BY Parts DEF Place
  <1>7. \A d \in InUse : context[d].t \in Threads BY <1>5 DEF NumbersSound, BlocksSound
  <1>8. /\ b # None /\ b \in InUse /\ context[b].t = t /\ ~context[b].removed /\ t \notin deleted
        /\ writeSeq[t] = context[b].seq + (IF pc[t] = "forget" THEN 2 ELSE 1)
    BY <1>5, Constants DEF NumbersSound, ThreadsSound
  <1>9. RingSound' BY <1>3, <1>5, <1>6 DEF NumbersSound, RingSound, ReaderStays
  <1>10. BlocksSound'
    <2>1. SUFFICES ASSUME NEW d \in InUse
                   PROVE  LET c == context'[d] IN
                            /\ c.t \in Threads /\ c.t \notin deleted
                            /\ readSeq[c.t] <= c.seq /\ c.seq < writeSeq[c.t]
                            /\ c.finished => c.removed /\ pc'[c.t] = "gone" /\ c.seq + 1 = writeSeq[c.t]
      BY <1>1 DEF BlocksSound, ReaderStays
    <2>2. d \in Blocks BY <1>2
    <2>3. /\ context[d].t \in Threads /\ context[d].t \notin deleted
          /\ readSeq[context[d].t] <= context[d].seq /\ context[d].seq < writeSeq[context[d].t]
          /\ context[d].finished => /\ context[d].removed /\ pc[context[d].t] = "gone"
                                    /\ context[d].seq + 1 = writeSeq[context[d].t]
      BY <1>5 DEF NumbersSound, BlocksSound
    <2>4. CASE d = b /\ l = "gone" BY <1>3, <1>8, <2>2, <2>3, <2>4
    <2>5. CASE ~(d = b /\ l = "gone")
      <3>1. context[d].finished => context[d].t # t BY <2>3
      <3>2. /\ context'[d].t = context[d].t /\ context'[d].seq = context[d].seq
        BY <2>2
      <3>4. context'[d].finished => context[d].finished BY <2>2, <2>5
      <3>5. context[d].removed => context'[d].removed BY <2>2
      <3>3. context[d].finished => pc'[context[d].t] = pc[context[d].t] BY <1>3, <2>3, <3>1
      <3> QED BY <2>3, <3>2, <3>3, <3>4, <3>5
    <2> QED BY <2>4, <2>5
  <1>11. NumbersApart' BY <1>1, <1>2, <1>5 DEF NumbersSound, NumbersApart
  <1>12. ThreadsSound'
    <2>1. ASSUME NEW u \in Threads, u # t
          PROVE  LET d == curBlock'[u] IN
                    /\ pc'[u] \in {"forget", "forgetIdle", "put"} => d # None
                    /\ pc'[u] \in {"commit", "mark"} => d = None
                    /\ d # None /\ pc'[u] \notin {"new", "gone"} =>
                          /\ d \in InUse' /\ context'[d].t = u /\ ~context'[d].removed
                          /\ writeSeq'[u] = context'[d].seq + (IF pc'[u] = "forget" THEN 2 ELSE 1)
                    /\ u \in deleted' => pc'[u] = "gone"
                    /\ readSeq'[u] <= writeSeq'[u]
      <3>1. curBlock'[u] = curBlock[u] /\ pc'[u] = pc[u] BY <1>2, <1>3, <2>1 DEF ThreadTypes
      <3>2. deleted' = deleted /\ readSeq' = readSeq BY DEF ReaderStays
      <3>3. LET d == curBlock[u] IN
                /\ pc[u] \in {"forget", "forgetIdle", "put"} => d # None
                /\ pc[u] \in {"commit", "mark"} => d = None
                /\ d # None /\ pc[u] \notin {"new", "gone"} =>
                      /\ d \in InUse /\ context[d].t = u /\ ~context[d].removed
                      /\ writeSeq[u] = context[d].seq + (IF pc[u] = "forget" THEN 2 ELSE 1)
                /\ u \in deleted => pc[u] = "gone"
                /\ readSeq[u] <= writeSeq[u]
        BY <1>5 DEF NumbersSound, ThreadsSound
      <3> DEFINE d == curBlock[u]
      <3>4. ASSUME d # None, pc[u] \notin {"new", "gone"}
            PROVE  /\ d \in InUse' /\ context'[d].t = u /\ ~context'[d].removed
                   /\ writeSeq'[u] = context'[d].seq + (IF pc'[u] = "forget" THEN 2 ELSE 1)
        <4>1. /\ d \in InUse /\ context[d].t = u /\ ~context[d].removed
              /\ writeSeq[u] = context[d].seq + (IF pc[u] = "forget" THEN 2 ELSE 1)
          BY <3>3, <3>4
        <4> HIDE DEF d
        <4>2. d \in Blocks /\ d # b BY <1>2, <1>8, <2>1, <4>1
        <4> QED BY <1>1, <3>1, <4>1, <4>2
      <3> QED BY <3>1, <3>2, <3>3, <3>4
    <2>2. LET d == curBlock'[t] IN
            /\ pc'[t] \in {"forget", "forgetIdle", "put"} => d # None
            /\ pc'[t] \in {"commit", "mark"} => d = None
            /\ d # None => pc'[t] \in {"new", "gone"}
            /\ t \in deleted' => pc'[t] = "gone"
            /\ readSeq'[t] <= writeSeq'[t]
      <3>1. curBlock'[t] # None => pc'[t] \in {"new", "gone"} BY <1>2, <1>3 DEF ThreadTypes
      <3>2. deleted' = deleted /\ readSeq' = readSeq BY DEF ReaderStays
      <3>3. readSeq[t] <= writeSeq[t] BY <1>5 DEF NumbersSound, ThreadsSound
      <3> QED BY <1>3, <1>8, <3>1, <3>2, <3>3
    <2> QED BY <2>1, <2>2 DEF ThreadsSound
  <1>13. FreeSound'
    <2>1. SUFFICES ASSUME NEW d \in Blocks \ InUse
                   PROVE  data[d] = <<>> /\ \A u \in Threads : curBlock'[u] = d => context'[d].removed
      BY <1>1 DEF FreeSound
    <2>2. data[d] = <<>> /\ \A u \in Threads : curBlock[u] = d => context[d].removed
      BY <1>5 DEF NumbersSound, FreeSound
    <2>3. \A u \in Threads : curBlock'[u] = d => curBlock[u] = d
      BY <1>2, Constants DEF ThreadTypes
    <2> QED BY <2>2, <2>3
  <1>14. BlockAsSeen'
    <2>1. reader.curBlock # None => reader.curBlock \in Blocks BY Parts DEF ReaderType
    <2>2. reader.marked => reader.curBlock # None
      BY Parts DEF OnItsWay, ReaderOnItsWay, StateSound, In
    <2>3. reader' = reader /\ rpc' = rpc /\ readSeq' = readSeq BY DEF ReaderStays
    <2>4. RingHasNext' <=> RingHasNext BY <2>3 DEF RingHasNext, Verified
    <2>5. BlockAsSeen BY <1>5 DEF NumbersSound
    <2> QED BY <2>1, <2>2, <2>3, <2>4, <2>5 DEF BlockAsSeen
  <1>15. HoldsStays BY <1>1, <1>2, HoldsSame
  <1>16. RecordsInOrder'
    BY <1>1, <1>5, <1>15 DEF RecordsSound, RecordsInOrder, HoldsStays
  <1>17. \A u \in Threads : BeingRead(u)' <=> BeingRead(u)
    <2>1. Batching => reader.curBlock \in Blocks BY BatchBlock
    <2>2. Batching' <=> Batching BY DEF Batching, ReaderStays
    <2> QED BY <2>1, <2>2 DEF BeingRead, ReaderStays
  <1>18. RecordsInRange'
    BY <1>3, <1>5, <1>15, <1>17 DEF RecordsSound, RecordsInRange, HoldsStays, ReaderStays
  <1>19. NoneMissing' BY <1>15, NoneMissingStill DEF ReaderStays
  <1>20. Counts' BY <1>3, <1>5 DEF RecordsSound, Counts, ReaderStays
  <1>21. InHand'
    <2>1. Batching => reader.curBlock \in Blocks BY BatchBlock
    <2> QED BY <1>5, <2>1 DEF RecordsSound, InHand, Batching, ReaderStays
  <1>22. NumbersSound' BY <1>9, <1>10, <1>11, <1>12, <1>13, <1>14 DEF NumbersSound
  <1>23. RecordsSound' BY <1>16, <1>18, <1>19, <1>20, <1>21 DEF RecordsSound
  <1> QED BY <1>1, <1>2, <1>4, <1>22, <1>23, Whole

LEMMA GoesOnKept ==
  ASSUME BufferInv, NEW t \in Threads, Call(t) \/ LpFull(t) \/ (BlockFull(t) /\ ~AutoExpand)
  PROVE  BufferInv'
  <1>1. CASE Call(t)
    <2>1. PICK l \in {"lp", "hp"} : Goto(t, l) BY <1>1 DEF Call
    <2>2. /\ pc[t] = "idle" /\ sent[t] < Rounds[t] /\ lp' = lp /\ ListsStay /\ ReaderStays
          /\ context' = context /\ data' = data /\ curBlock' = curBlock
          /\ writeSeq' = writeSeq /\ sent' = sent
      BY <1>1 DEF Call, blockVars, readerVars, ListsStay, ReaderStays
    <2> QED BY <2>1, <2>2, PcMoves
  <1>2. CASE LpFull(t)
    <2>1. PICK l \in {"hp", "idle", "forgetIdle"} :
              Goto(t, l) /\ (l = "forgetIdle" => curBlock[t] # None)
      BY <1>2 DEF LpFull
    <2>2. /\ pc[t] = "lp" /\ lp' = lp /\ ListsStay /\ ReaderStays
          /\ context' = context /\ data' = data /\ curBlock' = curBlock
          /\ writeSeq' = writeSeq /\ sent' = sent
      BY <1>2 DEF LpFull, blockVars, readerVars, ListsStay, ReaderStays
    <2>3. sent[t] < Rounds[t] BY <2>2 DEF BufferInv, RecordsSound, Counts
    <2> QED BY <2>1, <2>2, <2>3, PcMoves
  <1>3. CASE BlockFull(t) /\ ~AutoExpand
    <2>1. Goto(t, "idle") /\ context' = context BY <1>3 DEF BlockFull
    <2>2. /\ pc[t] \in {"put", "hp"} /\ lp' = lp /\ ListsStay /\ ReaderStays
          /\ data' = data /\ curBlock' = curBlock
          /\ writeSeq' = writeSeq /\ sent' = sent
      BY <1>3 DEF BlockFull, readerVars, ListsStay, ReaderStays
    <2> QED BY <2>1, <2>2, PcMoves
  <1> QED BY <1>1, <1>2, <1>3

LEMMA BlockLeftKept ==
  ASSUME BufferInv, NEW t \in Threads,
         LeaveBlock(t) \/ (BlockFull(t) /\ AutoExpand) \/ ForgetBlock(t)
  PROVE  BufferInv'
  <1>1. ThreadTypes /\ context \in [Blocks -> ContextType] BY Parts
  <1>2. pc[t] \in {"forget", "forgetIdle", "put"} => curBlock[t] # None
    BY DEF BufferInv, NumbersSound, ThreadsSound
  <1>3. curBlock[t] # None
    BY <1>2 DEF LeaveBlock, BlockFull, ForgetBlock
  <1>4. PICK b \in Blocks : b = curBlock[t] BY <1>1, <1>3 DEF ThreadTypes
  <1>5. Mark(b) BY <1>4 DEF LeaveBlock, BlockFull, ForgetBlock
  <1>6. /\ context' \in [Blocks -> ContextType]
        /\ \A d \in Blocks : /\ context'[d].t = context[d].t /\ context'[d].seq = context[d].seq
                             /\ context'[d].finished = context[d].finished
                             /\ context'[d].removed = (context[d].removed \/ d = b)
    BY <1>1, <1>5, MarkIs
  <1>7. PICK l \in {"new", "commit", "idle"} :
            /\ Goto(t, l)
            /\ \/ l = "new" /\ pc[t] \in {"hp", "put"} /\ curBlock' = curBlock
               \/ l = "commit" /\ pc[t] = "forget" /\ curBlock' = [curBlock EXCEPT ![t] = None]
               \/ l = "idle" /\ pc[t] = "forgetIdle" /\ curBlock' = [curBlock EXCEPT ![t] = None]
    BY DEF LeaveBlock, BlockFull, ForgetBlock
  <1>8. /\ lp' = lp /\ ListsStay /\ ReaderStays /\ data' = data
        /\ writeSeq' = writeSeq /\ sent' = sent
    BY DEF LeaveBlock, BlockFull, ForgetBlock, readerVars, ListsStay, ReaderStays
  <1>9. \A d \in Blocks : context'[d].finished = (context[d].finished \/ (d = b /\ l = "gone"))
    BY <1>1, <1>6, <1>7 DEF ContextType
  <1> QED BY <1>4, <1>6, <1>7, <1>8, <1>9, BlockGivenUp

LEMMA EndWithBlockKept ==
  ASSUME BufferInv, NEW t \in Threads, EndWithBlock(t)
  PROVE  BufferInv'
  <1>1. ThreadTypes /\ context \in [Blocks -> ContextType] BY Parts
  <1>2. PICK b \in Blocks : b = curBlock[t] BY <1>1 DEF EndWithBlock, ThreadTypes
  <1>3. context' = [context EXCEPT ![b].finished = TRUE, ![b].removed = TRUE]
    BY <1>2 DEF EndWithBlock
  <1>4. PICK c \in ContextType : c = context[b] BY <1>1
  <1>5. PICK e : e = [c EXCEPT !.finished = TRUE, !.removed = TRUE] OBVIOUS
  <1>6. /\ e \in ContextType /\ e.t = c.t /\ e.seq = c.seq /\ e.finished = TRUE
        /\ e.removed = TRUE
    BY <1>5 DEF ContextType
  <1>7. context' = [context EXCEPT ![b] = e] BY <1>1, <1>3, <1>4, <1>5 DEF ContextType
  <1>8. /\ context' \in [Blocks -> ContextType]
        /\ \A d \in Blocks : /\ context'[d].t = context[d].t /\ context'[d].seq = context[d].seq
                             /\ context'[d].finished = (context[d].finished \/ d = b)
                             /\ context'[d].removed = (context[d].removed \/ d = b)
    <2>1. \A d \in Blocks : context[d].removed \in BOOLEAN /\ context[d].finished \in BOOLEAN
      BY <1>1 DEF ContextType
    <2> QED BY <1>1, <1>4, <1>6, <1>7, <2>1
  <1>9. /\ Goto(t, "gone") /\ pc[t] = "idle" /\ curBlock' = curBlock
        /\ lp' = lp /\ ListsStay /\ ReaderStays /\ data' = data
        /\ writeSeq' = writeSeq /\ sent' = sent
    BY DEF EndWithBlock, readerVars, ListsStay, ReaderStays
  <1>10. PICK l \in {"gone"} : l = "gone" OBVIOUS
  <1> QED BY <1>2, <1>8, <1>9, <1>10, BlockGivenUp

LEMMA NewBlockKept ==
  ASSUME BufferInv, NEW t \in Threads, NewBlock(t)
  PROVE  BufferInv'
  <1>0. TypeOK /\ ListsSound /\ ReaderOnItsWay /\ NumbersSound /\ RecordsSound BY DEF BufferInv
  <1>1. PICK g \in Groups :
            LET b == Head(free[g])
            IN  /\ ListsSound' /\ ReaderOnItsWay'
                /\ groups' \in Seq(Groups) /\ IsInjective(groups')
                /\ free' \in [Groups -> Seq(Blocks)] /\ stage' \in [Groups -> Seq(Blocks)]
                /\ b \in Blocks /\ b \notin InUse /\ InUse' = InUse \cup {b}
                /\ context' = [context EXCEPT ![b] =
                        [NoContext EXCEPT !.t = t, !.seq = writeSeq[t]]]
                /\ data' = [data EXCEPT ![b] = <<>>]
                /\ curBlock' = [curBlock EXCEPT ![t] = b]
    BY <1>0, NewBlockOnItsWay
  <1>2. PICK b \in Blocks : b = Head(free[g]) BY <1>1
  <1>3. /\ ListsSound' /\ ReaderOnItsWay' /\ b \notin InUse /\ InUse' = InUse \cup {b}
        /\ context' = [context EXCEPT ![b] = [NoContext EXCEPT !.t = t, !.seq = writeSeq[t]]]
        /\ data' = [data EXCEPT ![b] = <<>>]
        /\ curBlock' = [curBlock EXCEPT ![t] = b]
    BY <1>1, <1>2
  <1>4. /\ lp \in Seq(Place) /\ context \in [Blocks -> ContextType] /\ DataTypes /\ ThreadTypes
        /\ ListTypes /\ InUse \subseteq Blocks /\ ReaderTypes
    BY Parts
  <1>5. /\ pc[t] = "new" \/ (pc[t] = "hp" /\ curBlock[t] = None)
        /\ TakeSeq(t) /\ Goto(t, "put") /\ lp' = lp /\ used' = used /\ sent' = sent /\ ReaderStays
    BY DEF NewBlock, readerVars, ReaderStays
  <1>6. /\ pc'[t] = "put" /\ writeSeq'[t] = writeSeq[t] + 1 /\ writeSeq[t] \in Nat
        /\ curBlock'[t] = b
        /\ \A u \in Threads \ {t} :
              pc'[u] = pc[u] /\ writeSeq'[u] = writeSeq[u] /\ curBlock'[u] = curBlock[u]
    BY <1>3, <1>4, <1>5 DEF Goto, TakeSeq, ThreadTypes
  <1>7. PICK e : e = [NoContext EXCEPT !.t = t, !.seq = writeSeq[t]] OBVIOUS
  <1>8. /\ e \in ContextType /\ e.t = t /\ e.seq = writeSeq[t] /\ e.finished = FALSE
        /\ e.removed = FALSE
    BY <1>6, <1>7 DEF NoContext, ContextType
  <1>9. /\ context' \in [Blocks -> ContextType] /\ context'[b] = e
        /\ \A d \in Blocks \ {b} : context'[d] = context[d]
    BY <1>3, <1>4, <1>7, <1>8
  <1>10. data'[b] = <<>> /\ \A d \in Blocks \ {b} : data'[d] = data[d]
    BY <1>3, <1>4 DEF DataTypes
  <1>11. DataTypes'
    <2>1. data' \in [Blocks -> Seq(Nat)]
      <3>1. <<>> \in Seq(Nat) OBVIOUS
      <3> QED BY <1>3, <1>4, <3>1 DEF DataTypes
    <2>2. Len(data'[b]) <= BlockRoom
      <3>1. Len(<<>>) = 0 /\ BlockRoom \in Nat BY Constants
      <3> QED BY <1>10, <3>1
    <2>3. \A d \in Blocks \ {b} : Len(data'[d]) <= BlockRoom BY <1>4, <1>10 DEF DataTypes
    <2> QED BY <2>1, <2>2, <2>3 DEF DataTypes
  <1>12. ThreadTypes' /\ ReaderTypes' /\ OnItsWay'
    <2>1. pc' \in [Threads -> Points] BY <1>4, <1>5 DEF ThreadTypes, Goto, Points
    <2>2. writeSeq' \in [Threads -> Nat] BY <1>4, <1>5 DEF ThreadTypes, TakeSeq
    <2>3. curBlock' \in [Threads -> Blocks \cup {None}] BY <1>3, <1>4 DEF ThreadTypes
    <2>4. ReaderTypes' BY <1>4, <1>5 DEF ReaderTypes, ReaderStays
    <2>5. ListTypes' BY <1>1, <1>4, <1>5 DEF ListTypes
    <2> QED BY <1>3, <1>4, <1>5, <2>1, <2>2, <2>3, <2>4, <2>5 DEF ThreadTypes, OnItsWay
  <1>13. \A d \in InUse : d # b /\ d \in Blocks /\ context'[d] = context[d] /\ data'[d] = data[d]
    BY <1>3, <1>4, <1>9, <1>10
  <1>14. t \notin deleted /\ readSeq[t] <= writeSeq[t]
    BY <1>0, <1>5 DEF NumbersSound, ThreadsSound
  <1>15. \A i \in DOMAIN lp : lp[i].t \in Threads BY Parts DEF Place
  <1>16. \A d \in InUse : context[d].t \in Threads /\ context[d].seq < writeSeq[context[d].t]
    BY <1>0 DEF NumbersSound, BlocksSound
  <1>17. RingSound'
    <2>1. SUFFICES ASSUME NEW i \in DOMAIN lp
                   PROVE LET p == lp[i] IN
                    /\ p.t \notin deleted' /\ readSeq'[p.t] <= p.seq /\ p.seq < writeSeq'[p.t]
                    /\ ~p.done => pc'[p.t] \in {"forget", "commit", "mark"} /\ p.seq + 1 = writeSeq'[p.t]
                    /\ p.num = 0 => pc'[p.t] \in {"mark", "gone"} /\ p.seq + 1 = writeSeq'[p.t]
                    /\ p.num = 0 /\ p.done => pc'[p.t] = "gone"
      BY <1>5 DEF RingSound
    <2>2. LET p == lp[i] IN
            /\ p.t \notin deleted /\ readSeq[p.t] <= p.seq /\ p.seq < writeSeq[p.t]
            /\ ~p.done => pc[p.t] \in {"forget", "commit", "mark"} /\ p.seq + 1 = writeSeq[p.t]
            /\ p.num = 0 => pc[p.t] \in {"mark", "gone"} /\ p.seq + 1 = writeSeq[p.t]
            /\ p.num = 0 /\ p.done => pc[p.t] = "gone"
      BY <1>0 DEF NumbersSound, RingSound
    <2>3. lp[i] \in Place BY Parts
    <2>4. lp[i].t \in Threads /\ lp[i].seq \in Nat BY <2>3 DEF Place
    <2>5. CASE lp[i].t = t BY <1>5, <1>6, <2>2, <2>4, <2>5 DEF ReaderStays
    <2>6. CASE lp[i].t # t BY <1>5, <1>6, <2>2, <2>4, <2>6 DEF ReaderStays
    <2> QED BY <2>5, <2>6
  <1>18. BlocksSound'
    <2>1. ASSUME NEW d \in InUse
          PROVE LET c == context'[d] IN
                    /\ c.t \in Threads /\ c.t \notin deleted'
                    /\ readSeq'[c.t] <= c.seq /\ c.seq < writeSeq'[c.t]
                    /\ c.finished => c.removed /\ pc'[c.t] = "gone" /\ c.seq + 1 = writeSeq'[c.t]
      <3>1. context'[d] = context[d] /\ d \in Blocks BY <1>13
      <3> DEFINE c == context[d]
      <3>2. /\ c.t \in Threads /\ c.t \notin deleted
            /\ readSeq[c.t] <= c.seq /\ c.seq < writeSeq[c.t]
            /\ c.finished => c.removed /\ pc[c.t] = "gone" /\ c.seq + 1 = writeSeq[c.t]
        BY <1>0 DEF NumbersSound, BlocksSound
      <3>3. c.seq \in Nat BY <1>4, <3>1 DEF ContextType
      <3> HIDE DEF c
      <3>4. /\ c.t \in Threads /\ c.t \notin deleted'
            /\ readSeq'[c.t] <= c.seq /\ c.seq < writeSeq'[c.t]
            /\ c.finished => c.removed /\ pc'[c.t] = "gone" /\ c.seq + 1 = writeSeq'[c.t]
        BY <1>5, <1>6, <3>2, <3>3 DEF ReaderStays
      <3> QED BY <3>1, <3>4 DEF c
    <2>2. LET c == context'[b] IN
                    /\ c.t \in Threads /\ c.t \notin deleted'
                    /\ readSeq'[c.t] <= c.seq /\ c.seq < writeSeq'[c.t]
                    /\ c.finished => c.removed /\ pc'[c.t] = "gone" /\ c.seq + 1 = writeSeq'[c.t]
      BY <1>5, <1>6, <1>8, <1>9, <1>14 DEF ReaderStays
    <2> QED BY <1>3, <2>1, <2>2 DEF BlocksSound
  <1>19. NumbersApart'
    <2>1. \A i, j \in DOMAIN lp' : lp'[i].t = lp'[j].t /\ lp'[i].seq = lp'[j].seq => i = j
      BY <1>0, <1>5 DEF NumbersSound, NumbersApart
    <2>2. ASSUME NEW d \in InUse', NEW f \in InUse', context'[d].t = context'[f].t,
                 context'[d].seq = context'[f].seq
          PROVE  d = f
      <3>1. CASE d \in InUse /\ f \in InUse
        BY <1>0, <1>13, <2>2, <3>1 DEF NumbersSound, NumbersApart
      <3>2. CASE d = b /\ f \in InUse
        <4>1. context[f].t = t /\ context[f].seq = writeSeq[t] BY <1>8, <1>9, <1>13, <2>2, <3>2
        <4> QED BY <1>6, <1>16, <3>2, <4>1
      <3>3. CASE d \in InUse /\ f = b
        <4>1. context[d].t = t /\ context[d].seq = writeSeq[t] BY <1>8, <1>9, <1>13, <2>2, <3>3
        <4> QED BY <1>6, <1>16, <3>3, <4>1
      <3> QED BY <1>3, <3>1, <3>2, <3>3
    <2>3. ASSUME NEW i \in DOMAIN lp, NEW d \in InUse', lp[i].t = context'[d].t
          PROVE  lp[i].seq # context'[d].seq
      <3>1. CASE d \in InUse BY <1>0, <1>13, <2>3, <3>1 DEF NumbersSound, NumbersApart
      <3>2. CASE d = b
        <4>1. lp[i].t = t /\ context'[d].seq = writeSeq[t] BY <1>8, <1>9, <2>3, <3>2
        <4>2. lp[i].seq < writeSeq[t] BY <1>0, <4>1 DEF NumbersSound, RingSound
        <4>3. lp[i].seq \in Nat BY Parts DEF Place
        <4> QED BY <1>6, <4>1, <4>2, <4>3
      <3> QED BY <1>3, <3>1, <3>2
    <2> QED BY <1>5, <2>1, <2>2, <2>3 DEF NumbersApart
  <1>20. ThreadsSound'
    <2>1. ASSUME NEW u \in Threads, u # t
          PROVE  LET d == curBlock'[u] IN
                    /\ pc'[u] \in {"forget", "forgetIdle", "put"} => d # None
                    /\ pc'[u] \in {"commit", "mark"} => d = None
                    /\ d # None /\ pc'[u] \notin {"new", "gone"} =>
                          /\ d \in InUse' /\ context'[d].t = u /\ ~context'[d].removed
                          /\ writeSeq'[u] = context'[d].seq + (IF pc'[u] = "forget" THEN 2 ELSE 1)
                    /\ u \in deleted' => pc'[u] = "gone"
                    /\ readSeq'[u] <= writeSeq'[u]
      <3>1. curBlock'[u] = curBlock[u] /\ pc'[u] = pc[u] /\ writeSeq'[u] = writeSeq[u]
        BY <1>6, <2>1
      <3>2. deleted' = deleted /\ readSeq' = readSeq BY <1>5 DEF ReaderStays
      <3>3. LET d == curBlock[u] IN
                /\ pc[u] \in {"forget", "forgetIdle", "put"} => d # None
                /\ pc[u] \in {"commit", "mark"} => d = None
                /\ d # None /\ pc[u] \notin {"new", "gone"} =>
                      /\ d \in InUse /\ context[d].t = u /\ ~context[d].removed
                      /\ writeSeq[u] = context[d].seq + (IF pc[u] = "forget" THEN 2 ELSE 1)
                /\ u \in deleted => pc[u] = "gone"
                /\ readSeq[u] <= writeSeq[u]
        BY <1>0 DEF NumbersSound, ThreadsSound
      <3> QED BY <1>3, <1>13, <3>1, <3>2, <3>3
    <2>2. LET d == curBlock'[t] IN
            /\ d # None /\ d \in InUse' /\ context'[d].t = t /\ ~context'[d].removed
            /\ writeSeq'[t] = context'[d].seq + 1
            /\ t \notin deleted' /\ readSeq'[t] <= writeSeq'[t]
      <3>1. readSeq[t] \in Nat BY <1>4 DEF ReaderTypes
      <3>2. b # None BY Constants
      <3>3. deleted' = deleted /\ readSeq' = readSeq BY <1>5 DEF ReaderStays
      <3>4. context'[b].t = t /\ ~context'[b].removed /\ context'[b].seq = writeSeq[t]
        BY <1>8, <1>9
      <3> QED BY <1>3, <1>6, <1>14, <3>1, <3>2, <3>3, <3>4
    <2> QED BY <1>6, <2>1, <2>2 DEF ThreadsSound
  <1>21. FreeSound'
    <2>1. SUFFICES ASSUME NEW d \in Blocks \ InUse'
                   PROVE  data'[d] = <<>> /\ \A u \in Threads : curBlock'[u] = d => context'[d].removed
      BY DEF FreeSound
    <2>2. d \notin InUse /\ d # b BY <1>3
    <2>3. data[d] = <<>> /\ \A u \in Threads : curBlock[u] = d => context[d].removed
      BY <1>0, <2>2 DEF NumbersSound, FreeSound
    <2>4. \A u \in Threads : curBlock'[u] = d => curBlock[u] = d BY <1>6, <2>2
    <2> QED BY <1>9, <1>10, <2>2, <2>3, <2>4
  <1>22. reader.curBlock # None => reader.curBlock \in InUse BY <1>0, WayTypes
  <1>23. BlockAsSeen'
    <2>1. reader.marked => reader.curBlock # None BY BatchBlock
    <2>2. reader' = reader /\ rpc' = rpc /\ readSeq' = readSeq BY <1>5 DEF ReaderStays
    <2>3. RingHasNext' <=> RingHasNext BY <1>5, <2>2 DEF RingHasNext, Verified
    <2>4. BlockAsSeen BY <1>0 DEF NumbersSound
    <2>5. reader.curBlock # None => /\ context'[reader.curBlock] = context[reader.curBlock]
                                    /\ data'[reader.curBlock] = data[reader.curBlock]
      BY <1>13, <1>22
    <2> QED BY <1>5, <2>1, <2>2, <2>3, <2>4, <2>5 DEF BlockAsSeen
  <1>24. HoldsStays
    <2>1. SUFFICES ASSUME NEW u \in Threads, NEW s \in Nat, NEW n \in Nat
                   PROVE  Holds(u, s, n)' <=> Holds(u, s, n)
      BY DEF HoldsStays
    <2>2. InRing(u, s, n)' <=> InRing(u, s, n) BY <1>5 DEF InRing
    <2>3. ~ \E k \in DOMAIN data'[b] : data'[b][k] = n BY <1>10
    <2>4. InBlock(u, s, n)' <=> InBlock(u, s, n) BY <1>3, <1>13, <2>3 DEF InBlock
    <2> QED BY <2>2, <2>4 DEF Holds
  <1>25. RecordsInOrder'
    <2>1. \A u \in Threads, s1, s2, n1, n2 \in Nat :
             Holds(u, s1, n1)' /\ Holds(u, s2, n2)' /\ s1 < s2 => n1 < n2
      BY <1>0, <1>24 DEF RecordsSound, RecordsInOrder, HoldsStays
    <2>2. \A d \in InUse' : \A j, k \in DOMAIN data'[d] : j < k => data'[d][j] < data'[d][k]
      <3>1. \A d \in InUse : \A j, k \in DOMAIN data[d] : j < k => data[d][j] < data[d][k]
        BY <1>0 DEF RecordsSound, RecordsInOrder
      <3>2. DOMAIN data'[b] = {} BY <1>10
      <3> QED BY <1>3, <1>13, <3>1, <3>2
    <2> QED BY <2>1, <2>2 DEF RecordsInOrder
  <1>26. \A u \in Threads : BeingRead(u)' <=> BeingRead(u)
    <2>1. Batching' <=> Batching BY <1>5 DEF Batching, ReaderStays
    <2>2. Batching => context'[reader.curBlock] = context[reader.curBlock] BY <1>13, BatchBlock
    <2> QED BY <1>5, <2>1, <2>2 DEF BeingRead, ReaderStays
  <1>27. RecordsInRange'
    BY <1>0, <1>5, <1>6, <1>24, <1>26 DEF RecordsSound, RecordsInRange, HoldsStays, ReaderStays
  <1>28. NoneMissing' BY <1>5, <1>24, NoneMissingStill DEF ReaderStays
  <1>29. Counts' BY <1>0, <1>5, <1>6 DEF RecordsSound, Counts, ReaderStays
  <1>30. InHand'
    <2>1. Batching => data'[reader.curBlock] = data[reader.curBlock]
                      /\ context'[reader.curBlock] = context[reader.curBlock]
      BY <1>13, BatchBlock
    <2> QED BY <1>0, <1>5, <2>1 DEF RecordsSound, InHand, Batching, ReaderStays
  <1>31. NumbersSound' BY <1>17, <1>18, <1>19, <1>20, <1>21, <1>23 DEF NumbersSound
  <1>32. RecordsSound' BY <1>25, <1>27, <1>28, <1>29, <1>30 DEF RecordsSound
  <1>33. lp' \in Seq(Place) BY <1>4, <1>5
  <1> QED BY <1>9, <1>11, <1>12, <1>31, <1>32, <1>33, Whole

\* Where a record lies there is a number its thread has taken and the reader has
\* not gone past.
LEMMA HeldPlaces ==
  ASSUME BufferInv, NEW t \in Threads, NEW s \in Nat, NEW n \in Nat, Holds(t, s, n)
  PROVE  s < writeSeq[t] /\ readSeq[t] <= s /\ t \notin deleted
  <1>1. NumbersSound BY DEF BufferInv
  <1>2. CASE InRing(t, s, n)
    BY <1>1, <1>2 DEF InRing, NumbersSound, RingSound
  <1>3. CASE InBlock(t, s, n)
    BY <1>1, <1>3 DEF InBlock, NumbersSound, BlocksSound
  <1> QED BY <1>2, <1>3 DEF Holds

\* One record is added behind all others of its thread.
LEMMA OrderWithOneMore ==
  ASSUME BufferInv, NEW t \in Threads, NEW m \in Nat, m < writeSeq'[t],
         pc[t] \notin {"forget", "commit"},
         \A s, n \in Nat : Holds(t, s, n) => s <= m,
         \A u \in Threads, s, n \in Nat :
            Holds(u, s, n)' => Holds(u, s, n) \/ (u = t /\ s = m /\ n = sent[t] + 1)
  PROVE  \A u \in Threads, s1, s2, n1, n2 \in Nat :
            Holds(u, s1, n1)' /\ Holds(u, s2, n2)' /\ s1 < s2 => n1 < n2
  <1>1. SUFFICES ASSUME NEW u \in Threads, NEW s1 \in Nat, NEW s2 \in Nat, NEW n1 \in Nat,
                        NEW n2 \in Nat, Holds(u, s1, n1)', Holds(u, s2, n2)', s1 < s2
                 PROVE  n1 < n2
    OBVIOUS
  <1>2. RecordsSound BY DEF BufferInv
  <1>3. sent[t] \in Nat BY Parts DEF ThreadTypes
  <1>4. CASE Holds(u, s1, n1) /\ Holds(u, s2, n2)
    BY <1>1, <1>2, <1>4 DEF RecordsSound, RecordsInOrder
  <1>5. CASE ~Holds(u, s1, n1)
    <2>1. u = t /\ s1 = m BY <1>1, <1>5
    <2>2. Holds(u, s2, n2) => s2 <= m BY <2>1
    <2> QED BY <1>1, <2>1, <2>2
  <1>6. CASE Holds(u, s1, n1) /\ ~Holds(u, s2, n2)
    <2>1. u = t /\ n2 = sent[t] + 1 BY <1>1, <1>6
    <2>2. n1 <= sent[t] BY <1>2, <1>6, <2>1 DEF RecordsSound, RecordsInRange
    <2> QED BY <1>3, <2>1, <2>2
  <1> QED BY <1>4, <1>5, <1>6

LEMMA PutInBlockKept ==
  ASSUME BufferInv, NEW t \in Threads, PutInBlock(t)
  PROVE  BufferInv'
  <1>0. TypeOK /\ ListsSound /\ ReaderOnItsWay /\ NumbersSound /\ RecordsSound BY DEF BufferInv
  <1>1. /\ pc[t] = "put" \/ (pc[t] = "hp" /\ curBlock[t] # None)
        /\ Len(data[curBlock[t]]) < BlockRoom
        /\ data' = [data EXCEPT ![curBlock[t]] = Append(@, sent[t] + 1)]
        /\ sent' = [sent EXCEPT ![t] = @ + 1] /\ Goto(t, "idle")
        /\ lp' = lp /\ ListsStay /\ ReaderStays /\ context' = context /\ curBlock' = curBlock
        /\ writeSeq' = writeSeq
    BY DEF PutInBlock, readerVars, ListsStay, ReaderStays
  <1>2. /\ lp \in Seq(Place) /\ context \in [Blocks -> ContextType] /\ DataTypes /\ ThreadTypes
        /\ ListTypes /\ InUse \subseteq Blocks /\ ReaderTypes
    BY Parts
  <1>3. OnItsWay' /\ InUse' = InUse /\ ReaderTypes' BY <1>1, ThreadsOnly
  <1>4. PICK b : b = curBlock[t] OBVIOUS
  <1>5. /\ b \in Blocks /\ b \in InUse /\ context[b].t = t /\ ~context[b].removed
        /\ writeSeq[t] = context[b].seq + 1
    <2>1. b # None BY <1>0, <1>1, <1>4 DEF NumbersSound, ThreadsSound
    <2>2. pc[t] \notin {"new", "gone", "forget"} BY <1>1
    <2>3. /\ b \in InUse /\ context[b].t = t /\ ~context[b].removed
          /\ writeSeq[t] = context[b].seq + 1
      BY <1>0, <1>4, <2>1, <2>2 DEF NumbersSound, ThreadsSound
    <2> QED BY <1>2, <2>3
  <1>6. sent[t] \in Nat /\ data[b] \in Seq(Nat) /\ Len(data[b]) \in Nat /\ context[b].seq \in Nat
    BY <1>2, <1>5 DEF ThreadTypes, DataTypes, ContextType
  <1>7. PICK m \in Nat : m = context[b].seq BY <1>6
  <1>8. PICK q : q = Append(data[b], sent[t] + 1) OBVIOUS
  <1>9. /\ q \in Seq(Nat) /\ Len(q) = Len(data[b]) + 1 /\ DOMAIN q = 1..(Len(data[b]) + 1)
        /\ DOMAIN data[b] = 1..Len(data[b])
        /\ q[Len(data[b]) + 1] = sent[t] + 1 /\ \A k \in 1..Len(data[b]) : q[k] = data[b][k]
    BY <1>6, <1>8
  <1>10. /\ data' \in [Blocks -> Seq(Nat)] /\ data'[b] = q
         /\ \A d \in Blocks \ {b} : data'[d] = data[d]
    BY <1>1, <1>2, <1>4, <1>5, <1>8, <1>9 DEF DataTypes
  <1>11. /\ pc'[t] = "idle" /\ sent'[t] = sent[t] + 1
         /\ \A u \in Threads \ {t} : pc'[u] = pc[u] /\ sent'[u] = sent[u]
    BY <1>1, <1>2, <1>6 DEF Goto, ThreadTypes
  <1>12. DataTypes' /\ ThreadTypes'
    <2>1. Len(q) <= BlockRoom BY <1>1, <1>4, <1>6, <1>9, Constants
    <2>2. DataTypes' BY <1>2, <1>10, <2>1 DEF DataTypes
    <2>3. pc' \in [Threads -> Points] /\ sent' \in [Threads -> Nat]
      BY <1>1, <1>2, <1>6 DEF ThreadTypes, Goto, Points
    <2> QED BY <1>1, <1>2, <2>2, <2>3 DEF ThreadTypes
  <1>13. \A i \in DOMAIN lp : lp[i].t \in Threads BY Parts DEF Place
  <1>14. \A d \in InUse : context[d].t \in Threads BY <1>0 DEF NumbersSound, BlocksSound
  <1>15. RingSound' BY <1>0, <1>1, <1>11, <1>13 DEF NumbersSound, RingSound, ReaderStays
  <1>16. BlocksSound'
    BY <1>0, <1>1, <1>3, <1>11, <1>14 DEF NumbersSound, BlocksSound, ReaderStays
  <1>17. NumbersApart' BY <1>0, <1>1, <1>3 DEF NumbersSound, NumbersApart
  <1>18. ThreadsSound'
    BY <1>0, <1>1, <1>3, <1>11 DEF NumbersSound, ThreadsSound, ReaderStays
  <1>19. FreeSound' BY <1>0, <1>1, <1>3, <1>5, <1>10 DEF NumbersSound, FreeSound
  <1>20. BlockAsSeen'
    <2>1. reader' = reader /\ rpc' = rpc /\ readSeq' = readSeq BY <1>1 DEF ReaderStays
    <2>2. RingHasNext' <=> RingHasNext BY <1>1, <2>1 DEF RingHasNext, Verified
    <2>3. BlockAsSeen BY <1>0 DEF NumbersSound
    <2>4. reader.marked => reader.curBlock \in Blocks /\ reader.curBlock # b
      BY <1>5, <2>3, BatchBlock DEF BlockAsSeen
    <2> QED BY <1>1, <1>10, <2>1, <2>2, <2>3, <2>4 DEF BlockAsSeen
  <1>21. \A u \in Threads, s, n \in Nat :
            Holds(u, s, n)' <=> Holds(u, s, n) \/ (u = t /\ s = m /\ n = sent[t] + 1)
    <2>1. SUFFICES ASSUME NEW u \in Threads, NEW s \in Nat, NEW n \in Nat
                   PROVE  Holds(u, s, n)' <=>
                            Holds(u, s, n) \/ (u = t /\ s = m /\ n = sent[t] + 1)
      OBVIOUS
    <2>2. InRing(u, s, n)' <=> InRing(u, s, n) BY <1>1 DEF InRing
    <2>3. (\E k \in DOMAIN q : q[k] = n) <=>
            (\E k \in DOMAIN data[b] : data[b][k] = n) \/ n = sent[t] + 1
      <3>1. \A k \in 1..(Len(data[b]) + 1) : k \in 1..Len(data[b]) \/ k = Len(data[b]) + 1
        BY <1>6
      <3>2. \A k \in 1..Len(data[b]) : k \in 1..(Len(data[b]) + 1) BY <1>6
      <3>3. Len(data[b]) + 1 \in 1..(Len(data[b]) + 1) BY <1>6
      <3> QED BY <1>9, <3>1, <3>2, <3>3
    <2>4. InBlock(u, s, n)' <=> InBlock(u, s, n) \/ (u = t /\ s = m /\ n = sent[t] + 1)
      <3>1. ASSUME InBlock(u, s, n)'
            PROVE  InBlock(u, s, n) \/ (u = t /\ s = m /\ n = sent[t] + 1)
        <4>1. PICK d \in InUse : /\ context[d].t = u /\ context[d].seq = s
                                 /\ \E k \in DOMAIN data'[d] : data'[d][k] = n
          BY <1>1, <1>3, <3>1 DEF InBlock
        <4>2. CASE d = b BY <1>5, <1>7, <1>10, <2>3, <4>1, <4>2 DEF InBlock
        <4>3. CASE d # b BY <1>2, <1>10, <4>1, <4>3 DEF InBlock
        <4> QED BY <4>2, <4>3
      <3>2. ASSUME InBlock(u, s, n) PROVE InBlock(u, s, n)'
        <4>1. PICK d \in InUse : /\ context[d].t = u /\ context[d].seq = s
                                 /\ \E k \in DOMAIN data[d] : data[d][k] = n
          BY <3>2 DEF InBlock
        <4>2. \E k \in DOMAIN data'[d] : data'[d][k] = n
          <5>1. CASE d = b BY <1>10, <2>3, <4>1, <5>1
          <5>2. CASE d # b BY <1>2, <1>10, <4>1, <5>2
          <5> QED BY <5>1, <5>2
        <4> QED BY <1>1, <1>3, <4>1, <4>2 DEF InBlock
      <3>3. ASSUME u = t, s = m, n = sent[t] + 1 PROVE InBlock(u, s, n)'
        <4>1. \E k \in DOMAIN data'[b] : data'[b][k] = n BY <1>10, <2>3, <3>3
        <4> QED BY <1>1, <1>3, <1>5, <1>7, <3>3, <4>1 DEF InBlock
      <3> QED BY <3>1, <3>2, <3>3
    <2> QED BY <2>2, <2>4 DEF Holds
  <1>22. pc[t] \notin {"forget", "commit"} /\ m < writeSeq'[t] /\ \A s, n \in Nat : Holds(t, s, n) => s <= m
    <2>1. writeSeq[t] = m + 1 /\ writeSeq' = writeSeq BY <1>1, <1>5, <1>7
    <2>2. ASSUME NEW s \in Nat, NEW n \in Nat, Holds(t, s, n) PROVE s <= m
      <3>1. s < writeSeq[t] BY <2>2, HeldPlaces
      <3> QED BY <2>1, <3>1
    <2>3. m < writeSeq'[t] BY <2>1
    <2> QED BY <1>1, <2>2, <2>3
  <1>23. RecordsInOrder'
    <2>1. \A u \in Threads, s1, s2, n1, n2 \in Nat :
             Holds(u, s1, n1)' /\ Holds(u, s2, n2)' /\ s1 < s2 => n1 < n2
      BY <1>21, <1>22, OrderWithOneMore
    <2>2. ASSUME NEW d \in InUse, NEW j \in DOMAIN data'[d], NEW k \in DOMAIN data'[d], j < k
          PROVE  data'[d][j] < data'[d][k]
      <3>1. CASE d # b
        <4>1. data'[d] = data[d] BY <1>2, <1>10, <3>1
        <4> QED BY <1>0, <2>2, <4>1 DEF RecordsSound, RecordsInOrder
      <3>2. CASE d = b
        <4>1. j \in 1..(Len(data[b]) + 1) /\ k \in 1..(Len(data[b]) + 1) /\ data'[d] = q
          BY <1>9, <1>10, <3>2
        <4>2. j \in 1..Len(data[b]) BY <1>6, <2>2, <4>1
        <4>3. CASE k \in 1..Len(data[b])
          <5>1. data[b][j] < data[b][k]
            BY <1>0, <1>5, <1>9, <2>2, <4>2, <4>3 DEF RecordsSound, RecordsInOrder
          <5> QED BY <1>9, <4>1, <4>2, <4>3, <5>1
        <4>4. CASE k = Len(data[b]) + 1
          <5>1. data[b][j] \in Nat BY <1>6, <4>2
          <5>2. InBlock(t, m, data[b][j]) BY <1>5, <1>7, <1>9, <4>2 DEF InBlock
          <5>3. data[b][j] <= sent[t]
            BY <1>0, <1>22, <5>1, <5>2 DEF RecordsSound, RecordsInRange, Holds
          <5>4. data'[d][j] = data[b][j] BY <1>9, <4>1, <4>2
          <5>5. data'[d][k] = sent[t] + 1 BY <1>9, <4>1, <4>4
          <5> QED BY <1>6, <5>1, <5>3, <5>4, <5>5
        <4> QED BY <1>6, <4>1, <4>3, <4>4
      <3> QED BY <3>1, <3>2
    <2> QED BY <1>3, <2>1, <2>2 DEF RecordsInOrder
  <1>24. \A u \in Threads : BeingRead(u)' <=> BeingRead(u)
    BY <1>1 DEF BeingRead, Batching, ReaderStays
  <1>25. RecordsInRange'
    <2>1. SUFFICES ASSUME NEW u \in Threads, NEW s \in Nat, NEW n \in Nat, Holds(u, s, n)'
                   PROVE  /\ \/ n <= sent'[u]
                             \/ n = sent'[u] + 1 /\ s + 1 = writeSeq'[u] /\ pc'[u] \in {"forget", "commit"}
                          /\ n > read[u] \/ (s = readSeq[u] /\ BeingRead(u))
      BY <1>1, <1>24 DEF RecordsInRange, ReaderStays
    <2>2. CASE Holds(u, s, n)
      <3>1. /\ \/ n <= sent[u]
               \/ n = sent[u] + 1 /\ s + 1 = writeSeq[u] /\ pc[u] \in {"forget", "commit"}
            /\ n > read[u] \/ (s = readSeq[u] /\ BeingRead(u))
        BY <1>0, <2>2 DEF RecordsSound, RecordsInRange
      <3> QED BY <1>1, <1>6, <1>11, <1>22, <3>1
    <2>3. CASE u = t /\ s = m /\ n = sent[t] + 1
      <3>1. read[t] <= sent[t] /\ read[t] \in Nat
        BY <1>0, <1>2 DEF RecordsSound, Counts, ReaderTypes
      <3> QED BY <1>6, <1>11, <2>3, <3>1
    <2> QED BY <1>21, <2>1, <2>2, <2>3
  <1>26. NoneMissing'
    <2>1. SUFFICES ASSUME NEW u \in Threads, NEW n \in (read[u] + 1)..sent'[u]
                   PROVE  \E s \in Nat : Holds(u, s, n)'
      BY <1>1 DEF NoneMissing, ReaderStays
    <2>2. read[u] \in Nat /\ sent[u] \in Nat BY <1>2 DEF ReaderTypes, ThreadTypes
    <2>3. sent'[u] \in Nat BY <1>12 DEF ThreadTypes
    <2>4. n \in Nat BY <2>2, <2>3
    <2>5. CASE u = t /\ n = sent[t] + 1
      <3>1. Holds(u, m, n)' BY <1>21, <2>4, <2>5
      <3> QED BY <3>1
    <2>6. CASE ~(u = t /\ n = sent[t] + 1)
      <3>1. n \in (read[u] + 1)..sent[u] BY <1>6, <1>11, <2>1, <2>2, <2>3, <2>4, <2>6
      <3>2. PICK s \in Nat : Holds(u, s, n) BY <1>0, <3>1 DEF RecordsSound, NoneMissing
      <3>3. Holds(u, s, n)' BY <1>21, <2>4, <3>2
      <3> QED BY <3>3
    <2> QED BY <2>5, <2>6
  <1>27. Counts'
    <2>1. \A u \in Threads : read[u] \in Nat BY <1>2 DEF ReaderTypes
    <2> QED BY <1>0, <1>1, <1>6, <1>11, <2>1 DEF RecordsSound, Counts, ReaderStays
  <1>28. InHand'
    <2>1. Batching' <=> Batching BY <1>1 DEF Batching, ReaderStays
    <2>2. reader' = reader /\ rpc' = rpc /\ read' = read BY <1>1 DEF ReaderStays
    <2>3. ASSUME Batching
          PROVE  /\ reader.state = "hp" /\ reader.size \in 1..Len(data'[reader.curBlock])
                 /\ reader.batch < reader.size
                 /\ read[context[reader.curBlock].t] =
                        data'[reader.curBlock][reader.size - reader.batch]
      <3>1. PICK d \in Blocks : d = reader.curBlock BY <2>3, BatchBlock
      <3>2. /\ reader.state = "hp" /\ reader.size \in 1..Len(data[d])
            /\ reader.batch < reader.size
            /\ read[context[d].t] = data[d][reader.size - reader.batch]
        BY <1>0, <2>3, <3>1 DEF RecordsSound, InHand
      <3>3. CASE d # b BY <1>10, <3>1, <3>2, <3>3
      <3>4. CASE d = b
        <4>1. reader.size \in 1..Len(data[b]) /\ reader.batch \in Nat
          BY <3>2, <3>4, Parts DEF ReaderType
        <4>2. reader.size \in 1..Len(q) /\ reader.size - reader.batch \in 1..Len(data[b])
          <5>1. PICK z \in Nat, v \in Nat, k \in Nat :
                    z = Len(data[b]) /\ v = reader.batch /\ k = reader.size
            BY <1>6, <4>1
          <5>2. k \in 1..z /\ v < k BY <3>2, <4>1, <5>1
          <5>3. k \in 1..(z + 1) /\ k - v \in 1..z BY <5>2
          <5> QED BY <1>9, <5>1, <5>3
        <4> QED BY <1>9, <1>10, <3>1, <3>2, <3>4, <4>2
      <3> QED BY <3>3, <3>4
    <2> QED BY <1>0, <1>1, <2>1, <2>2, <2>3 DEF RecordsSound, InHand
  <1>29. NumbersSound' BY <1>15, <1>16, <1>17, <1>18, <1>19, <1>20 DEF NumbersSound
  <1>30. RecordsSound' BY <1>23, <1>25, <1>26, <1>27, <1>28 DEF RecordsSound
  <1> QED BY <1>1, <1>2, <1>3, <1>12, <1>29, <1>30, Whole

\* A place is taken in the ring, for a record or for the mark that the thread has
\* ended.
LEMMA PlaceTaken ==
  ASSUME BufferInv, NEW t \in Threads, NEW num \in Nat, NEW l \in {"commit", "forget", "mark"},
         lp' = Append(lp, [t |-> t, seq |-> writeSeq[t], num |-> num, done |-> FALSE]),
         TakeSeq(t), Goto(t, l),
         \/ /\ pc[t] = "lp" /\ num = sent[t] + 1
            /\ l = (IF curBlock[t] = None THEN "commit" ELSE "forget")
         \/ pc[t] = "idle" /\ num = 0 /\ l = "mark" /\ curBlock[t] = None,
         ListsStay, ReaderStays, context' = context, data' = data, curBlock' = curBlock,
         sent' = sent
  PROVE  BufferInv'
  <1>0. TypeOK /\ ListsSound /\ ReaderOnItsWay /\ NumbersSound /\ RecordsSound BY DEF BufferInv
  <1>1. /\ lp \in Seq(Place) /\ context \in [Blocks -> ContextType] /\ DataTypes /\ ThreadTypes
        /\ ListTypes /\ InUse \subseteq Blocks /\ ReaderTypes
        /\ Len(lp) \in Nat /\ DOMAIN lp = 1..Len(lp) /\ \A i \in 1..Len(lp) : lp[i] \in Place
    BY Parts
  <1>2. OnItsWay' /\ InUse' = InUse /\ ReaderTypes' BY ThreadsOnly
  <1>3. /\ pc'[t] = l /\ writeSeq'[t] = writeSeq[t] + 1 /\ writeSeq[t] \in Nat /\ sent[t] \in Nat
        /\ \A u \in Threads \ {t} : pc'[u] = pc[u] /\ writeSeq'[u] = writeSeq[u]
    BY <1>1 DEF Goto, TakeSeq, ThreadTypes
  <1>4. PICK e : e = [t |-> t, seq |-> writeSeq[t], num |-> num, done |-> FALSE] OBVIOUS
  <1>5. e \in Place /\ e.t = t /\ e.seq = writeSeq[t] /\ e.num = num /\ e.done = FALSE
    BY <1>3, <1>4 DEF Place
  <1>6. PICK z \in Nat : z = Len(lp) BY <1>1
  <1>7. /\ lp' \in Seq(Place) /\ DOMAIN lp' = 1..(z + 1) /\ lp'[z + 1] = e /\ Len(lp') = z + 1
        /\ \A i \in 1..z : lp'[i] = lp[i]
    BY <1>1, <1>4, <1>5, <1>6
  <1>8. DataTypes' /\ ThreadTypes'
    <2>1. writeSeq' \in [Threads -> Nat] BY <1>1 DEF ThreadTypes, TakeSeq
    <2>2. pc' \in [Threads -> Points] BY <1>1 DEF ThreadTypes, Goto, Points
    <2> QED BY <1>1, <2>1, <2>2 DEF ThreadTypes, DataTypes
  <1>9. \A i \in 1..z : lp[i].t \in Threads /\ lp[i].seq \in Nat BY <1>1, <1>6 DEF Place
  <1>10. \A d \in InUse : context[d].t \in Threads /\ context[d].seq \in Nat
    BY <1>0, <1>1 DEF NumbersSound, BlocksSound, ContextType
  <1>11. /\ t \notin deleted /\ readSeq[t] <= writeSeq[t]
         /\ pc[t] \notin {"forget", "commit", "mark", "gone", "new"}
    BY <1>0 DEF NumbersSound, ThreadsSound
  <1>12. \A i \in 1..(z + 1) : i \in 1..z \/ i = z + 1 OBVIOUS
  <1>13. \A i \in 1..z : LET p == lp[i] IN
            /\ p.t \notin deleted /\ readSeq[p.t] <= p.seq /\ p.seq < writeSeq[p.t]
            /\ ~p.done => pc[p.t] \in {"forget", "commit", "mark"} /\ p.seq + 1 = writeSeq[p.t]
            /\ p.num = 0 => pc[p.t] \in {"mark", "gone"} /\ p.seq + 1 = writeSeq[p.t]
            /\ p.num = 0 /\ p.done => pc[p.t] = "gone"
    BY <1>0, <1>1, <1>6 DEF NumbersSound, RingSound
  <1>14. RingSound'
    <2>1. SUFFICES ASSUME NEW i \in 1..(z + 1)
                   PROVE LET p == lp'[i] IN
                    /\ p.t \notin deleted /\ readSeq[p.t] <= p.seq /\ p.seq < writeSeq'[p.t]
                    /\ ~p.done => pc'[p.t] \in {"forget", "commit", "mark"} /\ p.seq + 1 = writeSeq'[p.t]
                    /\ p.num = 0 => pc'[p.t] \in {"mark", "gone"} /\ p.seq + 1 = writeSeq'[p.t]
                    /\ p.num = 0 /\ p.done => pc'[p.t] = "gone"
      BY <1>7 DEF RingSound, ReaderStays
    <2>2. CASE i \in 1..z
      <3>1. lp'[i] = lp[i] BY <1>7, <2>2
      <3> DEFINE p == lp[i]
      <3>2. /\ p.t \notin deleted /\ readSeq[p.t] <= p.seq /\ p.seq < writeSeq[p.t]
            /\ ~p.done => pc[p.t] \in {"forget", "commit", "mark"} /\ p.seq + 1 = writeSeq[p.t]
            /\ p.num = 0 => pc[p.t] \in {"mark", "gone"} /\ p.seq + 1 = writeSeq[p.t]
            /\ p.num = 0 /\ p.done => pc[p.t] = "gone"
        BY <1>13, <2>2
      <3>3. p.t \in Threads /\ p.seq \in Nat BY <1>9, <2>2
      <3> HIDE DEF p
      <3>4. /\ p.t \notin deleted /\ readSeq[p.t] <= p.seq /\ p.seq < writeSeq'[p.t]
            /\ ~p.done => pc'[p.t] \in {"forget", "commit", "mark"} /\ p.seq + 1 = writeSeq'[p.t]
            /\ p.num = 0 => pc'[p.t] \in {"mark", "gone"} /\ p.seq + 1 = writeSeq'[p.t]
            /\ p.num = 0 /\ p.done => pc'[p.t] = "gone"
        BY <1>3, <1>11, <3>2, <3>3
      <3> QED BY <3>1, <3>4 DEF p
    <2>3. CASE i = z + 1
      <3>1. l \in {"forget", "commit", "mark"} /\ (num = 0 => l = "mark") BY <1>3
      <3> QED BY <1>3, <1>5, <1>7, <1>11, <2>3, <3>1
    <2> QED BY <1>12, <2>2, <2>3
  <1>15. BlocksSound'
    <2>1. SUFFICES ASSUME NEW d \in InUse
          PROVE LET c == context[d] IN
                    /\ c.t \in Threads /\ c.t \notin deleted
                    /\ readSeq[c.t] <= c.seq /\ c.seq < writeSeq'[c.t]
                    /\ c.finished => c.removed /\ pc'[c.t] = "gone" /\ c.seq + 1 = writeSeq'[c.t]
      BY <1>2 DEF BlocksSound, ReaderStays
    <2> DEFINE c == context[d]
    <2>2. /\ c.t \in Threads /\ c.t \notin deleted
          /\ readSeq[c.t] <= c.seq /\ c.seq < writeSeq[c.t]
          /\ c.finished => c.removed /\ pc[c.t] = "gone" /\ c.seq + 1 = writeSeq[c.t]
      BY <1>0 DEF NumbersSound, BlocksSound
    <2>3. c.seq \in Nat BY <1>10
    <2> HIDE DEF c
    <2>4. /\ c.t \in Threads /\ c.t \notin deleted
          /\ readSeq[c.t] <= c.seq /\ c.seq < writeSeq'[c.t]
          /\ c.finished => c.removed /\ pc'[c.t] = "gone" /\ c.seq + 1 = writeSeq'[c.t]
      BY <1>3, <1>11, <2>2, <2>3
    <2> QED BY <2>4 DEF c
  <1>16. NumbersApart'
    <2>1. ASSUME NEW i \in 1..(z + 1), NEW j \in 1..(z + 1), lp'[i].t = lp'[j].t,
                 lp'[i].seq = lp'[j].seq
          PROVE  i = j
      <3>1. CASE i \in 1..z /\ j \in 1..z
        BY <1>0, <1>1, <1>6, <1>7, <2>1, <3>1 DEF NumbersSound, NumbersApart
      <3>2. CASE i = z + 1 /\ j \in 1..z
        <4>1. lp[j].t = t /\ lp[j].seq = writeSeq[t] BY <1>5, <1>7, <2>1, <3>2
        <4> QED BY <1>3, <1>13, <3>2, <4>1
      <3>3. CASE i \in 1..z /\ j = z + 1
        <4>1. lp[i].t = t /\ lp[i].seq = writeSeq[t] BY <1>5, <1>7, <2>1, <3>3
        <4> QED BY <1>3, <1>13, <3>3, <4>1
      <3> QED BY <1>12, <3>1, <3>2, <3>3
    <2>2. \A b, d \in InUse :
            context[b].t = context[d].t /\ context[b].seq = context[d].seq => b = d
      BY <1>0 DEF NumbersSound, NumbersApart
    <2>3. ASSUME NEW i \in 1..(z + 1), NEW d \in InUse, lp'[i].t = context[d].t
          PROVE  lp'[i].seq # context[d].seq
      <3>1. CASE i \in 1..z
        BY <1>0, <1>1, <1>6, <1>7, <2>3, <3>1 DEF NumbersSound, NumbersApart
      <3>2. CASE i = z + 1
        <4>1. context[d].t = t BY <1>5, <1>7, <2>3, <3>2
        <4>2. context[d].seq < writeSeq[t] BY <1>0, <4>1 DEF NumbersSound, BlocksSound
        <4> QED BY <1>3, <1>5, <1>7, <1>10, <3>2, <4>2
      <3> QED BY <1>12, <3>1, <3>2
    <2> QED BY <1>2, <1>7, <2>1, <2>2, <2>3 DEF NumbersApart
  <1>17. ThreadsSound'
    <2>1. ASSUME NEW u \in Threads, u # t
          PROVE  LET d == curBlock[u] IN
                    /\ pc'[u] \in {"forget", "forgetIdle", "put"} => d # None
                    /\ pc'[u] \in {"commit", "mark"} => d = None
                    /\ d # None /\ pc'[u] \notin {"new", "gone"} =>
                          /\ d \in InUse /\ context[d].t = u /\ ~context[d].removed
                          /\ writeSeq'[u] = context[d].seq + (IF pc'[u] = "forget" THEN 2 ELSE 1)
                    /\ u \in deleted => pc'[u] = "gone"
                    /\ readSeq[u] <= writeSeq'[u]
      BY <1>0, <1>3, <2>1 DEF NumbersSound, ThreadsSound
    <2>2. LET d == curBlock[t] IN
                    /\ pc'[t] \in {"forget", "forgetIdle", "put"} => d # None
                    /\ pc'[t] \in {"commit", "mark"} => d = None
                    /\ d # None /\ pc'[t] \notin {"new", "gone"} =>
                          /\ d \in InUse /\ context[d].t = t /\ ~context[d].removed
                          /\ writeSeq'[t] = context[d].seq + (IF pc'[t] = "forget" THEN 2 ELSE 1)
                    /\ t \in deleted => pc'[t] = "gone"
                    /\ readSeq[t] <= writeSeq'[t]
      <3> DEFINE d == curBlock[t]
      <3>1. d # None => /\ d \in InUse /\ context[d].t = t /\ ~context[d].removed
                        /\ writeSeq[t] = context[d].seq + 1
        BY <1>0, <1>11 DEF NumbersSound, ThreadsSound
      <3>2. d # None => l = "forget" OBVIOUS
      <3>3. d = None => l \in {"commit", "mark"} OBVIOUS
      <3>4. readSeq[t] \in Nat BY <1>1 DEF ReaderTypes
      <3>5. d # None => writeSeq'[t] = context[d].seq + 2 BY <1>3, <1>10, <3>1
      <3>6. readSeq[t] <= writeSeq'[t] BY <1>3, <1>11, <3>4
      <3> HIDE DEF d
      <3> QED BY <1>3, <1>11, <3>1, <3>2, <3>3, <3>5, <3>6 DEF d
    <2>3. deleted' = deleted /\ readSeq' = readSeq BY DEF ReaderStays
    <2> QED BY <1>2, <2>1, <2>2, <2>3 DEF ThreadsSound
  <1>18. FreeSound' BY <1>0, <1>2 DEF NumbersSound, FreeSound
  <1>19. lp # <<>> => Head(lp') = Head(lp) /\ lp' # <<>>
    <2>1. lp # <<>> => 1 \in 1..z /\ Head(lp) = lp[1] BY <1>1, <1>6
    <2>2. Head(lp') = lp'[1] /\ lp' # <<>> BY <1>7
    <2> QED BY <1>7, <2>1, <2>2
  <1>20. rpc = "ring" => lp # <<>> BY <1>0 DEF NumbersSound, BlockAsSeen, RingHasNext
  <1>21. BlockAsSeen'
    BY <1>0, <1>19, <1>20 DEF NumbersSound, BlockAsSeen, ReaderStays, RingHasNext, Verified
  <1>22. \A u \in Threads, s, n \in Nat :
            Holds(u, s, n)' <=>
                Holds(u, s, n) \/ (num # 0 /\ u = t /\ s = writeSeq[t] /\ n = num)
    <2>1. SUFFICES ASSUME NEW u \in Threads, NEW s \in Nat, NEW n \in Nat
                   PROVE  Holds(u, s, n)' <=>
                            Holds(u, s, n) \/ (num # 0 /\ u = t /\ s = writeSeq[t] /\ n = num)
      OBVIOUS
    <2>2. InBlock(u, s, n)' <=> InBlock(u, s, n) BY <1>2 DEF InBlock
    <2>3. InRing(u, s, n) =>  InRing(u, s, n)'
      <3>1. HAVE InRing(u, s, n)
      <3>2. PICK i \in 1..z : lp[i].t = u /\ lp[i].seq = s /\ lp[i].num = n /\ n # 0
        BY <1>1, <1>6, <3>1 DEF InRing
      <3>3. i \in 1..(z + 1) OBVIOUS
      <3> QED BY <1>7, <3>2, <3>3 DEF InRing
    <2>4. num # 0 /\ u = t /\ s = writeSeq[t] /\ n = num => InRing(u, s, n)'
      <3>1. z + 1 \in 1..(z + 1) OBVIOUS
      <3> QED BY <1>5, <1>7, <3>1 DEF InRing
    <2>5. InRing(u, s, n)' =>
            InRing(u, s, n) \/ (num # 0 /\ u = t /\ s = writeSeq[t] /\ n = num)
      <3>1. HAVE InRing(u, s, n)'
      <3>2. PICK i \in 1..(z + 1) : lp'[i].t = u /\ lp'[i].seq = s /\ lp'[i].num = n /\ n # 0
        BY <1>7, <3>1 DEF InRing
      <3>3. CASE i \in 1..z BY <1>1, <1>6, <1>7, <3>2, <3>3 DEF InRing
      <3>4. CASE i = z + 1 BY <1>5, <1>7, <3>2, <3>4
      <3> QED BY <1>12, <3>3, <3>4
    <2> QED BY <2>2, <2>3, <2>4, <2>5 DEF Holds
  <1>23. num # 0 => num = sent[t] + 1 /\ l \in {"forget", "commit"} OBVIOUS
  <1>24. RecordsInOrder'
    <2>1. \A s, n \in Nat : Holds(t, s, n) => s <= writeSeq[t]
      <3>1. SUFFICES ASSUME NEW s \in Nat, NEW n \in Nat, Holds(t, s, n) PROVE s <= writeSeq[t]
        OBVIOUS
      <3>2. s < writeSeq[t] BY <3>1, HeldPlaces
      <3> QED BY <1>3, <3>2
    <2>0. PICK m \in Nat : m = writeSeq[t] BY <1>3
    <2>2. m < writeSeq'[t] BY <1>3, <2>0
    <2>3. \A u \in Threads, s, n \in Nat :
            Holds(u, s, n)' => Holds(u, s, n) \/ (u = t /\ s = m /\ n = sent[t] + 1)
      BY <1>22, <1>23, <2>0
    <2>6. \A s, n \in Nat : Holds(t, s, n) => s <= m BY <2>0, <2>1
    <2>4. \A u \in Threads, s1, s2, n1, n2 \in Nat :
             Holds(u, s1, n1)' /\ Holds(u, s2, n2)' /\ s1 < s2 => n1 < n2
      BY <1>11, <2>2, <2>3, <2>6, OrderWithOneMore
    <2>5. \A d \in InUse' : \A j, k \in DOMAIN data'[d] : j < k => data'[d][j] < data'[d][k]
      BY <1>0, <1>2 DEF RecordsSound, RecordsInOrder
    <2> QED BY <2>4, <2>5 DEF RecordsInOrder
  <1>25. \A u \in Threads : BeingRead(u)' <=> BeingRead(u)
    BY <1>19, <1>20 DEF BeingRead, Batching, ReaderStays
  <1>26. RecordsInRange'
    <2>1. SUFFICES ASSUME NEW u \in Threads, NEW s \in Nat, NEW n \in Nat, Holds(u, s, n)'
                   PROVE  /\ \/ n <= sent[u]
                             \/ n = sent[u] + 1 /\ s + 1 = writeSeq'[u] /\ pc'[u] \in {"forget", "commit"}
                          /\ n > read[u] \/ (s = readSeq[u] /\ BeingRead(u))
      BY <1>25 DEF RecordsInRange, ReaderStays
    <2>2. CASE Holds(u, s, n)
      <3>1. /\ \/ n <= sent[u]
               \/ n = sent[u] + 1 /\ s + 1 = writeSeq[u] /\ pc[u] \in {"forget", "commit"}
            /\ n > read[u] \/ (s = readSeq[u] /\ BeingRead(u))
        BY <1>0, <2>2 DEF RecordsSound, RecordsInRange
      <3> QED BY <1>3, <1>11, <3>1
    <2>3. CASE num # 0 /\ u = t /\ s = writeSeq[t] /\ n = num
      <3>1. read[t] <= sent[t] /\ read[t] \in Nat
        BY <1>0, <1>1 DEF RecordsSound, Counts, ReaderTypes
      <3> QED BY <1>3, <1>23, <2>3, <3>1
    <2> QED BY <1>22, <2>1, <2>2, <2>3
  <1>27. NoneMissing'
    <2>1. SUFFICES ASSUME NEW u \in Threads, NEW n \in (read[u] + 1)..sent[u]
                   PROVE  \E s \in Nat : Holds(u, s, n)'
      BY DEF NoneMissing, ReaderStays
    <2>2. read[u] \in Nat /\ sent[u] \in Nat BY <1>1 DEF ReaderTypes, ThreadTypes
    <2>3. n \in Nat BY <2>2
    <2>4. PICK s \in Nat : Holds(u, s, n) BY <1>0, <2>1 DEF RecordsSound, NoneMissing
    <2>5. Holds(u, s, n)' BY <1>22, <2>3, <2>4
    <2> QED BY <2>5
  <1>28. Counts'
    <2>1. SUFFICES ASSUME NEW u \in Threads
          PROVE  /\ read[u] <= sent[u]
                 /\ pc'[u] \in {"lp", "hp", "new", "put", "commit", "forget"} => sent[u] < Rounds[u]
                 /\ pc'[u] \in {"forget", "commit"} =>
                     \E i \in DOMAIN lp' : /\ lp'[i].t = u /\ lp'[i].seq + 1 = writeSeq'[u]
                                           /\ lp'[i].num = sent[u] + 1 /\ ~lp'[i].done
      BY DEF Counts, ReaderStays
    <2>2. /\ read[u] <= sent[u]
          /\ pc[u] \in {"lp", "hp", "new", "put", "commit", "forget"} => sent[u] < Rounds[u]
          /\ pc[u] \in {"forget", "commit"} =>
                     \E i \in DOMAIN lp : /\ lp[i].t = u /\ lp[i].seq + 1 = writeSeq[u]
                                          /\ lp[i].num = sent[u] + 1 /\ ~lp[i].done
      BY <1>0 DEF RecordsSound, Counts
    <2>3. CASE u = t
      <3>1. z + 1 \in DOMAIN lp' BY <1>7
      <3>2. l \in {"forget", "commit"} => lp'[z + 1].num = sent[t] + 1 BY <1>5, <1>7
      <3>3. /\ lp'[z + 1].t = t /\ lp'[z + 1].seq + 1 = writeSeq'[t] /\ ~lp'[z + 1].done
        BY <1>3, <1>5, <1>7
      <3>4. l # "mark" => pc[t] = "lp" OBVIOUS
      <3> QED BY <1>3, <2>2, <2>3, <3>1, <3>2, <3>3, <3>4
    <2>4. CASE u # t
      <3>1. ASSUME pc[u] \in {"forget", "commit"}
            PROVE  \E i \in DOMAIN lp' : /\ lp'[i].t = u /\ lp'[i].seq + 1 = writeSeq'[u]
                                         /\ lp'[i].num = sent[u] + 1 /\ ~lp'[i].done
        <4>1. PICK i \in 1..z : /\ lp[i].t = u /\ lp[i].seq + 1 = writeSeq[u]
                                /\ lp[i].num = sent[u] + 1 /\ ~lp[i].done
          BY <1>1, <1>6, <2>2, <3>1
        <4>2. i \in 1..(z + 1) /\ writeSeq'[u] = writeSeq[u] BY <1>3, <2>4
        <4> QED BY <1>7, <4>1, <4>2
      <3> QED BY <1>3, <2>2, <2>4, <3>1
    <2> QED BY <2>3, <2>4
  <1>29. InHand' BY <1>0, <1>19, <1>20 DEF RecordsSound, InHand, Batching, ReaderStays
  <1>30. NumbersSound' BY <1>14, <1>15, <1>16, <1>17, <1>18, <1>21 DEF NumbersSound
  <1>31. RecordsSound' BY <1>24, <1>26, <1>27, <1>28, <1>29 DEF RecordsSound
  <1> QED BY <1>1, <1>2, <1>7, <1>8, <1>30, <1>31, Whole

LEMMA PlaceTakenKept ==
  ASSUME BufferInv, NEW t \in Threads, Reserve(t) \/ EndWithMark(t)
  PROVE  BufferInv'
  <1>1. sent[t] \in Nat BY Parts DEF ThreadTypes
  <1>2. CASE Reserve(t)
    <2>1. PICK l \in {"commit", "forget"} : l = IF curBlock[t] = None THEN "commit" ELSE "forget"
      OBVIOUS
    <2>2. PICK num \in Nat : num = sent[t] + 1 BY <1>1
    <2>3. /\ pc[t] = "lp" /\ TakeSeq(t) /\ Goto(t, l)
          /\ lp' = Append(lp, [t |-> t, seq |-> writeSeq[t], num |-> num, done |-> FALSE])
          /\ ListsStay /\ ReaderStays /\ context' = context /\ data' = data
          /\ curBlock' = curBlock /\ sent' = sent
      BY <1>2, <2>1, <2>2 DEF Reserve, blockVars, readerVars, ListsStay, ReaderStays
    <2> QED BY <2>1, <2>2, <2>3, PlaceTaken
  <1>3. CASE EndWithMark(t)
    <2>1. PICK l \in {"mark"} : l = "mark" OBVIOUS
    <2>2. PICK num \in Nat : num = 0 OBVIOUS
    <2>3. /\ pc[t] = "idle" /\ curBlock[t] = None /\ TakeSeq(t) /\ Goto(t, l)
          /\ lp' = Append(lp, [t |-> t, seq |-> writeSeq[t], num |-> num, done |-> FALSE])
          /\ ListsStay /\ ReaderStays /\ context' = context /\ data' = data
          /\ curBlock' = curBlock /\ sent' = sent
      BY <1>3, <2>1, <2>2 DEF EndWithMark, blockVars, readerVars, ListsStay, ReaderStays
    <2> QED BY <2>1, <2>2, <2>3, PlaceTaken
  <1> QED BY <1>2, <1>3

\* The place of a thread in the ring is committed: a record, or the mark.
LEMMA CommittedKept ==
  ASSUME BufferInv, NEW t \in Threads, CommitInRing(t) \/ CommitMark(t)
  PROVE  BufferInv'
  <1>0. TypeOK /\ ListsSound /\ ReaderOnItsWay /\ NumbersSound /\ RecordsSound BY DEF BufferInv
  <1>1. /\ lp \in Seq(Place) /\ context \in [Blocks -> ContextType] /\ DataTypes /\ ThreadTypes
        /\ ListTypes /\ InUse \subseteq Blocks /\ ReaderTypes
        /\ Len(lp) \in Nat /\ DOMAIN lp = 1..Len(lp) /\ \A i \in 1..Len(lp) : lp[i] \in Place
    BY Parts
  <1>2. /\ lp' = Committed(t) /\ ListsStay /\ ReaderStays /\ context' = context /\ data' = data
        /\ curBlock' = curBlock /\ writeSeq' = writeSeq
        /\ \/ pc[t] = "commit" /\ Goto(t, "idle") /\ sent' = [sent EXCEPT ![t] = @ + 1]
           \/ pc[t] = "mark" /\ Goto(t, "gone") /\ sent' = sent
    BY DEF CommitInRing, CommitMark, blockVars, readerVars, ListsStay, ReaderStays
  <1>3. OnItsWay' /\ InUse' = InUse /\ ReaderTypes' BY <1>2, ThreadsOnly
  <1>4. \A u \in Threads : sent[u] \in Nat /\ writeSeq[u] \in Nat /\ read[u] \in Nat
    BY <1>1 DEF ThreadTypes, ReaderTypes
  <1>5. /\ pc[t] = "commit" => pc'[t] = "idle" /\ sent'[t] = sent[t] + 1
        /\ pc[t] = "mark" => pc'[t] = "gone" /\ sent'[t] = sent[t]
        /\ \A u \in Threads \ {t} : pc'[u] = pc[u] /\ sent'[u] = sent[u]
        /\ pc' \in [Threads -> Points] /\ sent' \in [Threads -> Nat]
    <2>1. CASE pc[t] = "commit" /\ Goto(t, "idle") /\ sent' = [sent EXCEPT ![t] = @ + 1]
      <3>1. pc' = [pc EXCEPT ![t] = "idle"] BY <2>1 DEF Goto
      <3>2. sent' = [sent EXCEPT ![t] = sent[t] + 1] /\ sent[t] + 1 \in Nat BY <1>4, <2>1
      <3> QED BY <1>1, <2>1, <3>1, <3>2 DEF ThreadTypes, Points
    <2>2. CASE pc[t] = "mark" /\ Goto(t, "gone") /\ sent' = sent
      <3>1. pc' = [pc EXCEPT ![t] = "gone"] BY <2>2 DEF Goto
      <3> QED BY <1>1, <2>2, <3>1 DEF ThreadTypes, Points
    <2> QED BY <1>2, <2>1, <2>2
  <1>6. PICK z \in Nat : z = Len(lp) BY <1>1
  <1>7. /\ lp' \in Seq(Place) /\ Len(lp') = z /\ DOMAIN lp' = 1..z /\ DOMAIN lp = 1..z
        /\ \A i \in 1..z : /\ lp'[i].t = lp[i].t /\ lp'[i].seq = lp[i].seq
                           /\ lp'[i].num = lp[i].num
                           /\ lp'[i].done = (lp[i].done \/ lp[i].t = t)
    <2>1. /\ Committed(t) \in Seq(Place) /\ Len(Committed(t)) = z
          /\ \A i \in 1..z : /\ Committed(t)[i].t = lp[i].t /\ Committed(t)[i].seq = lp[i].seq
                             /\ Committed(t)[i].num = lp[i].num
                             /\ Committed(t)[i].done = (lp[i].done \/ lp[i].t = t)
      BY <1>1, <1>6, CommittedIs
    <2>2. lp' \in Seq(Place) /\ Len(lp') = z BY <1>2, <2>1
    <2>3. DOMAIN lp' = 1..z BY <2>2
    <2> QED BY <1>1, <1>2, <1>6, <2>1, <2>2, <2>3
  <1>8. DataTypes' /\ ThreadTypes' BY <1>1, <1>2, <1>5 DEF ThreadTypes, DataTypes
  <1>9. \A i \in 1..z : lp[i].t \in Threads /\ lp[i].done \in BOOLEAN BY <1>1, <1>6 DEF Place
  <1>10. \A d \in InUse : context[d].t \in Threads
    BY <1>0 DEF NumbersSound, BlocksSound
  <1>11. t \notin deleted /\ pc[t] \in {"commit", "mark"} /\ curBlock[t] = None
    BY <1>0, <1>2 DEF NumbersSound, ThreadsSound
  <1>12. RingSound'
    <2>1. SUFFICES ASSUME NEW i \in 1..z
                   PROVE LET p == lp'[i] IN
                    /\ p.t \notin deleted /\ readSeq[p.t] <= p.seq /\ p.seq < writeSeq[p.t]
                    /\ ~p.done => pc'[p.t] \in {"forget", "commit", "mark"} /\ p.seq + 1 = writeSeq[p.t]
                    /\ p.num = 0 => pc'[p.t] \in {"mark", "gone"} /\ p.seq + 1 = writeSeq[p.t]
                    /\ p.num = 0 /\ p.done => pc'[p.t] = "gone"
      BY <1>2, <1>7 DEF RingSound, ReaderStays
    <2>2. LET p == lp[i] IN
            /\ p.t \notin deleted /\ readSeq[p.t] <= p.seq /\ p.seq < writeSeq[p.t]
            /\ ~p.done => pc[p.t] \in {"forget", "commit", "mark"} /\ p.seq + 1 = writeSeq[p.t]
            /\ p.num = 0 => pc[p.t] \in {"mark", "gone"} /\ p.seq + 1 = writeSeq[p.t]
            /\ p.num = 0 /\ p.done => pc[p.t] = "gone"
      BY <1>0, <1>7 DEF NumbersSound, RingSound
    <2>3. /\ lp'[i].t = lp[i].t /\ lp'[i].seq = lp[i].seq /\ lp'[i].num = lp[i].num
          /\ lp'[i].done = (lp[i].done \/ lp[i].t = t) /\ lp[i].t \in Threads
      BY <1>7, <1>9
    <2>4. CASE lp[i].t = t BY <1>5, <1>11, <2>2, <2>3, <2>4
    <2>5. CASE lp[i].t # t BY <1>5, <2>2, <2>3, <2>5
    <2> QED BY <2>4, <2>5
  <1>13. BlocksSound'
    BY <1>0, <1>2, <1>3, <1>5, <1>10, <1>11 DEF NumbersSound, BlocksSound, ReaderStays
  <1>14. NumbersApart'
    <2>1. \A i, j \in 1..z : lp'[i].t = lp'[j].t /\ lp'[i].seq = lp'[j].seq => i = j
      BY <1>0, <1>7 DEF NumbersSound, NumbersApart
    <2>2. \A i \in 1..z, b \in InUse : lp'[i].t = context[b].t => lp'[i].seq # context[b].seq
      BY <1>0, <1>7 DEF NumbersSound, NumbersApart
    <2> QED BY <1>0, <1>2, <1>3, <1>7, <2>1, <2>2 DEF NumbersSound, NumbersApart
  <1>15. ThreadsSound'
    BY <1>0, <1>2, <1>3, <1>5, <1>11 DEF NumbersSound, ThreadsSound, ReaderStays
  <1>16. FreeSound' BY <1>0, <1>2, <1>3 DEF NumbersSound, FreeSound
  <1>17. lp # <<>> => /\ lp' # <<>> /\ Head(lp').t = Head(lp).t /\ Head(lp').seq = Head(lp).seq
                      /\ Head(lp').num = Head(lp).num /\ (Head(lp).done => Head(lp').done)
    <2>1. HAVE lp # <<>>
    <2>2. 1 \in 1..z /\ Head(lp) = lp[1] BY <1>1, <1>6, <2>1
    <2>3. lp' # <<>> /\ Head(lp') = lp'[1] BY <1>7, <2>2
    <2> QED BY <1>7, <2>2, <2>3
  <1>18. rpc = "ring" => lp # <<>> /\ RingHasNext
    BY <1>0 DEF NumbersSound, BlockAsSeen, RingHasNext
  <1>19. BlockAsSeen'
    <2>1. /\ reader' = reader /\ rpc' = rpc /\ readSeq' = readSeq BY <1>2 DEF ReaderStays
    <2>2. BlockAsSeen BY <1>0 DEF NumbersSound
    <2>3. rpc = "ring" => RingHasNext' BY <1>17, <1>18, <2>1 DEF RingHasNext, Verified
    <2>4. rpc = "ring" => reader.state = "lp" /\ Head(lp').num # 0 BY <1>17, <1>18, <2>2 DEF BlockAsSeen
    <2> QED BY <1>2, <2>1, <2>2, <2>3, <2>4 DEF BlockAsSeen
  <1>20. HoldsStays
    <2>1. SUFFICES ASSUME NEW u \in Threads, NEW s \in Nat, NEW n \in Nat
                   PROVE  Holds(u, s, n)' <=> Holds(u, s, n)
      BY DEF HoldsStays
    <2>2. InRing(u, s, n)' <=> InRing(u, s, n) BY <1>7 DEF InRing
    <2>3. InBlock(u, s, n)' <=> InBlock(u, s, n) BY <1>2, <1>3 DEF InBlock
    <2> QED BY <2>2, <2>3 DEF Holds
  <1>21. RecordsInOrder'
    BY <1>0, <1>2, <1>3, <1>20 DEF RecordsSound, RecordsInOrder, HoldsStays
  <1>22. \A u \in Threads : BeingRead(u)' <=> BeingRead(u)
    BY <1>2, <1>17, <1>18 DEF BeingRead, Batching, ReaderStays
  <1>23. RecordsInRange'
    <2>1. SUFFICES ASSUME NEW u \in Threads, NEW s \in Nat, NEW n \in Nat, Holds(u, s, n)
                   PROVE  /\ \/ n <= sent'[u]
                             \/ n = sent'[u] + 1 /\ s + 1 = writeSeq[u] /\ pc'[u] \in {"forget", "commit"}
                          /\ n > read[u] \/ (s = readSeq[u] /\ BeingRead(u))
      BY <1>2, <1>20, <1>22 DEF RecordsInRange, ReaderStays, HoldsStays
    <2>2. /\ \/ n <= sent[u]
             \/ n = sent[u] + 1 /\ s + 1 = writeSeq[u] /\ pc[u] \in {"forget", "commit"}
          /\ n > read[u] \/ (s = readSeq[u] /\ BeingRead(u))
      BY <1>0, <2>1 DEF RecordsSound, RecordsInRange
    <2> QED BY <1>4, <1>5, <1>11, <2>2
  <1>24. NoneMissing'
    <2>1. SUFFICES ASSUME NEW u \in Threads, NEW n \in (read[u] + 1)..sent'[u]
                   PROVE  \E s \in Nat : Holds(u, s, n)
      <3>1. SUFFICES ASSUME NEW u \in Threads, NEW n \in (read[u] + 1)..sent'[u]
                     PROVE  \E s \in Nat : Holds(u, s, n)'
        BY <1>2 DEF NoneMissing, ReaderStays
      <3>2. n \in Nat
        <4>1. read[u] \in Nat /\ sent'[u] \in Nat BY <1>4, <1>8 DEF ThreadTypes
        <4> QED BY <4>1
      <3> QED BY <1>20, <3>2 DEF HoldsStays
    <2>2. CASE n \in (read[u] + 1)..sent[u] BY <1>0, <2>2 DEF RecordsSound, NoneMissing
    <2>3. CASE n \notin (read[u] + 1)..sent[u]
      <3>1. u = t /\ pc[t] = "commit" /\ n = sent[t] + 1 BY <1>4, <1>5, <1>11, <2>1, <2>3
      <3>2. PICK i \in 1..z : lp[i].t = t /\ lp[i].num = sent[t] + 1
        BY <1>0, <1>7, <3>1 DEF RecordsSound, Counts
      <3>3. lp[i].seq \in Nat BY <1>1, <1>6 DEF Place
      <3>4. n # 0 BY <1>4, <3>1
      <3>5. InRing(u, lp[i].seq, n) BY <1>7, <3>1, <3>2, <3>4 DEF InRing
      <3> QED BY <3>3, <3>5 DEF Holds
    <2> QED BY <2>2, <2>3
  <1>25. Counts'
    <2>1. SUFFICES ASSUME NEW u \in Threads
          PROVE  /\ read[u] <= sent'[u]
                 /\ pc'[u] \in {"lp", "hp", "new", "put", "commit", "forget"} => sent'[u] < Rounds[u]
                 /\ pc'[u] \in {"forget", "commit"} =>
                     \E i \in DOMAIN lp' : /\ lp'[i].t = u /\ lp'[i].seq + 1 = writeSeq[u]
                                           /\ lp'[i].num = sent'[u] + 1 /\ ~lp'[i].done
      BY <1>2 DEF Counts, ReaderStays
    <2>2. /\ read[u] <= sent[u]
          /\ pc[u] \in {"lp", "hp", "new", "put", "commit", "forget"} => sent[u] < Rounds[u]
          /\ pc[u] \in {"forget", "commit"} =>
                     \E i \in DOMAIN lp : /\ lp[i].t = u /\ lp[i].seq + 1 = writeSeq[u]
                                          /\ lp[i].num = sent[u] + 1 /\ ~lp[i].done
      BY <1>0 DEF RecordsSound, Counts
    <2>3. CASE u = t BY <1>4, <1>5, <1>11, <2>2, <2>3
    <2>4. CASE u # t
      <3>1. pc'[u] = pc[u] /\ sent'[u] = sent[u] BY <1>5, <2>4
      <3>2. ASSUME pc[u] \in {"forget", "commit"}
            PROVE  \E i \in DOMAIN lp' : /\ lp'[i].t = u /\ lp'[i].seq + 1 = writeSeq[u]
                                         /\ lp'[i].num = sent[u] + 1 /\ ~lp'[i].done
        <4>1. PICK i \in 1..z : /\ lp[i].t = u /\ lp[i].seq + 1 = writeSeq[u]
                                /\ lp[i].num = sent[u] + 1 /\ ~lp[i].done
          BY <1>7, <2>2, <3>2
        <4> QED BY <1>7, <2>4, <4>1
      <3> QED BY <2>2, <3>1, <3>2
    <2> QED BY <2>3, <2>4
  <1>26. InHand' BY <1>0, <1>2, <1>17, <1>18 DEF RecordsSound, InHand, Batching, ReaderStays
  <1>27. NumbersSound' BY <1>12, <1>13, <1>14, <1>15, <1>16, <1>19 DEF NumbersSound
  <1>28. RecordsSound' BY <1>21, <1>23, <1>24, <1>25, <1>26 DEF RecordsSound
  <1> QED BY <1>1, <1>2, <1>3, <1>7, <1>8, <1>27, <1>28, Whole

\* What a thread does keeps the invariant.
LEMMA ThreadKept ==
  ASSUME BufferInv, NEW t \in Threads, Call(t) \/ Proceed(t) \/ End(t)
  PROVE  BufferInv'
  <1>1. CASE Call(t) \/ LpFull(t) BY <1>1, GoesOnKept
  <1>2. CASE BlockFull(t)
    <2>1. CASE AutoExpand BY <1>2, <2>1, BlockLeftKept
    <2>2. CASE ~AutoExpand BY <1>2, <2>2, GoesOnKept
    <2> QED BY <2>1, <2>2
  <1>3. CASE LeaveBlock(t) \/ ForgetBlock(t) BY <1>3, BlockLeftKept
  <1>4. CASE NewBlock(t) BY <1>4, NewBlockKept
  <1>5. CASE PutInBlock(t) BY <1>5, PutInBlockKept
  <1>6. CASE Reserve(t) \/ EndWithMark(t) BY <1>6, PlaceTakenKept
  <1>7. CASE CommitInRing(t) \/ CommitMark(t) BY <1>7, CommittedKept
  <1>8. CASE EndWithBlock(t) BY <1>8, EndWithBlockKept
  <1> QED BY <1>1, <1>2, <1>3, <1>4, <1>5, <1>6, <1>7, <1>8 DEF Proceed, End

-----------------------------------------------------------------------------
(***************************************************************************)
(* The invariant is kept: what the reader does without changing the        *)
(* places.                                                                 *)
(***************************************************************************)

\* What the reader leaves alone while it only looks.
PlacesStay == UNCHANGED <<lp, blockVars, threadVars, readSeq, deleted>>

LEMMA PlacesAre ==
  ASSUME PlacesStay
  PROVE  /\ lp' = lp /\ groups' = groups /\ free' = free /\ used' = used /\ stage' = stage
         /\ context' = context /\ data' = data /\ pc' = pc /\ curBlock' = curBlock
         /\ writeSeq' = writeSeq /\ sent' = sent /\ readSeq' = readSeq /\ deleted' = deleted
         /\ InUse' = InUse /\ HoldsStays
  <1>1. /\ lp' = lp /\ groups' = groups /\ free' = free /\ used' = used /\ stage' = stage
        /\ context' = context /\ data' = data /\ pc' = pc /\ curBlock' = curBlock
        /\ writeSeq' = writeSeq /\ sent' = sent /\ readSeq' = readSeq /\ deleted' = deleted
    BY DEF PlacesStay, blockVars, threadVars
  <1>2. InUse' = InUse BY <1>1 DEF InUse, Live
  <1>3. HoldsStays BY <1>1, <1>2, HoldsSame
  <1> QED BY <1>1, <1>2, <1>3

LEMMA ReaderLooks ==
  ASSUME BufferInv, PlacesStay, SamePlace(reader, reader'), StateSound(used, reader'),
         reader' \in ReaderType, rpc' \in {"idle", "round", "block", "ring", "empty"},
         read' \in [Threads -> Nat], BlockAsSeen', RecordsInRange', NoneMissing', Counts', InHand'
  PROVE  BufferInv'
  <1>0. NumbersSound /\ RecordsSound BY DEF BufferInv
  <1>1. /\ lp' = lp /\ groups' = groups /\ free' = free /\ used' = used /\ stage' = stage
        /\ context' = context /\ data' = data /\ pc' = pc /\ curBlock' = curBlock
        /\ writeSeq' = writeSeq /\ sent' = sent /\ readSeq' = readSeq /\ deleted' = deleted
    BY PlacesAre
  <1>2. InUse' = InUse /\ HoldsStays BY PlacesAre
  <1>3. /\ lp \in Seq(Place) /\ context \in [Blocks -> ContextType] /\ DataTypes /\ ThreadTypes
        /\ ReaderTypes /\ OnItsWay
    BY Parts
  <1>4. OnItsWay' BY <1>1, <1>3, SameListsOtherState
  <1>5. DataTypes' /\ ThreadTypes' BY <1>1, <1>3 DEF DataTypes, ThreadTypes
  <1>6. ReaderTypes' BY <1>1, <1>3 DEF ReaderTypes
  <1>7. RingSound' BY <1>0, <1>1 DEF NumbersSound, RingSound
  <1>8. BlocksSound' BY <1>0, <1>1, <1>2 DEF NumbersSound, BlocksSound
  <1>9. NumbersApart' BY <1>0, <1>1, <1>2 DEF NumbersSound, NumbersApart
  <1>10. ThreadsSound' BY <1>0, <1>1, <1>2 DEF NumbersSound, ThreadsSound
  <1>11. FreeSound' BY <1>0, <1>1, <1>2 DEF NumbersSound, FreeSound
  <1>12. RecordsInOrder' BY <1>0, <1>1, <1>2 DEF RecordsSound, RecordsInOrder, HoldsStays
  <1>13. NumbersSound' BY <1>7, <1>8, <1>9, <1>10, <1>11 DEF NumbersSound
  <1>14. RecordsSound' BY <1>12 DEF RecordsSound
  <1> QED BY <1>1, <1>3, <1>4, <1>5, <1>6, <1>13, <1>14, Whole

\* Nothing is handed out.
LEMMA ReaderQuiet ==
  ASSUME BufferInv, PlacesStay, SamePlace(reader, reader'), StateSound(used, reader'),
         reader' \in ReaderType, rpc' \in {"idle", "round", "empty"},
         read' = read, reader.batch = 0, reader'.batch = 0, rpc \in {"idle", "round", "empty"},
         reader.marked /\ reader'.state = "nextBlock" => data[reader.curBlock] = <<>>,
         reader.curBlock # None /\ (reader'.state \in {"hp", "completed"} \/ reader.marked) =>
            context[reader.curBlock].seq = readSeq[context[reader.curBlock].t]
  PROVE  BufferInv'
  <1>0. NumbersSound /\ RecordsSound BY DEF BufferInv
  <1>1. /\ lp' = lp /\ context' = context /\ data' = data /\ pc' = pc /\ curBlock' = curBlock
        /\ writeSeq' = writeSeq /\ sent' = sent /\ readSeq' = readSeq
    BY PlacesAre
  <1>2. HoldsStays BY PlacesAre
  <1>3. reader'.curBlock = reader.curBlock /\ reader'.marked = reader.marked BY DEF SamePlace
  <1>4. BlockAsSeen' BY <1>0, <1>1, <1>3 DEF NumbersSound, BlockAsSeen
  <1>5. \A u \in Threads : ~BeingRead(u) BY DEF BeingRead, Batching
  <1>6. RecordsInRange'
    BY <1>0, <1>1, <1>2, <1>5 DEF RecordsSound, RecordsInRange, HoldsStays
  <1>7. NoneMissing' BY <1>1, <1>2, NoneMissingStill
  <1>8. Counts' BY <1>0, <1>1 DEF RecordsSound, Counts
  <1>9. InHand' BY DEF InHand, Batching
  <1>10. read' \in [Threads -> Nat] BY Parts DEF ReaderTypes
  <1> QED BY <1>4, <1>6, <1>7, <1>8, <1>9, <1>10, ReaderLooks

LEMMA QuietKept ==
  ASSUME BufferInv,
         \/ BeginRound \/ LeaveRing \/ Complete \/ ReturnEmpty
         \/ ReadBlock /\ data[reader.curBlock] = <<>>
  PROVE  BufferInv'
  <1>0. NumbersSound /\ RecordsSound /\ StateSound(used, reader) /\ WaySound(groups, used, reader)
    BY DEF BufferInv, ReaderOnItsWay
  <1>1. reader \in ReaderType BY Parts
  <1>2. BlockAsSeen /\ InHand BY <1>0 DEF NumbersSound, RecordsSound
  <1>3. CASE BeginRound
    <2>1. /\ PlacesStay /\ rpc = "idle" /\ reader.batch = 0 /\ reader' = Refreshed(reader)
          /\ rpc' = "round" /\ read' = read
      BY <1>3 DEF BeginRound, PlacesStay
    <2>2. /\ reader' \in ReaderType /\ SamePlace(reader, reader') /\ SameBatch(reader, reader')
          /\ reader'.state = reader.state
      BY <1>1, <2>1, RefreshedIs
    <2>3. StateSound(used, reader') BY <1>0, <2>2 DEF StateSound, SamePlace, In
    <2> QED BY <1>2, <2>1, <2>2, <2>3, ReaderQuiet DEF SameBatch, BlockAsSeen
  <1>4. CASE LeaveRing
    <2>1. /\ PlacesStay /\ rpc = "round" /\ reader.state = "lp" /\ rpc' = rpc /\ read' = read
          /\ reader' = [reader EXCEPT !.state = "nextGroup"]
      BY <1>4 DEF LeaveRing, PlacesStay, State
    <2>2. /\ reader' \in ReaderType /\ SamePlace(reader, reader') /\ SameBatch(reader, reader')
          /\ reader'.state = "nextGroup"
      BY <1>1, <2>1 DEF ReaderType, SamePlace, SameBatch
    <2>3. reader.marked = FALSE
      <3>1. reader.marked \in BOOLEAN BY <1>1 DEF ReaderType
      <3> QED BY <1>0, <2>1, <3>1 DEF StateSound
    <2>4. StateSound(used, reader') BY <2>2, <2>3 DEF StateSound, SamePlace
    <2>5. reader.batch = 0 BY <1>2, <2>1 DEF InHand
    <2> QED BY <2>1, <2>2, <2>3, <2>4, <2>5, ReaderQuiet DEF SameBatch
  <1>5. CASE Complete
    <2>1. PICK s : s = IF reader.curBlock # None THEN "hp" ELSE "lp" OBVIOUS
    <2>2. /\ PlacesStay /\ rpc = "round" /\ reader.state = "completed" /\ rpc' = "empty"
          /\ read' = read /\ reader' = [reader EXCEPT !.state = s]
      BY <1>5, <2>1 DEF Complete, PlacesStay, State
    <2>3. /\ reader' \in ReaderType /\ SamePlace(reader, reader') /\ SameBatch(reader, reader')
          /\ reader'.state = s
      BY <1>1, <2>1, <2>2 DEF ReaderType, SamePlace, SameBatch
    <2>4. reader.curBlock # None => In(reader, reader.curBlock)
      BY <1>0, <2>2 DEF StateSound, WaySound
    <2>5. reader.curBlock = None => reader.curGroup = None
      BY <1>0, <2>2 DEF StateSound, In
    <2>6. reader.marked => reader.curBlock # None BY BatchBlock
    <2>7. StateSound(used, reader')
      BY <1>0, <2>1, <2>2, <2>3, <2>4, <2>5, <2>6 DEF StateSound, SamePlace, In
    <2>8. reader.batch = 0 BY <1>2, <2>2 DEF InHand
    <2>9. s # "nextBlock" /\ (s \in {"hp", "completed"} => s = "hp") BY <2>1
    <2>10. reader.curBlock # None =>
             context[reader.curBlock].seq = readSeq[context[reader.curBlock].t]
      BY <1>2, <2>2 DEF BlockAsSeen
    <2>11. reader'.batch = 0 BY <2>3, <2>8 DEF SameBatch
    <2> QED BY <2>2, <2>3, <2>7, <2>8, <2>9, <2>10, <2>11, ReaderQuiet
  <1>6. CASE ReturnEmpty
    <2>1. /\ PlacesStay /\ rpc = "empty" /\ rpc' = "idle" /\ read' = read /\ reader' = reader
      BY <1>6 DEF ReturnEmpty, PlacesStay
    <2>2. reader.batch = 0 BY <1>2, <2>1 DEF InHand
    <2>3. SamePlace(reader, reader') BY <2>1 DEF SamePlace
    <2> QED BY <1>0, <1>1, <1>2, <2>1, <2>2, <2>3, ReaderQuiet DEF BlockAsSeen
  <1>7. CASE ReadBlock /\ data[reader.curBlock] = <<>>
    <2>1. /\ PlacesStay /\ rpc = "round" /\ reader.state = "hp" /\ rpc' = rpc /\ read' = read
          /\ reader' = [reader EXCEPT !.state = "nextBlock"]
      BY <1>7 DEF ReadBlock, PlacesStay, State
    <2>2. /\ reader' \in ReaderType /\ SamePlace(reader, reader') /\ SameBatch(reader, reader')
          /\ reader'.state = "nextBlock"
      BY <1>1, <2>1 DEF ReaderType, SamePlace, SameBatch
    <2>3. In(reader, reader.curBlock) BY <1>0, <2>1 DEF StateSound
    <2>4. reader.curGroup # None BY <1>0, <2>3 DEF WaySound, In
    <2>5. StateSound(used, reader')
      BY <1>0, <2>1, <2>2, <2>3, <2>4 DEF StateSound, SamePlace, In
    <2>6. reader.batch = 0 BY <1>2, <2>1 DEF InHand
    <2>7. reader'.batch = 0 BY <2>2, <2>6 DEF SameBatch
    <2>8. reader.curBlock # None =>
             context[reader.curBlock].seq = readSeq[context[reader.curBlock].t]
      BY <1>2, <2>1 DEF BlockAsSeen
    <2> QED BY <1>7, <2>1, <2>2, <2>5, <2>6, <2>7, <2>8, ReaderQuiet
  <1> QED BY <1>3, <1>4, <1>5, <1>6, <1>7

-----------------------------------------------------------------------------
(***************************************************************************)
(* The invariant is kept: what the reader is handed.                       *)
(***************************************************************************)

\* Whatever lies in a place that is committed has been sent.
LEMMA CommittedRecords ==
  ASSUME BufferInv, NEW t \in Threads, NEW s \in Nat, NEW m \in Nat, Holds(t, s, m),
         \A i \in DOMAIN lp : lp[i].t = t /\ lp[i].seq = s => lp[i].done
  PROVE  m <= sent[t]
  <1>1. RecordsInRange /\ Counts BY DEF BufferInv, RecordsSound
  <1>2. SUFFICES ASSUME s + 1 = writeSeq[t], pc[t] \in {"forget", "commit"} PROVE FALSE
    BY <1>1 DEF RecordsInRange
  <1>3. PICK i \in DOMAIN lp : lp[i].t = t /\ lp[i].seq + 1 = writeSeq[t] /\ ~lp[i].done
    BY <1>1, <1>2 DEF Counts
  <1>4. lp[i].seq \in Nat BY Parts DEF Place
  <1>5. lp[i].seq = s BY <1>2, <1>3, <1>4
  <1> QED BY <1>3, <1>5

\* The least record not read yet of the place whose turn it is, is the next one.
LEMMA NextRecord ==
  ASSUME BufferInv, NEW t \in Threads, NEW m \in Nat, Holds(t, readSeq[t], m),
         m > read[t], m <= sent[t],
         \A n \in Nat : Holds(t, readSeq[t], n) /\ n > read[t] => m <= n
  PROVE  m = read[t] + 1
  <1>1. read[t] \in Nat /\ sent[t] \in Nat /\ readSeq[t] \in Nat
    BY Parts DEF ReaderTypes, ThreadTypes
  <1>2. PICK k \in Nat : k = read[t] + 1 BY <1>1
  <1>3. k \in (read[t] + 1)..sent[t] BY <1>1, <1>2
  <1>4. PICK s \in Nat : Holds(t, s, k)
    BY <1>3 DEF BufferInv, RecordsSound, NoneMissing
  <1>5. readSeq[t] <= s BY <1>4, HeldPlaces
  <1>6. CASE s = readSeq[t] BY <1>1, <1>2, <1>4, <1>6
  <1>7. CASE readSeq[t] < s
    <2>1. m < k BY <1>1, <1>4, <1>7 DEF BufferInv, RecordsSound, RecordsInOrder
    <2> QED BY <1>1, <1>2, <2>1
  <1> QED BY <1>1, <1>5, <1>6, <1>7

\* It is handed out.
LEMMA AfterHandOut ==
  ASSUME BufferInv, PlacesStay, NEW t \in Threads, NEW m \in Nat, m = read[t] + 1, m <= sent[t],
         read' = [read EXCEPT ![t] = m], Holds(t, readSeq[t], m), BeingRead(t)',
         \A u \in Threads \ {t} : ~BeingRead(u)
  PROVE  RecordsInRange' /\ NoneMissing' /\ Counts' /\ read' \in [Threads -> Nat]
  <1>0. RecordsInRange /\ NoneMissing /\ Counts BY DEF BufferInv, RecordsSound
  <1>1. /\ lp' = lp /\ sent' = sent /\ writeSeq' = writeSeq /\ readSeq' = readSeq /\ pc' = pc
        /\ HoldsStays
    BY PlacesAre
  <1>2. /\ read \in [Threads -> Nat]
        /\ \A u \in Threads : read[u] \in Nat /\ sent[u] \in Nat /\ readSeq[u] \in Nat
    BY Parts DEF ReaderTypes, ThreadTypes
  <1>3. read'[t] = m /\ \A u \in Threads \ {t} : read'[u] = read[u] BY <1>2
  <1>4. RecordsInRange'
    <2>1. SUFFICES ASSUME NEW u \in Threads, NEW s \in Nat, NEW n \in Nat, Holds(u, s, n)
                   PROVE  /\ \/ n <= sent[u]
                             \/ n = sent[u] + 1 /\ s + 1 = writeSeq[u] /\ pc[u] \in {"forget", "commit"}
                          /\ n > read'[u] \/ (s = readSeq[u] /\ BeingRead(u)')
      BY <1>1 DEF RecordsInRange, HoldsStays
    <2>2. /\ \/ n <= sent[u]
             \/ n = sent[u] + 1 /\ s + 1 = writeSeq[u] /\ pc[u] \in {"forget", "commit"}
          /\ n > read[u] \/ (s = readSeq[u] /\ BeingRead(u))
      BY <1>0, <2>1 DEF RecordsInRange
    <2>3. CASE u # t
      <3>1. n > read[u] /\ read'[u] = read[u] BY <1>3, <2>2, <2>3
      <3> QED BY <2>2, <3>1
    <2>4. CASE u = t
      <3>1. readSeq[t] <= s BY <2>1, <2>4, HeldPlaces
      <3>2. CASE s = readSeq[t] BY <2>2, <2>4, <3>2
      <3>3. CASE readSeq[t] < s
        <4>1. Holds(t, s, n) BY <2>1, <2>4
        <4>2. m < n BY <1>2, <3>3, <4>1 DEF BufferInv, RecordsSound, RecordsInOrder
        <4>3. n > read'[u] BY <1>3, <2>4, <4>2
        <4> QED BY <2>2, <4>3
      <3> QED BY <1>2, <3>1, <3>2, <3>3
    <2> QED BY <2>3, <2>4
  <1>5. NoneMissing'
    <2>1. SUFFICES ASSUME NEW u \in Threads, NEW n \in (read'[u] + 1)..sent[u]
                   PROVE  \E s \in Nat : Holds(u, s, n)'
      BY <1>1 DEF NoneMissing
    <2>2. read'[u] \in Nat /\ read[u] <= read'[u] BY <1>2, <1>3
    <2>3. n \in Nat /\ n \in (read[u] + 1)..sent[u] BY <1>2, <2>2
    <2>4. PICK s \in Nat : Holds(u, s, n) BY <1>0, <2>3 DEF NoneMissing
    <2> QED BY <1>1, <2>3, <2>4 DEF HoldsStays
  <1>6. Counts' BY <1>0, <1>1, <1>3 DEF Counts
  <1> QED BY <1>2, <1>4, <1>5, <1>6

\* What lies in the block whose turn it is.
LEMMA TurnOfBlock ==
  ASSUME BufferInv, NEW b \in InUse, NEW t \in Threads, t = context[b].t,
         context[b].seq = readSeq[t]
  PROVE  /\ \A n \in Nat : Holds(t, readSeq[t], n) <=> \E k \in DOMAIN data[b] : data[b][k] = n
         /\ \A i \in DOMAIN lp : lp[i].t = t => lp[i].seq # readSeq[t]
  <1>1. NumbersApart BY DEF BufferInv, NumbersSound
  <1>2. \A i \in DOMAIN lp : lp[i].t = t => lp[i].seq # readSeq[t] BY <1>1 DEF NumbersApart
  <1>3. \A d \in InUse : context[d].t = t /\ context[d].seq = readSeq[t] => d = b
    BY <1>1 DEF NumbersApart
  <1> QED BY <1>2, <1>3 DEF Holds, InRing, InBlock

\* The next of it.
LEMMA NextOfBlock ==
  ASSUME BufferInv, NEW b \in InUse, NEW t \in Threads, t = context[b].t,
         context[b].seq = readSeq[t], NEW k \in 1..Len(data[b]), data[b][k] > read[t],
         k = 1 \/ data[b][k - 1] = read[t]
  PROVE  /\ data[b][k] \in Nat /\ data[b][k] = read[t] + 1 /\ data[b][k] <= sent[t]
         /\ Holds(t, readSeq[t], data[b][k])
  <1>1. b \in Blocks /\ data[b] \in Seq(Nat) BY Parts DEF DataTypes
  <1>2. DOMAIN data[b] = 1..Len(data[b]) /\ Len(data[b]) \in Nat BY <1>1
  <1>3. PICK m \in Nat : m = data[b][k] BY <1>1
  <1>4. readSeq[t] \in Nat /\ read[t] \in Nat BY Parts DEF ReaderTypes
  <1>5. Holds(t, readSeq[t], m) BY <1>2, <1>3, TurnOfBlock
  <1>6. m <= sent[t] BY <1>4, <1>5, TurnOfBlock, CommittedRecords
  <1>7. ASSUME NEW n \in Nat, Holds(t, readSeq[t], n), n > read[t] PROVE m <= n
    <2>1. PICK j \in 1..Len(data[b]) : data[b][j] = n BY <1>2, <1>7, TurnOfBlock
    <2>2. \A i, j2 \in 1..Len(data[b]) : i < j2 => data[b][i] < data[b][j2]
      BY <1>2 DEF BufferInv, RecordsSound, RecordsInOrder
    <2>3. CASE k <= j
      <3>1. k = j \/ k < j BY <2>3, <1>2
      <3>2. CASE k = j BY <1>3, <2>1, <3>2
      <3>3. CASE k < j
        <4>1. data[b][k] < data[b][j] BY <2>2, <3>3
        <4> QED BY <1>3, <2>1, <4>1
      <3> QED BY <3>1, <3>2, <3>3
    <2>4. CASE j < k
      <3>1. k # 1 /\ k - 1 \in 1..Len(data[b]) /\ j <= k - 1 BY <1>2, <2>1, <2>4
      <3>2. data[b][k - 1] = read[t] BY <3>1
      <3>3. j = k - 1 \/ j < k - 1 BY <1>2, <3>1
      <3>4. n <= read[t]
        <4>1. CASE j = k - 1 BY <1>4, <2>1, <3>2, <4>1
        <4>2. CASE j < k - 1
          <5>1. data[b][j] < data[b][k - 1] BY <2>2, <3>1, <4>2
          <5> QED BY <1>4, <1>7, <2>1, <3>2, <5>1
        <4> QED BY <3>3, <4>1, <4>2
      <3> QED BY <1>4, <1>7, <3>4
    <2> QED BY <1>2, <2>3, <2>4
  <1>8. m = read[t] + 1 BY <1>3, <1>5, <1>6, <1>7, NextRecord
  <1> QED BY <1>3, <1>5, <1>6, <1>8

\* Whose record it is, and that it is the next one of its thread.
HandedOut == \E t \in Threads : read' = [read EXCEPT ![t] = @ + 1] /\ read[t] < sent[t]

LEMMA HandOutOfBlock ==
  ASSUME BufferInv, PlacesStay, NEW b \in InUse, b = reader.curBlock, NEW t \in Threads,
         t = context[b].t, reader.state = "hp", NEW k \in 1..Len(data[b]),
         data[b][k] > read[t], k = 1 \/ data[b][k - 1] = read[t],
         read' = [read EXCEPT ![t] = data[b][k]], rpc' = "block",
         reader' \in ReaderType, SamePlace(reader, reader'), reader'.state = "hp",
         reader'.size \in 1..Len(data[b]), reader'.batch < reader'.size,
         reader'.size - reader'.batch = k, \A u \in Threads \ {t} : ~BeingRead(u)
  PROVE  BufferInv' /\ HandedOut
  <1>0. BlockAsSeen /\ StateSound(used, reader)
    BY DEF BufferInv, NumbersSound, ReaderOnItsWay
  <1>1. /\ lp' = lp /\ context' = context /\ data' = data /\ readSeq' = readSeq
    BY PlacesAre
  <1>2. reader'.curBlock = b /\ reader'.marked = reader.marked BY DEF SamePlace
  <1>3. b # None /\ context[b].seq = readSeq[t] BY <1>0, BatchBlock DEF BlockAsSeen
  <1>4. PICK m \in Nat : m = data[b][k] BY <1>3, NextOfBlock
  <1>5. m = read[t] + 1 /\ m <= sent[t] /\ Holds(t, readSeq[t], m) BY <1>3, <1>4, NextOfBlock
  <1>6. BeingRead(t)' BY <1>1, <1>2 DEF BeingRead, Batching
  <1>7. RecordsInRange' /\ NoneMissing' /\ Counts' /\ read' \in [Threads -> Nat]
    BY <1>4, <1>5, <1>6, AfterHandOut
  <1>8. read'[t] = m BY <1>4, Parts DEF ReaderTypes
  <1>9. InHand' BY <1>1, <1>2, <1>4, <1>8 DEF InHand, Batching
  <1>10. BlockAsSeen' BY <1>0, <1>1, <1>2, <1>3 DEF BlockAsSeen
  <1>11. StateSound(used, reader') BY <1>0 DEF StateSound, SamePlace, In
  <1>12. BufferInv' BY <1>7, <1>9, <1>10, <1>11, ReaderLooks
  <1>13. read[t] < sent[t] /\ read' = [read EXCEPT ![t] = @ + 1]
    <2>1. read[t] \in Nat /\ sent[t] \in Nat BY Parts DEF ReaderTypes, ThreadTypes
    <2> QED BY <1>4, <1>5, <2>1
  <1> QED BY <1>12, <1>13 DEF HandedOut

LEMMA NextOfBatchKept ==
  ASSUME BufferInv, NextOfBatch
  PROVE  BufferInv' /\ HandedOut
  <1>0. InHand /\ BlocksSound BY DEF BufferInv, RecordsSound, NumbersSound
  <1>1. /\ PlacesStay /\ rpc = "idle" /\ reader.batch > 0 /\ rpc' = "block"
        /\ reader' = [reader EXCEPT !.batch = @ - 1]
    BY DEF NextOfBatch, PlacesStay
  <1>2. Batching /\ reader.state = "hp" BY <1>1, BatchBlock DEF Batching
  <1>3. PICK b \in InUse : b = reader.curBlock BY <1>2, BatchBlock
  <1>4. PICK t \in Threads : t = context[b].t BY <1>0 DEF BlocksSound
  <1>5. read' = [read EXCEPT ![t] = data[b][reader.size - reader.batch + 1]]
    BY <1>3, <1>4 DEF NextOfBatch
  <1>6. b \in Blocks /\ data[b] \in Seq(Nat) /\ reader \in ReaderType BY Parts DEF DataTypes
  <1>7. PICK z \in Nat, v \in Nat, w \in Nat : z = reader.size /\ v = reader.batch /\ w = Len(data[b])
    BY <1>6 DEF ReaderType
  <1>8. z \in 1..w /\ v < z /\ read[t] = data[b][z - v] /\ v > 0
    BY <1>0, <1>1, <1>2, <1>3, <1>4, <1>7 DEF InHand
  <1>9. PICK k \in Int : k = z - v + 1 OBVIOUS
  <1>10. k \in 1..w /\ k - 1 \in 1..w /\ k - 1 < k /\ k - 1 = z - v /\ z - (v - 1) = k
         /\ v - 1 \in Nat /\ v - 1 < z
    BY <1>8, <1>9
  <1>11. data[b][k - 1] < data[b][k]
    <2>1. DOMAIN data[b] = 1..w BY <1>6, <1>7
    <2> QED BY <1>10, <2>1 DEF BufferInv, RecordsSound, RecordsInOrder
  <1>12. data[b][k] > read[t] /\ data[b][k - 1] = read[t]
    <2>1. \A j \in 1..w : data[b][j] \in Nat BY <1>6, <1>7
    <2>2. data[b][k] \in Nat /\ data[b][k - 1] \in Nat BY <1>10, <2>1
    <2> QED BY <1>8, <1>10, <1>11, <2>2
  <1>13. read' = [read EXCEPT ![t] = data[b][k]] BY <1>5, <1>7, <1>9
  <1>14. PICK r \in ReaderType : r = reader BY <1>6
  <1>15. PICK y \in Nat : y = v - 1 BY <1>10
  <1>16. reader' = [r EXCEPT !.batch = y] BY <1>1, <1>7, <1>14, <1>15
  <1>17. /\ reader' \in ReaderType /\ SamePlace(r, reader') /\ reader'.state = r.state
         /\ reader'.size = r.size /\ reader'.batch = y
    BY <1>16 DEF ReaderType, SamePlace
  <1>18. \A u \in Threads \ {t} : ~BeingRead(u) BY <1>1, <1>3, <1>4 DEF BeingRead
  <1>19. /\ SamePlace(reader, reader') /\ reader'.state = "hp" /\ reader'.size \in 1..Len(data[b])
         /\ reader'.batch < reader'.size /\ reader'.size - reader'.batch = k
    BY <1>2, <1>7, <1>8, <1>10, <1>14, <1>15, <1>17
  <1>20. k \in 1..Len(data[b]) BY <1>7, <1>10
  <1> QED BY <1>1, <1>2, <1>3, <1>4, <1>12, <1>13, <1>17, <1>18, <1>19, <1>20, HandOutOfBlock

LEMMA BatchKept ==
  ASSUME BufferInv, ReadBlock, data[reader.curBlock] # <<>>
  PROVE  BufferInv' /\ HandedOut
  <1>0. InHand /\ BlocksSound /\ BlockAsSeen BY DEF BufferInv, RecordsSound, NumbersSound
  <1>1. /\ PlacesStay /\ rpc = "round" /\ reader.state = "hp" /\ rpc' = "block"
        /\ reader' = [reader EXCEPT !.size = Len(data[reader.curBlock]),
                                    !.batch = Len(data[reader.curBlock]) - 1]
        /\ read' = [read EXCEPT ![context[reader.curBlock].t] = Head(data[reader.curBlock])]
    BY DEF ReadBlock, PlacesStay
  <1>2. PICK b \in InUse : b = reader.curBlock BY <1>1, BatchBlock
  <1>3. PICK t \in Threads : t = context[b].t BY <1>0 DEF BlocksSound
  <1>4. b \in Blocks /\ data[b] \in Seq(Nat) /\ reader \in ReaderType BY Parts DEF DataTypes
  <1>5. PICK w \in Nat : w = Len(data[b]) BY <1>4
  <1>6. w > 0 /\ Head(data[b]) = data[b][1] /\ DOMAIN data[b] = 1..w
    BY <1>1, <1>2, <1>4, <1>5
  <1>7. \A u \in Threads : ~BeingRead(u) BY <1>0, <1>1 DEF BeingRead, Batching, InHand
  <1>8. data[b][1] > read[t]
    <2>1. PICK m \in Nat : m = data[b][1] BY <1>4, <1>6
    <2>2. readSeq[t] \in Nat BY Parts DEF ReaderTypes
    <2>3. context[b].seq = readSeq[t]
      BY <1>0, <1>1, <1>2, <1>3, BatchBlock DEF BlockAsSeen
    <2>4. Holds(t, readSeq[t], m) BY <1>3, <1>6, <2>1, <2>2, <2>3, TurnOfBlock
    <2> QED BY <1>7, <2>1, <2>2, <2>4 DEF BufferInv, RecordsSound, RecordsInRange
  <1>9. PICK r \in ReaderType : r = reader BY <1>4
  <1>10. PICK y \in Nat : y = w - 1 BY <1>6
  <1>11. reader' = [r EXCEPT !.size = w, !.batch = y] BY <1>1, <1>2, <1>5, <1>9, <1>10
  <1>12. /\ reader' \in ReaderType /\ SamePlace(r, reader') /\ reader'.state = r.state
         /\ reader'.size = w /\ reader'.batch = y
    BY <1>11 DEF ReaderType, SamePlace
  <1>13. PICK k : k = 1 OBVIOUS
  <1>14. /\ k \in 1..w /\ w \in 1..w /\ y < w /\ w - y = k BY <1>6, <1>10, <1>13
  <1>15. read' = [read EXCEPT ![t] = data[b][k]] BY <1>1, <1>2, <1>3, <1>6, <1>13
  <1>16. data[b][k] > read[t] BY <1>8, <1>13
  <1>17. /\ SamePlace(reader, reader') /\ reader'.state = "hp" /\ reader'.size \in 1..Len(data[b])
         /\ reader'.batch < reader'.size /\ reader'.size - reader'.batch = k
    BY <1>1, <1>5, <1>9, <1>12, <1>14
  <1>18. k \in 1..Len(data[b]) BY <1>5, <1>14
  <1> QED BY <1>1, <1>2, <1>3, <1>7, <1>12, <1>13, <1>15, <1>16, <1>17, <1>18, HandOutOfBlock

LEMMA ReadRingKept ==
  ASSUME BufferInv, ReadRing
  PROVE  BufferInv' /\ HandedOut
  <1>0. /\ RecordsInRange /\ InHand /\ BlockAsSeen /\ NumbersApart /\ StateSound(used, reader)
    BY DEF BufferInv, RecordsSound, NumbersSound, ReaderOnItsWay
  <1>1. /\ PlacesStay /\ rpc = "round" /\ reader.state = "lp" /\ RingHasNext
        /\ Head(lp).num # 0 /\ read' = [read EXCEPT ![Head(lp).t] = Head(lp).num]
        /\ rpc' = "ring" /\ reader' = reader
    BY DEF ReadRing, PlacesStay
  <1>2. /\ lp' = lp /\ context' = context /\ data' = data /\ readSeq' = readSeq
    BY <1>1, PlacesAre
  <1>3. lp \in Seq(Place) /\ lp # <<>> /\ DOMAIN lp = 1..Len(lp) /\ Len(lp) \in Nat
    BY <1>1, Parts DEF RingHasNext
  <1>4. 1 \in DOMAIN lp /\ Head(lp) = lp[1] BY <1>3
  <1>5. PICK e \in Place : e = lp[1] BY <1>3, <1>4
  <1>6. PICK t \in Threads, m \in Nat : t = e.t /\ m = e.num BY <1>5 DEF Place
  <1>7. e.done /\ e.seq = readSeq[t] /\ m # 0 /\ readSeq[t] \in Nat /\ read[t] \in Nat
    <2>1. readSeq[t] \in Nat /\ read[t] \in Nat BY Parts DEF ReaderTypes
    <2> QED BY <1>1, <1>4, <1>5, <1>6, <2>1 DEF RingHasNext, Verified
  <1>8. /\ lp[1].t = t /\ lp[1].seq = readSeq[t] /\ lp[1].num = m /\ lp[1].done
    BY <1>5, <1>6, <1>7
  <1>9. Holds(t, readSeq[t], m) BY <1>4, <1>7, <1>8 DEF Holds, InRing
  <1>10. \A u \in Threads : ~BeingRead(u) BY <1>0, <1>1 DEF BeingRead, Batching, InHand
  <1>11. m > read[t] BY <1>0, <1>7, <1>9, <1>10 DEF RecordsInRange
  <1>12. \A i \in DOMAIN lp : lp[i].t = t /\ lp[i].seq = readSeq[t] => i = 1
    BY <1>0, <1>4, <1>8 DEF NumbersApart
  <1>13. m <= sent[t] BY <1>7, <1>8, <1>9, <1>12, CommittedRecords
  <1>14. ASSUME NEW n \in Nat, Holds(t, readSeq[t], n) PROVE n = m
    <2>1. InRing(t, readSeq[t], n)
      BY <1>0, <1>4, <1>8, <1>14 DEF Holds, InBlock, NumbersApart
    <2> QED BY <1>8, <1>12, <2>1 DEF InRing
  <1>15. \A n \in Nat : Holds(t, readSeq[t], n) /\ n > read[t] => m <= n BY <1>14
  <1>16. m = read[t] + 1 BY <1>9, <1>11, <1>13, <1>15, NextRecord
  <1>17. read' = [read EXCEPT ![t] = m] BY <1>1, <1>4, <1>8
  <1>18. BeingRead(t)' BY <1>1, <1>2, <1>4, <1>8 DEF BeingRead
  <1>19. RecordsInRange' /\ NoneMissing' /\ Counts' /\ read' \in [Threads -> Nat]
    BY <1>1, <1>9, <1>10, <1>13, <1>16, <1>17, <1>18, AfterHandOut
  <1>20. InHand'
    <2>1. read'[t] = m BY <1>17, Parts DEF ReaderTypes
    <2>2. reader.batch = 0 BY <1>0, <1>1 DEF InHand
    <2> QED BY <1>1, <1>2, <1>4, <1>8, <2>1, <2>2 DEF InHand, Batching
  <1>21. BlockAsSeen'
    <2>1. RingHasNext' BY <1>1, <1>2 DEF RingHasNext, Verified
    <2> QED BY <1>0, <1>1, <1>2, <2>1 DEF BlockAsSeen
  <1>22. SamePlace(reader, reader') /\ reader' \in ReaderType BY <1>1, Parts DEF SamePlace
  <1>23. BufferInv' BY <1>0, <1>1, <1>19, <1>20, <1>21, <1>22, ReaderLooks
  <1>24. read[t] < sent[t] /\ read' = [read EXCEPT ![t] = @ + 1]
    <2>1. read[t] \in Nat /\ sent[t] \in Nat BY Parts DEF ReaderTypes, ThreadTypes
    <2> QED BY <1>13, <1>16, <1>17, <2>1
  <1> QED BY <1>23, <1>24 DEF HandedOut

-----------------------------------------------------------------------------
(***************************************************************************)
(* The invariant is kept: the reader is through with a place of the ring.  *)
(***************************************************************************)

\* The places but the one whose turn it is have later numbers, and when that one
\* says that the thread has ended there are no others.
LEMMA OtherPlaces ==
  ASSUME BufferInv, NEW t \in Threads, lp # <<>>, Head(lp).t = t, Head(lp).done,
         Head(lp).seq = readSeq[t]
  PROVE  /\ \A i \in DOMAIN lp : lp[i].t = t /\ i # 1 =>
                readSeq[t] + 1 <= lp[i].seq /\ Head(lp).num # 0
         /\ \A b \in InUse : context[b].t = t =>
                readSeq[t] + 1 <= context[b].seq /\ Head(lp).num # 0
         /\ readSeq[t] + 1 <= writeSeq[t] /\ (Head(lp).num = 0 => pc[t] = "gone")
  <1>0. RingSound /\ BlocksSound /\ NumbersApart BY DEF BufferInv, NumbersSound
  <1>1. /\ readSeq[t] \in Nat /\ writeSeq[t] \in Nat /\ lp \in Seq(Place)
        /\ DOMAIN lp = 1..Len(lp) /\ Len(lp) \in Nat
    BY Parts DEF ReaderTypes, ThreadTypes
  <1>2. 1 \in DOMAIN lp /\ Head(lp) = lp[1] BY <1>1
  <1>3. PICK e \in Place : e = lp[1] BY <1>1, <1>2
  <1>4. e.t = t /\ e.done /\ e.seq = readSeq[t] /\ Head(lp).num = e.num BY <1>2, <1>3
  <1>5. /\ e.seq < writeSeq[t] /\ (e.num = 0 => pc[t] = "gone" /\ e.seq + 1 = writeSeq[t])
    BY <1>0, <1>2, <1>3, <1>4 DEF RingSound
  <1>6. ASSUME NEW i \in DOMAIN lp, lp[i].t = t, i # 1
        PROVE  readSeq[t] + 1 <= lp[i].seq /\ e.num # 0
    <2>1. PICK s \in Nat : s = lp[i].seq BY Parts DEF Place
    <2>2. s # e.seq BY <1>0, <1>2, <1>3, <1>4, <1>6, <2>1 DEF NumbersApart
    <2>3. readSeq[t] <= s /\ s < writeSeq[t] BY <1>0, <1>6, <2>1 DEF RingSound
    <2> QED BY <1>1, <1>4, <1>5, <2>1, <2>2, <2>3
  <1>7. ASSUME NEW b \in InUse, context[b].t = t
        PROVE  readSeq[t] + 1 <= context[b].seq /\ e.num # 0
    <2>1. PICK s \in Nat : s = context[b].seq BY Parts DEF ContextType
    <2>2. s # e.seq BY <1>0, <1>2, <1>3, <1>4, <1>7, <2>1 DEF NumbersApart
    <2>3. readSeq[t] <= s /\ s < writeSeq[t] BY <1>0, <1>7, <2>1 DEF BlocksSound
    <2> QED BY <1>1, <1>4, <1>5, <2>1, <2>2, <2>3
  <1>8. readSeq[t] + 1 <= writeSeq[t] /\ (e.num = 0 => pc[t] = "gone") BY <1>1, <1>4, <1>5
  <1> QED BY <1>4, <1>6, <1>7, <1>8

LEMMA RingGivenBack ==
  ASSUME BufferInv, NEW t \in Threads, lp # <<>>, Head(lp).t = t, Head(lp).done,
         Head(lp).seq = readSeq[t], NEW finished \in BOOLEAN, finished <=> Head(lp).num = 0,
         Deregister(t, finished), lp' = Tail(lp), reader' = Refreshed(reader),
         reader.state = "lp", rpc \in {"round", "ring"}, rpc' \in {"round", "idle"},
         read' = read, Head(lp).num # 0 => read[t] = Head(lp).num,
         UNCHANGED <<blockVars, threadVars>>
  PROVE  BufferInv'
  <1>0. TypeOK /\ ListsSound /\ ReaderOnItsWay /\ NumbersSound /\ RecordsSound BY DEF BufferInv
  <1>1. /\ lp \in Seq(Place) /\ context \in [Blocks -> ContextType] /\ DataTypes /\ ThreadTypes
        /\ ReaderTypes /\ OnItsWay /\ Len(lp) \in Nat /\ DOMAIN lp = 1..Len(lp)
        /\ reader \in ReaderType
    BY Parts
  <1>2. /\ groups' = groups /\ free' = free /\ used' = used /\ stage' = stage
        /\ context' = context /\ data' = data /\ pc' = pc /\ curBlock' = curBlock
        /\ writeSeq' = writeSeq /\ sent' = sent
    BY DEF blockVars, threadVars
  <1>3. /\ reader' \in ReaderType /\ SamePlace(reader, reader') /\ SameBatch(reader, reader')
        /\ reader'.state = reader.state
    BY <1>1, RefreshedIs
  <1>4. OnItsWay' /\ InUse' = InUse BY <1>1, <1>2, <1>3, SameLists
  <1>5. /\ readSeq' \in [Threads -> Nat] /\ deleted' \subseteq Threads
        /\ deleted' = IF finished THEN deleted \cup {t} ELSE deleted
        /\ readSeq'[t] = IF finished THEN readSeq[t] ELSE readSeq[t] + 1
        /\ \A u \in Threads \ {t} : readSeq'[u] = readSeq[u]
    BY <1>1, DeregisterIs DEF ReaderTypes
  <1>6. \A u \in Threads : /\ readSeq[u] \in Nat /\ writeSeq[u] \in Nat /\ sent[u] \in Nat
                           /\ read[u] \in Nat
    BY <1>1 DEF ReaderTypes, ThreadTypes
  <1>7. PICK z \in Nat : z = Len(lp) BY <1>1
  <1>8. /\ z > 0 /\ lp' \in Seq(Place) /\ DOMAIN lp = 1..z /\ DOMAIN lp' = 1..(z - 1)
        /\ \A i \in 1..(z - 1) : i + 1 \in 1..z /\ i + 1 # 1 /\ lp'[i] = lp[i + 1]
    <2>1. lp # <<>> OBVIOUS
    <2> QED BY <1>1, <1>7, <2>1
  <1>9. \A i \in 1..z : i # 1 => i - 1 \in 1..(z - 1) /\ lp[i] = lp'[i - 1]
    <2>1. \A i \in 1..z : i # 1 => i - 1 \in 1..(z - 1) /\ (i - 1) + 1 = i OBVIOUS
    <2> QED BY <1>8, <2>1
  <1>10. Head(lp) = lp[1] /\ 1 \in 1..z BY <1>1, <1>7, <1>8
  <1>11. /\ \A i \in 1..z : lp[i].t = t /\ i # 1 => readSeq[t] + 1 <= lp[i].seq /\ ~finished
         /\ \A b \in InUse : context[b].t = t => readSeq[t] + 1 <= context[b].seq /\ ~finished
         /\ readSeq[t] + 1 <= writeSeq[t] /\ (finished => pc[t] = "gone")
    BY <1>8, OtherPlaces
  <1>12. DataTypes' /\ ThreadTypes' BY <1>1, <1>2 DEF DataTypes, ThreadTypes
  <1>13. ReaderTypes' BY <1>1, <1>3, <1>5 DEF ReaderTypes
  <1>14. \A i \in 1..z : lp[i].t \in Threads /\ lp[i].seq \in Nat
    BY <1>7, Parts DEF Place
  <1>15. RingSound'
    <2>1. SUFFICES ASSUME NEW i \in 1..(z - 1)
                   PROVE LET p == lp'[i] IN
                    /\ p.t \notin deleted' /\ readSeq'[p.t] <= p.seq /\ p.seq < writeSeq[p.t]
                    /\ ~p.done => pc[p.t] \in {"forget", "commit", "mark"} /\ p.seq + 1 = writeSeq[p.t]
                    /\ p.num = 0 => pc[p.t] \in {"mark", "gone"} /\ p.seq + 1 = writeSeq[p.t]
                    /\ p.num = 0 /\ p.done => pc[p.t] = "gone"
      BY <1>2, <1>8 DEF RingSound
    <2>2. PICK j \in 1..z : j = i + 1 /\ j # 1 /\ lp'[i] = lp[j] BY <1>8
    <2>3. LET p == lp[j] IN
            /\ p.t \notin deleted /\ readSeq[p.t] <= p.seq /\ p.seq < writeSeq[p.t]
            /\ ~p.done => pc[p.t] \in {"forget", "commit", "mark"} /\ p.seq + 1 = writeSeq[p.t]
            /\ p.num = 0 => pc[p.t] \in {"mark", "gone"} /\ p.seq + 1 = writeSeq[p.t]
            /\ p.num = 0 /\ p.done => pc[p.t] = "gone"
      BY <1>0, <1>8 DEF NumbersSound, RingSound
    <2>4. lp[j].t \notin deleted' /\ readSeq'[lp[j].t] <= lp[j].seq
      <3>1. CASE lp[j].t = t BY <1>5, <1>11, <2>2, <2>3, <3>1
      <3>2. CASE lp[j].t # t
        <4>1. lp[j].t \in Threads \ {t} BY <1>14, <3>2
        <4> QED BY <1>5, <2>3, <4>1
      <3> QED BY <3>1, <3>2
    <2> QED BY <2>2, <2>3, <2>4
  <1>16. BlocksSound'
    <2>1. SUFFICES ASSUME NEW d \in InUse
                   PROVE LET c == context[d] IN
                    /\ c.t \in Threads /\ c.t \notin deleted'
                    /\ readSeq'[c.t] <= c.seq /\ c.seq < writeSeq[c.t]
                    /\ c.finished => c.removed /\ pc[c.t] = "gone" /\ c.seq + 1 = writeSeq[c.t]
      BY <1>2, <1>4 DEF BlocksSound
    <2>2. LET c == context[d] IN
            /\ c.t \in Threads /\ c.t \notin deleted
            /\ readSeq[c.t] <= c.seq /\ c.seq < writeSeq[c.t]
            /\ c.finished => c.removed /\ pc[c.t] = "gone" /\ c.seq + 1 = writeSeq[c.t]
      BY <1>0 DEF NumbersSound, BlocksSound
    <2>3. context[d].t \notin deleted' /\ readSeq'[context[d].t] <= context[d].seq
      <3>1. CASE context[d].t = t BY <1>5, <1>11, <2>2, <3>1
      <3>2. CASE context[d].t # t
        <4>1. context[d].t \in Threads \ {t} BY <2>2, <3>2
        <4> QED BY <1>5, <2>2, <4>1
      <3> QED BY <3>1, <3>2
    <2> QED BY <2>2, <2>3
  <1>17. NumbersApart'
    <2>0. NumbersApart BY <1>0 DEF NumbersSound
    <2>1. ASSUME NEW i \in 1..(z - 1), NEW j \in 1..(z - 1), lp'[i].t = lp'[j].t,
                 lp'[i].seq = lp'[j].seq
          PROVE  i = j
      <3>1. PICK k \in 1..z, m \in 1..z : /\ k = i + 1 /\ m = j + 1
                                          /\ lp'[i] = lp[k] /\ lp'[j] = lp[m]
        BY <1>8
      <3>2. k = m BY <1>8, <2>0, <2>1, <3>1 DEF NumbersApart
      <3> QED BY <3>1, <3>2
    <2>2. \A i \in 1..(z - 1), b \in InUse : lp'[i].t = context[b].t => lp'[i].seq # context[b].seq
      BY <1>8, <2>0 DEF NumbersApart
    <2> QED BY <1>2, <1>4, <1>8, <2>0, <2>1, <2>2 DEF NumbersApart
  <1>18. ThreadsSound'
    <2>1. \A u \in Threads : readSeq'[u] <= writeSeq[u] /\ (u \in deleted' => pc[u] = "gone")
      <3>1. SUFFICES ASSUME NEW u \in Threads
                     PROVE  readSeq'[u] <= writeSeq[u] /\ (u \in deleted' => pc[u] = "gone")
        OBVIOUS
      <3>2. readSeq[u] <= writeSeq[u] /\ (u \in deleted => pc[u] = "gone")
        BY <1>0 DEF NumbersSound, ThreadsSound
      <3>3. CASE u = t BY <1>5, <1>6, <1>11, <3>2, <3>3
      <3>4. CASE u # t BY <1>5, <3>2, <3>4
      <3> QED BY <3>3, <3>4
    <2> QED BY <1>0, <1>2, <1>4, <2>1 DEF NumbersSound, ThreadsSound
  <1>19. FreeSound' BY <1>0, <1>2, <1>4 DEF NumbersSound, FreeSound
  <1>20. ~reader'.marked /\ reader'.state = "lp" /\ reader.batch = 0 /\ reader'.batch = 0
    <2>1. ~reader.marked BY <1>0 DEF ReaderOnItsWay, StateSound
    <2>2. reader.batch = 0 BY <1>0 DEF RecordsSound, InHand
    <2> QED BY <1>3, <2>1, <2>2 DEF SamePlace, SameBatch
  <1>21. BlockAsSeen' BY <1>20 DEF BlockAsSeen
  <1>22. ASSUME NEW u \in Threads, NEW s \in Nat, NEW n \in Nat
         PROVE  /\ Holds(u, s, n)' => Holds(u, s, n) /\ (u = t => s # readSeq[t])
                /\ Holds(u, s, n) => Holds(u, s, n)' \/ (u = t /\ n = read[t])
    <2>1. InBlock(u, s, n)' <=> InBlock(u, s, n) BY <1>2, <1>4 DEF InBlock
    <2>2. InBlock(u, s, n) => (u = t => s # readSeq[t])
      <3>1. HAVE InBlock(u, s, n)
      <3>2. HAVE u = t
      <3>3. PICK d \in InUse : context[d].t = t /\ context[d].seq = s BY <3>1, <3>2 DEF InBlock
      <3>4. readSeq[t] + 1 <= s BY <1>11, <3>3
      <3> QED BY <1>6, <3>4
    <2>3. InRing(u, s, n)' => InRing(u, s, n) /\ (u = t => s # readSeq[t])
      <3>1. HAVE InRing(u, s, n)'
      <3>2. PICK i \in 1..(z - 1) : n # 0 /\ lp'[i].t = u /\ lp'[i].seq = s /\ lp'[i].num = n
        BY <1>8, <3>1 DEF InRing
      <3>3. PICK j \in 1..z : j # 1 /\ lp'[i] = lp[j] BY <1>8
      <3>4. InRing(u, s, n) BY <1>8, <3>2, <3>3 DEF InRing
      <3>5. u = t => readSeq[t] + 1 <= s BY <1>11, <3>2, <3>3
      <3> QED BY <1>6, <3>4, <3>5
    <2>4. InRing(u, s, n) => InRing(u, s, n)' \/ (u = t /\ n = read[t])
      <3>1. HAVE InRing(u, s, n)
      <3>2. PICK i \in 1..z : n # 0 /\ lp[i].t = u /\ lp[i].seq = s /\ lp[i].num = n
        BY <1>8, <3>1 DEF InRing
      <3>3. CASE i = 1
        <4>1. u = t /\ n = Head(lp).num BY <1>10, <3>2, <3>3
        <4> QED BY <3>2, <4>1
      <3>4. CASE i # 1
        <4>1. i - 1 \in 1..(z - 1) /\ lp[i] = lp'[i - 1] BY <1>9, <3>4
        <4> QED BY <1>8, <3>2, <4>1 DEF InRing
      <3> QED BY <3>3, <3>4
    <2> QED BY <2>1, <2>2, <2>3, <2>4 DEF Holds
  <1>23. RecordsInOrder'
    <2>1. \A u \in Threads, s1, s2, n1, n2 \in Nat :
             Holds(u, s1, n1)' /\ Holds(u, s2, n2)' /\ s1 < s2 => n1 < n2
      BY <1>0, <1>22 DEF RecordsSound, RecordsInOrder
    <2>2. \A d \in InUse' : \A j, k \in DOMAIN data'[d] : j < k => data'[d][j] < data'[d][k]
      BY <1>0, <1>2, <1>4 DEF RecordsSound, RecordsInOrder
    <2> QED BY <2>1, <2>2 DEF RecordsInOrder
  <1>24. \A u \in Threads : BeingRead(u) => u = t BY <1>20 DEF BeingRead, Batching
  <1>25. RecordsInRange'
    <2>1. SUFFICES ASSUME NEW u \in Threads, NEW s \in Nat, NEW n \in Nat, Holds(u, s, n)'
                   PROVE  /\ \/ n <= sent[u]
                             \/ n = sent[u] + 1 /\ s + 1 = writeSeq[u] /\ pc[u] \in {"forget", "commit"}
                          /\ n > read[u]
      BY <1>2 DEF RecordsInRange
    <2>2. Holds(u, s, n) /\ (u = t => s # readSeq[t]) BY <1>22, <2>1
    <2> QED BY <1>0, <1>24, <2>2 DEF RecordsSound, RecordsInRange
  <1>26. NoneMissing'
    <2>1. SUFFICES ASSUME NEW u \in Threads, NEW n \in (read[u] + 1)..sent[u]
                   PROVE  \E s \in Nat : Holds(u, s, n)'
      BY <1>2 DEF NoneMissing
    <2>2. n \in Nat /\ n # read[u] BY <1>6
    <2>3. PICK s \in Nat : Holds(u, s, n) BY <1>0 DEF RecordsSound, NoneMissing
    <2> QED BY <1>22, <2>2, <2>3
  <1>27. Counts'
    <2>1. SUFFICES ASSUME NEW u \in Threads, pc[u] \in {"forget", "commit"}
          PROVE  \E i \in DOMAIN lp' : /\ lp'[i].t = u /\ lp'[i].seq + 1 = writeSeq[u]
                                       /\ lp'[i].num = sent[u] + 1 /\ ~lp'[i].done
      BY <1>0, <1>2 DEF RecordsSound, Counts
    <2>2. PICK i \in 1..z : /\ lp[i].t = u /\ lp[i].seq + 1 = writeSeq[u]
                            /\ lp[i].num = sent[u] + 1 /\ ~lp[i].done
      BY <1>0, <1>8, <2>1 DEF RecordsSound, Counts
    <2>3. i # 1 BY <1>10, <2>2
    <2>4. i - 1 \in 1..(z - 1) /\ lp[i] = lp'[i - 1] BY <1>9, <2>3
    <2>5. i - 1 \in DOMAIN lp' BY <1>8, <2>4
    <2>6. /\ lp'[i - 1].t = u /\ lp'[i - 1].seq + 1 = writeSeq[u]
          /\ lp'[i - 1].num = sent[u] + 1 /\ ~lp'[i - 1].done
      BY <2>2, <2>4
    <2> QED BY <2>5, <2>6
  <1>28. InHand' BY <1>20 DEF InHand, Batching
  <1>29. NumbersSound' BY <1>15, <1>16, <1>17, <1>18, <1>19, <1>21 DEF NumbersSound
  <1>30. RecordsSound' BY <1>23, <1>25, <1>26, <1>27, <1>28 DEF RecordsSound
  <1> QED BY <1>1, <1>2, <1>4, <1>8, <1>12, <1>13, <1>29, <1>30, Whole

LEMMA RingKept ==
  ASSUME BufferInv, ReadMark \/ ReturnToRing
  PROVE  BufferInv' /\ read' = read
  <1>1. InHand /\ BlockAsSeen BY DEF BufferInv, RecordsSound, NumbersSound
  <1>2. CASE ReadMark
    <2>1. PICK finished \in BOOLEAN : finished = TRUE OBVIOUS
    <2>2. /\ rpc = "round" /\ reader.state = "lp" /\ RingHasNext /\ Head(lp).num = 0
          /\ Deregister(Head(lp).t, finished) /\ lp' = Tail(lp) /\ reader' = Refreshed(reader)
          /\ rpc' = rpc /\ read' = read /\ UNCHANGED <<blockVars, threadVars>>
      BY <1>2, <2>1 DEF ReadMark
    <2>3. PICK t \in Threads : t = Head(lp).t BY <2>2, Parts DEF RingHasNext, Place
    <2> QED BY <2>1, <2>2, <2>3, RingGivenBack DEF RingHasNext, Verified
  <1>3. CASE ReturnToRing
    <2>1. PICK finished \in BOOLEAN : finished = FALSE OBVIOUS
    <2>2. /\ rpc = "ring" /\ Deregister(Head(lp).t, finished) /\ lp' = Tail(lp)
          /\ reader' = Refreshed(reader) /\ rpc' = "idle" /\ read' = read
          /\ UNCHANGED <<blockVars, threadVars>>
      BY <1>3, <2>1 DEF ReturnToRing
    <2>3. reader.state = "lp" /\ RingHasNext /\ Head(lp).num # 0 BY <1>1, <2>2 DEF BlockAsSeen
    <2>4. PICK t \in Threads : t = Head(lp).t BY <2>3, Parts DEF RingHasNext, Place
    <2>5. read[t] = Head(lp).num BY <1>1, <2>2, <2>4 DEF InHand
    <2> QED BY <2>1, <2>2, <2>3, <2>4, <2>5, RingGivenBack DEF RingHasNext, Verified
  <1> QED BY <1>2, <1>3

-----------------------------------------------------------------------------
(***************************************************************************)
(* The invariant is kept: the reader gives the space of a batch back.      *)
(***************************************************************************)

\* There is more in the batch.
LEMMA BatchGoesOn ==
  ASSUME BufferInv, ReturnToBlock, reader.batch > 0
  PROVE  BufferInv'
  <1>0. NumbersSound /\ RecordsSound /\ StateSound(used, reader)
    BY DEF BufferInv, ReaderOnItsWay
  <1>1. /\ PlacesStay /\ rpc = "block" /\ rpc' = "idle" /\ reader' = reader /\ read' = read
    BY DEF ReturnToBlock, PlacesStay, blockVars
  <1>2. /\ lp' = lp /\ context' = context /\ data' = data /\ readSeq' = readSeq /\ pc' = pc
        /\ sent' = sent /\ writeSeq' = writeSeq /\ HoldsStays
    BY <1>1, PlacesAre
  <1>3. Batching /\ Batching' BY <1>1 DEF Batching
  <1>4. \A u \in Threads : BeingRead(u)' <=> BeingRead(u) BY <1>1, <1>2, <1>3 DEF BeingRead
  <1>5. BlockAsSeen' BY <1>0, <1>1, <1>2 DEF NumbersSound, BlockAsSeen
  <1>6. RecordsInRange' BY <1>0, <1>1, <1>2, <1>4 DEF RecordsSound, RecordsInRange, HoldsStays
  <1>7. NoneMissing' BY <1>1, <1>2, NoneMissingStill
  <1>8. Counts' BY <1>0, <1>1, <1>2 DEF RecordsSound, Counts
  <1>9. InHand' BY <1>0, <1>1, <1>2, <1>3 DEF RecordsSound, InHand
  <1>10. reader' \in ReaderType /\ SamePlace(reader, reader') /\ read' \in [Threads -> Nat]
    BY <1>1, Parts DEF SamePlace, ReaderTypes
  <1> QED BY <1>0, <1>1, <1>5, <1>6, <1>7, <1>8, <1>9, <1>10, ReaderLooks

\* A function on 1..n is a sequence.
LEMMA IsSequence ==
  ASSUME NEW S, NEW n \in Nat, NEW f \in [1..n -> S]
  PROVE  f \in Seq(S)
  OBVIOUS

\* What is behind the first k of a sequence.
LEMMA RestOf ==
  ASSUME NEW s \in Seq(Nat), NEW k \in 1..Len(s), NEW q, q = SubSeq(s, k + 1, Len(s))
  PROVE  /\ q \in Seq(Nat) /\ Len(q) = Len(s) - k /\ DOMAIN q = 1..(Len(s) - k)
         /\ \A i \in 1..(Len(s) - k) : q[i] = s[i + k]
  <1>1. PICK w \in Nat : w = Len(s) OBVIOUS
  <1>2. k \in 1..w BY <1>1
  <1>3. k + 1 \in Nat /\ \A i \in (k + 1)..w : i \in 1..w BY <1>2
  <1>4. q = [i \in 1..(w - k) |-> s[i + k]] BY <1>1, <1>2
  <1>5. \A i \in 1..(w - k) : i + k \in 1..w BY <1>2
  <1>6. \A i \in 1..(w - k) : s[i + k] \in Nat BY <1>1, <1>5
  <1>7. PICK v \in Nat : v = w - k BY <1>2
  <1>8. q = [i \in 1..v |-> s[i + k]] /\ \A i \in 1..v : s[i + k] \in Nat BY <1>4, <1>6, <1>7
  <1>9. q \in [1..v -> Nat] BY <1>8
  <1>10. q \in Seq(Nat) BY <1>7, <1>9, IsSequence
  <1>11. Len(q) = v /\ DOMAIN q = 1..v BY <1>8
  <1>12. \A i \in 1..v : q[i] = s[i + k] BY <1>8
  <1> QED BY <1>1, <1>7, <1>10, <1>11, <1>12

\* The batch is through.
LEMMA BatchGivenBack ==
  ASSUME BufferInv, ReturnToBlock, reader.batch = 0
  PROVE  BufferInv'
  <1>0. TypeOK /\ ListsSound /\ ReaderOnItsWay /\ NumbersSound /\ RecordsSound BY DEF BufferInv
  <1>1. /\ lp \in Seq(Place) /\ context \in [Blocks -> ContextType] /\ DataTypes /\ ThreadTypes
        /\ ReaderTypes /\ OnItsWay /\ InUse \subseteq Blocks
    BY Parts
  <1>2. /\ rpc = "block" /\ rpc' = "idle" /\ lp' = lp /\ groups' = groups /\ free' = free
        /\ used' = used /\ stage' = stage /\ context' = context /\ pc' = pc
        /\ curBlock' = curBlock /\ writeSeq' = writeSeq /\ sent' = sent
        /\ readSeq' = readSeq /\ deleted' = deleted /\ reader' = reader /\ read' = read
        /\ data' = [data EXCEPT ![reader.curBlock] = SubSeq(@, reader.size + 1, Len(@))]
    BY DEF ReturnToBlock, threadVars
  <1>3. Batching BY <1>2 DEF Batching
  <1>4. PICK b \in InUse : b = reader.curBlock BY <1>3, BatchBlock
  <1>5. PICK t \in Threads : t = context[b].t BY <1>0 DEF NumbersSound, BlocksSound
  <1>6. b \in Blocks /\ data[b] \in Seq(Nat) BY <1>1 DEF DataTypes
  <1>7. reader.state = "hp" /\ reader.size \in 1..Len(data[b]) /\ read[t] = data[b][reader.size]
    <2>1. /\ reader.state = "hp" /\ reader.size \in 1..Len(data[b])
          /\ read[t] = data[b][reader.size - reader.batch]
      BY <1>0, <1>3, <1>4, <1>5 DEF RecordsSound, InHand
    <2> QED BY <2>1
  <1>8. PICK k \in 1..Len(data[b]) : k = reader.size BY <1>7
  <1>9. PICK q : q = SubSeq(data[b], k + 1, Len(data[b])) OBVIOUS
  <1>10. PICK w \in Nat : w = Len(data[b]) BY <1>6
  <1>11. /\ q \in Seq(Nat) /\ Len(q) = w - k /\ DOMAIN q = 1..(w - k) /\ DOMAIN data[b] = 1..w
         /\ \A i \in 1..(w - k) : i + k \in 1..w /\ q[i] = data[b][i + k]
         /\ \A i \in 1..w : i > k => i - k \in 1..(w - k) /\ data[b][i] = q[i - k]
    <2>1. k \in 1..Len(data[b]) /\ k \in 1..w BY <1>10
    <2>2. /\ q \in Seq(Nat) /\ Len(q) = w - k /\ DOMAIN q = 1..(w - k)
          /\ \A i \in 1..(w - k) : q[i] = data[b][i + k]
      <3>1. PICK s \in Seq(Nat) : s = data[b] BY <1>6
      <3>2. k \in 1..Len(s) /\ Len(s) = w /\ q = SubSeq(s, k + 1, Len(s)) BY <1>9, <1>10, <3>1
      <3>3. /\ q \in Seq(Nat) /\ Len(q) = Len(s) - k /\ DOMAIN q = 1..(Len(s) - k)
            /\ \A i \in 1..(Len(s) - k) : q[i] = s[i + k]
        BY <3>2, RestOf
      <3> QED BY <3>1, <3>2, <3>3
    <2>3. \A i \in 1..(w - k) : i + k \in 1..w BY <2>1
    <2>4. ASSUME NEW i \in 1..w, i > k PROVE i - k \in 1..(w - k) /\ data[b][i] = q[i - k]
      <3>1. i - k \in 1..(w - k) /\ (i - k) + k = i BY <2>1, <2>4
      <3> QED BY <2>2, <3>1
    <2>5. DOMAIN data[b] = 1..w BY <1>6, <1>10
    <2> QED BY <2>2, <2>3, <2>4, <2>5
  <1>12. /\ data' \in [Blocks -> Seq(Nat)] /\ data'[b] = q
         /\ \A d \in Blocks \ {b} : data'[d] = data[d]
    BY <1>1, <1>2, <1>4, <1>6, <1>8, <1>9, <1>11 DEF DataTypes
  <1>13. DataTypes'
    <2>1. Len(q) <= BlockRoom
      <3>1. w <= BlockRoom BY <1>1, <1>6, <1>10 DEF DataTypes
      <3> QED BY <1>10, <1>11, <3>1, Constants
    <2> QED BY <1>1, <1>12, <2>1 DEF DataTypes
  <1>14. ThreadTypes' /\ ReaderTypes' BY <1>1, <1>2 DEF ThreadTypes, ReaderTypes
  <1>15. OnItsWay' /\ InUse' = InUse
    <2>1. SamePlace(reader, reader') /\ reader'.state = reader.state BY <1>2 DEF SamePlace
    <2> QED BY <1>1, <1>2, <2>1, SameLists
  <1>16. \A i, j \in 1..w : i < j => data[b][i] < data[b][j]
    BY <1>0, <1>11 DEF RecordsSound, RecordsInOrder
  <1>17. \A u \in Threads : read[u] \in Nat /\ sent[u] \in Nat BY <1>1 DEF ReaderTypes, ThreadTypes
  <1>18. \A i \in 1..w : (i > k => data[b][i] > read[t]) /\ (i <= k => data[b][i] <= read[t])
    <2>1. SUFFICES ASSUME NEW i \in 1..w
                   PROVE  (i > k => data[b][i] > read[t]) /\ (i <= k => data[b][i] <= read[t])
      OBVIOUS
    <2>2. data[b][i] \in Nat /\ data[b][k] \in Nat /\ k \in 1..w BY <1>6, <1>10
    <2>3. read[t] = data[b][k] BY <1>7, <1>8
    <2>4. CASE i > k BY <1>16, <2>2, <2>3, <2>4
    <2>5. CASE i = k BY <2>2, <2>3, <2>5
    <2>6. CASE i < k BY <1>16, <2>2, <2>3, <2>6
    <2> QED BY <2>2, <2>4, <2>5, <2>6
  <1>19. RingSound' BY <1>0, <1>2 DEF NumbersSound, RingSound
  <1>20. BlocksSound' BY <1>0, <1>2, <1>15 DEF NumbersSound, BlocksSound
  <1>21. NumbersApart' BY <1>0, <1>2, <1>15 DEF NumbersSound, NumbersApart
  <1>22. ThreadsSound' BY <1>0, <1>2, <1>15 DEF NumbersSound, ThreadsSound
  <1>23. FreeSound' BY <1>0, <1>2, <1>12, <1>15 DEF NumbersSound, FreeSound
  <1>24. BlockAsSeen' BY <1>0, <1>2, <1>7 DEF NumbersSound, BlockAsSeen
  <1>25. ASSUME NEW u \in Threads, NEW s \in Nat, NEW n \in Nat
         PROVE  /\ Holds(u, s, n)' => Holds(u, s, n) /\ (u = t /\ s = readSeq[t] => n > read[t])
                /\ Holds(u, s, n) => Holds(u, s, n)' \/ (u = t /\ n <= read[t])
    <2>1. InRing(u, s, n)' <=> InRing(u, s, n) BY <1>2 DEF InRing
    <2>2. context[b].seq = readSeq[t]
      BY <1>0, <1>4, <1>5, <1>7, BatchBlock DEF NumbersSound, BlockAsSeen
    <2>3. InRing(u, s, n) => ~(u = t /\ s = readSeq[t])
      BY <1>5, <2>2, TurnOfBlock DEF InRing
    <2>4. InBlock(u, s, n)' => InBlock(u, s, n) /\ (u = t /\ s = readSeq[t] => n > read[t])
      <3>1. HAVE InBlock(u, s, n)'
      <3>2. PICK d \in InUse : /\ context[d].t = u /\ context[d].seq = s
                               /\ \E i \in DOMAIN data'[d] : data'[d][i] = n
        BY <1>2, <1>15, <3>1 DEF InBlock
      <3>3. CASE d = b
        <4>1. PICK i \in 1..(w - k) : q[i] = n BY <1>11, <1>12, <3>2, <3>3
        <4>2. i + k \in 1..w /\ i + k > k /\ data[b][i + k] = n BY <1>11, <4>1
        <4>3. n > read[t] BY <1>18, <4>2
        <4>4. InBlock(u, s, n) BY <1>11, <3>2, <3>3, <4>2 DEF InBlock
        <4> QED BY <4>3, <4>4
      <3>4. CASE d # b
        <4>1. InBlock(u, s, n) BY <1>1, <1>12, <3>2, <3>4 DEF InBlock
        <4>2. ~(u = t /\ s = readSeq[t])
          BY <1>0, <1>5, <2>2, <3>2, <3>4 DEF NumbersSound, NumbersApart
        <4> QED BY <4>1, <4>2
      <3> QED BY <3>3, <3>4
    <2>5. InBlock(u, s, n) => InBlock(u, s, n)' \/ (u = t /\ n <= read[t])
      <3>1. HAVE InBlock(u, s, n)
      <3>2. PICK d \in InUse : /\ context[d].t = u /\ context[d].seq = s
                               /\ \E i \in DOMAIN data[d] : data[d][i] = n
        BY <3>1 DEF InBlock
      <3>3. CASE d = b
        <4>1. PICK i \in 1..w : data[b][i] = n BY <1>11, <3>2, <3>3
        <4>2. CASE i <= k BY <1>5, <1>18, <3>2, <3>3, <4>1, <4>2
        <4>3. CASE i > k
          <5>1. i - k \in 1..(w - k) /\ q[i - k] = n BY <1>11, <4>1, <4>3
          <5>2. \E j \in DOMAIN data'[b] : data'[b][j] = n BY <1>11, <1>12, <5>1
          <5> QED BY <1>2, <1>15, <3>2, <3>3, <5>2 DEF InBlock
        <4> QED BY <4>2, <4>3
      <3>4. CASE d # b BY <1>1, <1>2, <1>12, <1>15, <3>2, <3>4 DEF InBlock
      <3> QED BY <3>3, <3>4
    <2> QED BY <2>1, <2>3, <2>4, <2>5 DEF Holds
  <1>26. RecordsInOrder'
    <2>1. \A u \in Threads, s1, s2, n1, n2 \in Nat :
             Holds(u, s1, n1)' /\ Holds(u, s2, n2)' /\ s1 < s2 => n1 < n2
      BY <1>0, <1>25 DEF RecordsSound, RecordsInOrder
    <2>2. ASSUME NEW d \in InUse, NEW i \in DOMAIN data'[d], NEW j \in DOMAIN data'[d], i < j
          PROVE  data'[d][i] < data'[d][j]
      <3>1. CASE d # b
        <4>1. data'[d] = data[d] BY <1>1, <1>12, <3>1
        <4> QED BY <1>0, <2>2, <4>1 DEF RecordsSound, RecordsInOrder
      <3>2. CASE d = b
        <4>1. i \in 1..(w - k) /\ j \in 1..(w - k) /\ data'[d] = q BY <1>11, <1>12, <3>2
        <4>2. i + k \in 1..w /\ j + k \in 1..w BY <1>11, <4>1
        <4>5. i + k < j + k
          <5>1. i \in Int /\ j \in Int /\ k \in Int BY <1>10, <4>1
          <5> QED BY <2>2, <5>1
        <4>3. data[b][i + k] < data[b][j + k] BY <1>16, <4>2, <4>5
        <4> QED BY <1>11, <4>1, <4>3
      <3> QED BY <3>1, <3>2
    <2> QED BY <1>15, <2>1, <2>2 DEF RecordsInOrder
  <1>27. \A u \in Threads : BeingRead(u) => u = t BY <1>2, <1>4, <1>5 DEF BeingRead
  <1>28. RecordsInRange'
    <2>1. SUFFICES ASSUME NEW u \in Threads, NEW s \in Nat, NEW n \in Nat, Holds(u, s, n)'
                   PROVE  /\ \/ n <= sent[u]
                             \/ n = sent[u] + 1 /\ s + 1 = writeSeq[u] /\ pc[u] \in {"forget", "commit"}
                          /\ n > read[u]
      BY <1>2 DEF RecordsInRange
    <2>2. Holds(u, s, n) /\ (u = t /\ s = readSeq[t] => n > read[t]) BY <1>25, <2>1
    <2> QED BY <1>0, <1>27, <2>2 DEF RecordsSound, RecordsInRange
  <1>29. NoneMissing'
    <2>1. SUFFICES ASSUME NEW u \in Threads, NEW n \in (read[u] + 1)..sent[u]
                   PROVE  \E s \in Nat : Holds(u, s, n)'
      BY <1>2 DEF NoneMissing
    <2>2. n \in Nat /\ ~(n <= read[u]) BY <1>17
    <2>3. PICK s \in Nat : Holds(u, s, n) BY <1>0 DEF RecordsSound, NoneMissing
    <2> QED BY <1>25, <2>2, <2>3
  <1>30. Counts' BY <1>0, <1>2 DEF RecordsSound, Counts
  <1>31. InHand' BY <1>2 DEF InHand, Batching
  <1>32. NumbersSound' BY <1>19, <1>20, <1>21, <1>22, <1>23, <1>24 DEF NumbersSound
  <1>33. RecordsSound' BY <1>26, <1>28, <1>29, <1>30, <1>31 DEF RecordsSound
  <1> QED BY <1>1, <1>2, <1>13, <1>14, <1>15, <1>32, <1>33, Whole

LEMMA ReturnToBlockKept ==
  ASSUME BufferInv, ReturnToBlock
  PROVE  BufferInv' /\ read' = read
  <1>1. reader.batch \in Nat BY Parts DEF ReaderType
  <1>2. reader.batch > 0 \/ reader.batch = 0 BY <1>1
  <1>3. read' = read BY DEF ReturnToBlock
  <1> QED BY <1>2, <1>3, BatchGoesOn, BatchGivenBack

-----------------------------------------------------------------------------
(***************************************************************************)
(* The invariant is kept: the reader goes on to another block or group.    *)
(***************************************************************************)

LEMMA NextGroupKept ==
  ASSUME BufferInv, NextGroup
  PROVE  BufferInv'
  <1>0. TypeOK /\ ListsSound /\ ReaderOnItsWay /\ NumbersSound /\ RecordsSound BY DEF BufferInv
  <1>1. /\ lp \in Seq(Place) /\ context \in [Blocks -> ContextType] /\ DataTypes /\ ThreadTypes
        /\ ReaderTypes /\ ListTypes
    BY Parts
  <1>2. /\ rpc = "round" /\ reader.state = "nextGroup" /\ lp' = lp /\ free' = free /\ used' = used
        /\ stage' = stage /\ context' = context /\ data' = data /\ pc' = pc
        /\ curBlock' = curBlock /\ writeSeq' = writeSeq /\ sent' = sent /\ readSeq' = readSeq
        /\ deleted' = deleted /\ rpc' = rpc /\ read' = read
        /\ groups' = IF Deletes THEN RemoveAt(groups, PlaceOf(groups, reader.curGroup)) ELSE groups
    BY DEF NextGroup, threadVars
  <1>3. ListsSound' /\ ReaderOnItsWay' /\ InUse' = InUse BY <1>0, NextGroupOnItsWay
  <1>4. PICK next : next = NextOf(reader.curGroup) OBVIOUS
  <1>5. /\ reader' \in ReaderType /\ SameBatch(reader, reader') /\ reader'.marked = reader.marked
        /\ reader'.state = "nextBlock" \/ reader'.state \in {"completed", "lp"}
        /\ reader'.state = "nextBlock" <=> next # None
        /\ next = None => reader'.curBlock = None
    BY <1>0, <1>4, MovedOn
  <1>6. groups' \in Seq(Groups) /\ IsInjective(groups')
    <2>1. CASE Deletes BY <1>0, <1>2, <2>1, GroupDeleted
    <2>2. CASE ~Deletes BY <1>1, <1>2, <2>2 DEF ListTypes
    <2> QED BY <2>1, <2>2
  <1>7. OnItsWay' BY <1>1, <1>2, <1>3, <1>6 DEF OnItsWay, ListTypes
  <1>8. DataTypes' /\ ThreadTypes' BY <1>1, <1>2 DEF DataTypes, ThreadTypes
  <1>9. ReaderTypes' BY <1>1, <1>2, <1>5 DEF ReaderTypes
  <1>10. ~reader'.marked BY <1>0, <1>2, <1>5 DEF ReaderOnItsWay, StateSound
  <1>11. reader.batch = 0 /\ reader'.batch = 0
    BY <1>0, <1>2, <1>5 DEF RecordsSound, InHand, SameBatch
  <1>12. BlockAsSeen' BY <1>2, <1>5, <1>10 DEF BlockAsSeen
  <1>13. RingSound' BY <1>0, <1>2 DEF NumbersSound, RingSound
  <1>14. BlocksSound' BY <1>0, <1>2, <1>3 DEF NumbersSound, BlocksSound
  <1>15. NumbersApart' BY <1>0, <1>2, <1>3 DEF NumbersSound, NumbersApart
  <1>16. ThreadsSound' BY <1>0, <1>2, <1>3 DEF NumbersSound, ThreadsSound
  <1>17. FreeSound' BY <1>0, <1>2, <1>3 DEF NumbersSound, FreeSound
  <1>18. HoldsStays BY <1>2, <1>3, HoldsSame
  <1>19. RecordsInOrder' BY <1>0, <1>2, <1>3, <1>18 DEF RecordsSound, RecordsInOrder, HoldsStays
  <1>20. \A u \in Threads : ~BeingRead(u) BY <1>2, <1>11 DEF BeingRead, Batching
  <1>21. RecordsInRange'
    BY <1>0, <1>2, <1>18, <1>20 DEF RecordsSound, RecordsInRange, HoldsStays
  <1>22. NoneMissing' BY <1>2, <1>18, NoneMissingStill
  <1>23. Counts' BY <1>0, <1>2 DEF RecordsSound, Counts
  <1>24. InHand' BY <1>2, <1>11 DEF InHand, Batching
  <1>25. NumbersSound' BY <1>12, <1>13, <1>14, <1>15, <1>16, <1>17 DEF NumbersSound
  <1>26. RecordsSound' BY <1>19, <1>21, <1>22, <1>23, <1>24 DEF RecordsSound
  <1> QED BY <1>1, <1>2, <1>7, <1>8, <1>9, <1>25, <1>26, Whole

\* What is put back has nothing in it and was given up, and the reader's numbers
\* do not go past those of any other place.
LEMMA NumbersWhenLeft ==
  ASSUME BufferInv, reader.state = "nextBlock", groups' = groups,
         NEW next \in Blocks \cup {None}, LeaveCurrent(next)
  PROVE  /\ InUse' \subseteq InUse
         /\ \A d \in InUse \ InUse' : data[d] = <<>> /\ context[d].removed
         /\ readSeq' \in [Threads -> Nat] /\ deleted' \subseteq Threads
         /\ \A u \in Threads : readSeq'[u] <= writeSeq[u] /\ (u \in deleted' => pc[u] = "gone")
         /\ \A i \in DOMAIN lp : lp[i].t \notin deleted' /\ readSeq'[lp[i].t] <= lp[i].seq
         /\ \A d \in InUse' :
               context[d].t \notin deleted' /\ readSeq'[context[d].t] <= context[d].seq
  <1>0. TypeOK /\ ListsSound /\ ReaderOnItsWay BY DEF BufferInv
  <1>1. RingSound /\ BlocksSound /\ NumbersApart /\ ThreadsSound /\ BlockAsSeen
    BY DEF BufferInv, NumbersSound
  <1>2. InUse' = IF Recycles THEN InUse \ {reader.curBlock} ELSE InUse BY <1>0, ListsLeft
  <1>3. \A u \in Threads : readSeq[u] <= writeSeq[u] /\ (u \in deleted => pc[u] = "gone")
    BY <1>1 DEF ThreadsSound
  <1>4. /\ readSeq \in [Threads -> Nat] /\ deleted \subseteq Threads
        /\ \A u \in Threads : readSeq[u] \in Nat /\ writeSeq[u] \in Nat
    BY Parts DEF ReaderTypes, ThreadTypes
  <1>5. CASE ~Recycles
    <2>1. readSeq' = readSeq /\ deleted' = deleted BY <1>5 DEF LeaveCurrent
    <2> QED BY <1>1, <1>2, <1>3, <1>4, <1>5, <2>1 DEF RingSound, BlocksSound
  <1>6. CASE Recycles
    <2>1. reader.curBlock \in InUse BY <1>0, <1>6, MarkedBlock
    <2>2. PICK b \in InUse : b = reader.curBlock BY <2>1
    <2>3. b \in Blocks /\ b # None /\ reader.marked
      BY <1>6, <2>2, Parts DEF Recycles, InGroup
    <2>4. context[b].removed /\ context[b].seq = readSeq[context[b].t] /\ data[b] = <<>>
      BY <1>1, <2>2, <2>3 DEF BlockAsSeen
    <2>5. PICK t \in Threads : t = context[b].t BY <1>1 DEF BlocksSound
    <2>6. PICK finished \in BOOLEAN : finished = context[b].finished
      BY <2>3, Parts DEF ContextType
    <2>7. Deregister(t, finished) BY <1>6, <2>2, <2>5, <2>6 DEF LeaveCurrent
    <2>8. /\ readSeq' \in [Threads -> Nat] /\ deleted' \subseteq Threads
          /\ deleted' = IF finished THEN deleted \cup {t} ELSE deleted
          /\ readSeq'[t] = IF finished THEN readSeq[t] ELSE readSeq[t] + 1
          /\ \A u \in Threads \ {t} : readSeq'[u] = readSeq[u]
      BY <1>4, <2>7, DeregisterIs
    <2>9. /\ context[b].seq < writeSeq[t]
          /\ finished => pc[t] = "gone" /\ context[b].seq + 1 = writeSeq[t]
      BY <1>1, <2>5, <2>6 DEF BlocksSound
    <2>10. PICK m \in Nat, w \in Nat : m = readSeq[t] /\ w = writeSeq[t] BY <1>4
    <2>11. context[b].seq = m /\ m < w /\ (finished => pc[t] = "gone" /\ m + 1 = w)
      BY <2>4, <2>5, <2>9, <2>10
    <2>12. \A u \in Threads : readSeq'[u] <= writeSeq[u] /\ (u \in deleted' => pc[u] = "gone")
      <3>1. SUFFICES ASSUME NEW u \in Threads
                     PROVE  readSeq'[u] <= writeSeq[u] /\ (u \in deleted' => pc[u] = "gone")
        OBVIOUS
      <3>2. CASE u = t
        <4>1. readSeq'[t] <= w BY <2>8, <2>10, <2>11
        <4> QED BY <1>3, <2>8, <2>10, <2>11, <3>2, <4>1
      <3>3. CASE u # t BY <1>3, <2>8, <3>3
      <3> QED BY <3>2, <3>3
    <2>13. ASSUME NEW i \in DOMAIN lp
           PROVE  lp[i].t \notin deleted' /\ readSeq'[lp[i].t] <= lp[i].seq
      <3>1. lp[i].t \notin deleted /\ readSeq[lp[i].t] <= lp[i].seq /\ lp[i].seq < writeSeq[lp[i].t]
        BY <1>1 DEF RingSound
      <3>2. PICK s \in Nat : s = lp[i].seq BY Parts DEF Place
      <3>3. CASE lp[i].t = t
        <4>1. s # m BY <1>1, <2>5, <2>11, <3>2, <3>3 DEF NumbersApart
        <4>2. m <= s /\ s < w BY <2>10, <3>1, <3>2, <3>3
        <4>3. m + 1 <= s /\ ~finished BY <2>11, <4>1, <4>2
        <4> QED BY <2>8, <2>10, <3>1, <3>2, <3>3, <4>3
      <3>4. CASE lp[i].t # t
        <4>1. lp[i].t \in Threads \ {t} BY <3>4, Parts DEF Place
        <4> QED BY <2>8, <3>1, <4>1
      <3> QED BY <3>3, <3>4
    <2>14. ASSUME NEW d \in InUse, d # b
           PROVE  context[d].t \notin deleted' /\ readSeq'[context[d].t] <= context[d].seq
      <3>1. /\ context[d].t \in Threads /\ context[d].t \notin deleted
            /\ readSeq[context[d].t] <= context[d].seq /\ context[d].seq < writeSeq[context[d].t]
        BY <1>1 DEF BlocksSound
      <3>2. PICK s \in Nat : s = context[d].seq BY Parts DEF ContextType
      <3>3. CASE context[d].t = t
        <4>1. s # m BY <1>1, <2>5, <2>11, <2>14, <3>2, <3>3 DEF NumbersApart
        <4>2. m <= s /\ s < w BY <2>10, <3>1, <3>2, <3>3
        <4>3. m + 1 <= s /\ ~finished BY <2>11, <4>1, <4>2
        <4> QED BY <2>8, <2>10, <3>1, <3>2, <3>3, <4>3
      <3>4. CASE context[d].t # t BY <2>8, <3>1, <3>4
      <3> QED BY <3>3, <3>4
    <2>15. InUse' = InUse \ {b} BY <1>2, <1>6, <2>2
    <2> QED BY <2>4, <2>8, <2>12, <2>13, <2>14, <2>15
  <1> QED BY <1>5, <1>6

LEMMA LeftKept ==
  ASSUME BufferInv, rpc = "round", reader.state = "nextBlock", NEW next \in Blocks \cup {None},
         LeaveCurrent(next), ListsSound', ReaderOnItsWay', reader' \in ReaderType,
         SameBatch(reader, reader'), BlockAsSeen',
         context' \in [Blocks -> ContextType],
         \A d \in Blocks : /\ context'[d].t = context[d].t /\ context'[d].seq = context[d].seq
                           /\ context'[d].finished = context[d].finished
                           /\ context'[d].removed = context[d].removed,
         UNCHANGED <<lp, groups, data, threadVars, rpc, read>>
  PROVE  BufferInv'
  <1>0. TypeOK /\ ListsSound /\ ReaderOnItsWay /\ NumbersSound /\ RecordsSound BY DEF BufferInv
  <1>1. /\ lp \in Seq(Place) /\ context \in [Blocks -> ContextType] /\ DataTypes /\ ThreadTypes
        /\ ReaderTypes /\ ListTypes /\ InUse \subseteq Blocks
    BY Parts
  <1>2. /\ lp' = lp /\ groups' = groups /\ data' = data /\ pc' = pc /\ curBlock' = curBlock
        /\ writeSeq' = writeSeq /\ sent' = sent /\ rpc' = rpc /\ read' = read
    BY DEF threadVars
  <1>3. /\ InUse' \subseteq InUse
        /\ \A d \in InUse \ InUse' : data[d] = <<>> /\ context[d].removed
        /\ readSeq' \in [Threads -> Nat] /\ deleted' \subseteq Threads
        /\ \A u \in Threads : readSeq'[u] <= writeSeq[u] /\ (u \in deleted' => pc[u] = "gone")
        /\ \A i \in DOMAIN lp : lp[i].t \notin deleted' /\ readSeq'[lp[i].t] <= lp[i].seq
        /\ \A d \in InUse' :
              context[d].t \notin deleted' /\ readSeq'[context[d].t] <= context[d].seq
    BY <1>2, NumbersWhenLeft
  <1>4. /\ free' \in [Groups -> Seq(Blocks)] /\ used' \in [Groups -> Seq(Blocks)]
        /\ stage' \in [Groups -> Seq(Blocks)]
    BY <1>0, BlockLeft
  <1>5. OnItsWay' BY <1>1, <1>2, <1>4 DEF OnItsWay, ListTypes
  <1>6. DataTypes' /\ ThreadTypes' BY <1>1, <1>2 DEF DataTypes, ThreadTypes
  <1>7. ReaderTypes' BY <1>1, <1>2, <1>3 DEF ReaderTypes
  <1>8. RingSound' BY <1>0, <1>2, <1>3 DEF NumbersSound, RingSound
  <1>9. BlocksSound'
    <2>1. SUFFICES ASSUME NEW d \in InUse'
                   PROVE LET c == context'[d] IN
                    /\ c.t \in Threads /\ c.t \notin deleted'
                    /\ readSeq'[c.t] <= c.seq /\ c.seq < writeSeq[c.t]
                    /\ c.finished => c.removed /\ pc[c.t] = "gone" /\ c.seq + 1 = writeSeq[c.t]
      BY <1>2 DEF BlocksSound
    <2>2. d \in InUse /\ d \in Blocks BY <1>1, <1>3
    <2>3. LET c == context[d] IN
            /\ c.t \in Threads /\ c.t \notin deleted
            /\ readSeq[c.t] <= c.seq /\ c.seq < writeSeq[c.t]
            /\ c.finished => c.removed /\ pc[c.t] = "gone" /\ c.seq + 1 = writeSeq[c.t]
      BY <1>0, <2>2 DEF NumbersSound, BlocksSound
    <2> QED BY <1>3, <2>2, <2>3
  <1>10. NumbersApart' BY <1>0, <1>1, <1>2, <1>3 DEF NumbersSound, NumbersApart
  <1>11. ThreadsSound'
    <2>1. SUFFICES ASSUME NEW u \in Threads
          PROVE  LET d == curBlock[u] IN
                    /\ pc[u] \in {"forget", "forgetIdle", "put"} => d # None
                    /\ pc[u] \in {"commit", "mark"} => d = None
                    /\ d # None /\ pc[u] \notin {"new", "gone"} =>
                          /\ d \in InUse' /\ context'[d].t = u /\ ~context'[d].removed
                          /\ writeSeq[u] = context'[d].seq + (IF pc[u] = "forget" THEN 2 ELSE 1)
                    /\ u \in deleted' => pc[u] = "gone"
                    /\ readSeq'[u] <= writeSeq[u]
      BY <1>2 DEF ThreadsSound
    <2>2. LET d == curBlock[u] IN
                    /\ pc[u] \in {"forget", "forgetIdle", "put"} => d # None
                    /\ pc[u] \in {"commit", "mark"} => d = None
                    /\ d # None /\ pc[u] \notin {"new", "gone"} =>
                          /\ d \in InUse /\ context[d].t = u /\ ~context[d].removed
                          /\ writeSeq[u] = context[d].seq + (IF pc[u] = "forget" THEN 2 ELSE 1)
      BY <1>0 DEF NumbersSound, ThreadsSound
    <2> QED BY <1>1, <1>3, <2>2
  <1>12. FreeSound' BY <1>0, <1>2, <1>3 DEF NumbersSound, FreeSound
  <1>13. HoldsStays
    <2>1. SUFFICES ASSUME NEW u \in Threads, NEW s \in Nat, NEW n \in Nat
                   PROVE  Holds(u, s, n)' <=> Holds(u, s, n)
      BY DEF HoldsStays
    <2>2. InRing(u, s, n)' <=> InRing(u, s, n) BY <1>2 DEF InRing
    <2>3. InBlock(u, s, n)' => InBlock(u, s, n) BY <1>1, <1>2, <1>3 DEF InBlock
    <2>4. InBlock(u, s, n) => InBlock(u, s, n)'
      <3>1. HAVE InBlock(u, s, n)
      <3>2. PICK d \in InUse : /\ context[d].t = u /\ context[d].seq = s
                               /\ \E k \in DOMAIN data[d] : data[d][k] = n
        BY <3>1 DEF InBlock
      <3>3. data[d] # <<>> BY <3>2
      <3>4. d \in InUse' /\ d \in Blocks BY <1>1, <1>3, <3>3
      <3> QED BY <1>2, <3>2, <3>4 DEF InBlock
    <2> QED BY <2>2, <2>3, <2>4 DEF Holds
  <1>14. RecordsInOrder' BY <1>0, <1>2, <1>3, <1>13 DEF RecordsSound, RecordsInOrder, HoldsStays
  <1>15. reader.batch = 0 /\ reader'.batch = 0 BY <1>0 DEF RecordsSound, InHand, SameBatch
  <1>16. \A u \in Threads : ~BeingRead(u) BY <1>15 DEF BeingRead, Batching
  <1>17. RecordsInRange'
    BY <1>0, <1>2, <1>13, <1>16 DEF RecordsSound, RecordsInRange, HoldsStays
  <1>18. NoneMissing' BY <1>2, <1>13, NoneMissingStill
  <1>19. Counts' BY <1>0, <1>2 DEF RecordsSound, Counts
  <1>20. InHand' BY <1>2, <1>15 DEF InHand, Batching
  <1>21. NumbersSound' BY <1>8, <1>9, <1>10, <1>11, <1>12 DEF NumbersSound
  <1>22. RecordsSound' BY <1>14, <1>17, <1>18, <1>19, <1>20 DEF RecordsSound
  <1> QED BY <1>1, <1>2, <1>5, <1>6, <1>7, <1>21, <1>22, Whole

LEMMA EnterBlockKept ==
  ASSUME BufferInv, EnterBlock
  PROVE  BufferInv'
  <1>0. TypeOK /\ ListsSound /\ ReaderOnItsWay BY DEF BufferInv
  <1>1. /\ rpc = "round" /\ reader.state = "nextBlock"
        /\ UNCHANGED <<lp, groups, data, threadVars, rpc, read>>
    BY DEF EnterBlock
  <1>2. PICK next \in Blocks :
            /\ LeaveCurrent(next)
            /\ reader' = Entered(Left, next)
            /\ context' = [context EXCEPT ![next].reallocate = @ \/ reader.holes > 0]
    BY DEF EnterBlock
  <1>3. context \in [Blocks -> ContextType] /\ reader \in ReaderType BY Parts
  <1>4. /\ context' \in [Blocks -> ContextType]
        /\ \A d \in Blocks : /\ context'[d].t = context[d].t /\ context'[d].seq = context[d].seq
                             /\ context'[d].finished = context[d].finished
                             /\ context'[d].removed = context[d].removed
    <2>1. PICK c \in ContextType : c = context[next] BY <1>3
    <2>2. PICK x \in BOOLEAN : x = (c.reallocate \/ reader.holes > 0) OBVIOUS
    <2>3. PICK e : e = [c EXCEPT !.reallocate = x] OBVIOUS
    <2>4. /\ e \in ContextType /\ e.t = c.t /\ e.seq = c.seq /\ e.finished = c.finished
          /\ e.removed = c.removed
      BY <2>3 DEF ContextType
    <2>5. context' = [context EXCEPT ![next] = e] BY <1>2, <2>1, <2>2, <2>3
    <2> QED BY <1>3, <2>1, <2>4, <2>5
  <1>5. PICK l \in ReaderType : l = Left BY <1>3, LeftIs
  <1>6. SameBatch(reader, l) /\ l.state = "nextBlock" BY <1>1, <1>3, <1>5, LeftIs
  <1>7. context[next].removed \in BOOLEAN BY <1>3 DEF ContextType
  <1>8. PICK e : e = Entered(l, next) OBVIOUS
  <1>9. /\ e \in ReaderType /\ SameBatch(l, e) /\ e.curBlock = next
        /\ e.marked = MarkedNow(context[next])
        /\ context[next].seq # readSeq'[context[next].t] => e.state = "nextBlock"
        /\ context[next].seq = readSeq'[context[next].t] => e.state \in {"completed", "hp"}
    BY <1>6, <1>7, <1>8, EnteredIs
  <1>10. reader' = e BY <1>2, <1>5, <1>8
  <1>11. SameBatch(reader, reader') BY <1>6, <1>9, <1>10 DEF SameBatch
  <1>12. BlockAsSeen' BY <1>1, <1>4, <1>9, <1>10 DEF BlockAsSeen, MarkedNow
  <1>13. ListsSound' /\ ReaderOnItsWay' BY <1>0, EnterOnItsWay
  <1>14. next \in Blocks \cup {None} OBVIOUS
  <1> QED BY <1>1, <1>2, <1>4, <1>9, <1>10, <1>11, <1>12, <1>13, <1>14, LeftKept

LEMMA LeaveGroupKept ==
  ASSUME BufferInv, LeaveGroup
  PROVE  BufferInv'
  <1>0. TypeOK /\ ListsSound /\ ReaderOnItsWay BY DEF BufferInv
  <1>1. /\ rpc = "round" /\ reader.state = "nextBlock" /\ context' = context
        /\ UNCHANGED <<lp, groups, data, threadVars, rpc, read>>
    BY DEF LeaveGroup
  <1>2. PICK next \in Blocks \cup {None} : next = None OBVIOUS
  <1>3. LeaveCurrent(next) BY <1>2 DEF LeaveGroup
  <1>4. context \in [Blocks -> ContextType] /\ reader \in ReaderType BY Parts
  <1>5. PICK l \in ReaderType : l = Left BY <1>4, LeftIs
  <1>6. SameBatch(reader, l) BY <1>4, <1>5, LeftIs
  <1>7. PICK x \in Blocks \cup {None} : x = IF Recycles THEN l.lastBlock ELSE l.curBlock
    BY DEF ReaderType
  <1>8. reader' = [l EXCEPT !.curBlock = x, !.marked = FALSE, !.state = "nextGroup"]
    BY <1>5, <1>7 DEF LeaveGroup
  <1>9. PICK f \in BOOLEAN : f = FALSE OBVIOUS
  <1>10. PICK e : e = [l EXCEPT !.curBlock = x, !.marked = f] OBVIOUS
  <1>11. e \in ReaderType /\ SameBatch(l, e) /\ e.marked = f BY <1>10 DEF ReaderType, SameBatch
  <1>12. reader' = [e EXCEPT !.state = "nextGroup"] BY <1>8, <1>9, <1>10
  <1>13. /\ reader' \in ReaderType /\ SameBatch(e, reader') /\ reader'.marked = e.marked
         /\ reader'.state = "nextGroup"
    BY <1>11, <1>12 DEF ReaderType, SameBatch
  <1>14. SameBatch(reader, reader') BY <1>6, <1>11, <1>13 DEF SameBatch
  <1>15. ~reader'.marked BY <1>9, <1>11, <1>13
  <1>16. BlockAsSeen' BY <1>1, <1>13, <1>15 DEF BlockAsSeen
  <1>17. ListsSound' /\ ReaderOnItsWay' BY <1>0, GroupLeftOnItsWay
  <1>18. context' \in [Blocks -> ContextType] BY <1>1, <1>4
  <1> QED BY <1>1, <1>3, <1>13, <1>14, <1>16, <1>17, <1>18, LeftKept

\* What the reader does keeps the invariant, and hands out the next record of a
\* thread or nothing.
LEMMA ReaderKept ==
  ASSUME BufferInv, Reader
  PROVE  BufferInv' /\ (HandedOut \/ read' = read)
  <1>1. CASE BeginRound \/ LeaveRing \/ Complete \/ ReturnEmpty
    BY <1>1, QuietKept DEF BeginRound, LeaveRing, Complete, ReturnEmpty
  <1>2. CASE ReadBlock
    <2>1. CASE data[reader.curBlock] = <<>> BY <1>2, <2>1, QuietKept DEF ReadBlock
    <2>2. CASE data[reader.curBlock] # <<>> BY <1>2, <2>2, BatchKept
    <2> QED BY <2>1, <2>2
  <1>3. CASE NextOfBatch BY <1>3, NextOfBatchKept
  <1>4. CASE ReadRing BY <1>4, ReadRingKept
  <1>5. CASE ReadMark \/ ReturnToRing BY <1>5, RingKept
  <1>6. CASE EnterBlock BY <1>6, EnterBlockKept DEF EnterBlock
  <1>7. CASE LeaveGroup BY <1>7, LeaveGroupKept DEF LeaveGroup
  <1>8. CASE NextGroup BY <1>8, NextGroupKept DEF NextGroup
  <1>9. CASE ReturnToBlock BY <1>9, ReturnToBlockKept
  <1> QED BY <1>1, <1>2, <1>3, <1>4, <1>5, <1>6, <1>7, <1>8, <1>9 DEF Reader, Round

-----------------------------------------------------------------------------
(***************************************************************************)
(* The invariant holds.                                                    *)
(***************************************************************************)

LEMMA AllFree ==
  ASSUME NEW g \in Groups
  PROVE  LET fr == [i \in 1..BlocksPerGroup |-> <<g, i>>]
         IN  fr \in Seq(Blocks) /\ GroupSound(g, fr, <<>>, <<>>)
  <1>1. BlocksPerGroup \in Nat BY Constants
  <1>2. PICK n \in Nat : n = BlocksPerGroup BY <1>1
  <1>3. PICK fr : fr = [i \in 1..n |-> <<g, i>>] OBVIOUS
  <1>4. \A i \in 1..n : <<g, i>> \in Blocks BY <1>2 DEF Blocks
  <1>5. fr \in [1..n -> Blocks] BY <1>3, <1>4
  <1>6. fr \in Seq(Blocks) /\ DOMAIN fr = 1..n BY <1>5
  <1>7. Len(fr) = n BY <1>3
  <1>8. IsInjective(fr) BY <1>3 DEF IsInjective
  <1>9. \A b \in ToSet(fr) : b[1] = g BY <1>3 DEF ToSet
  <1>10. PICK e : e = <<>> OBVIOUS
  <1>11. e \in Seq(Blocks) /\ Len(e) = 0 /\ DOMAIN e = {} BY <1>10
  <1>12. ToSet(e) = {} /\ IsInjective(e) BY <1>11 DEF ToSet, IsInjective
  <1>13. GroupSound(g, fr, e, e) BY <1>2, <1>7, <1>8, <1>9, <1>11, <1>12 DEF GroupSound
  <1> QED BY <1>2, <1>3, <1>6, <1>10, <1>13

LEMMA InitSound ==
  ASSUME Init
  PROVE  BufferInv
  <1>1. PICK e : e = <<>> OBVIOUS
  <1>2. \A S : e \in Seq(S) BY <1>1
  <1>3. Len(e) = 0 /\ DOMAIN e = {} BY <1>1
  <1>4. ToSet(e) = {} /\ IsInjective(e) BY <1>3 DEF ToSet, IsInjective
  <1>5. /\ lp = e /\ groups = e /\ used = [g \in Groups |-> e] /\ stage = [g \in Groups |-> e]
        /\ data = [b \in Blocks |-> e]
        /\ free = [g \in Groups |-> [i \in 1..BlocksPerGroup |-> <<g, i>>]]
    BY <1>1 DEF Init
  <1>6. Live = {} /\ InUse = {} BY <1>4, <1>5 DEF Live, InUse
  <1>7. NoContext \in ContextType BY DEF NoContext, ContextType
  <1>8. /\ reader \in ReaderType /\ reader.state = "lp" /\ reader.curGroup = None
        /\ reader.curBlock = None /\ reader.lastBlock = None /\ reader.marked = FALSE
        /\ reader.batch = 0
    <2>1. reader = [state |-> "lp", curGroup |-> None, lastGroup |-> None,
                    curBlock |-> None, lastBlock |-> None,
                    endWorking |-> FALSE, endBlock |-> None,
                    marked |-> FALSE, using |-> 0, holes |-> 0,
                    batch |-> 0, size |-> 0]
      BY DEF Init
    <2> QED BY <2>1 DEF ReaderType
  <1>9. TypeOK
    <2>1. lp \in Seq(Place) BY <1>2, <1>5
    <2>2. ListTypes
      <3>1. free \in [Groups -> Seq(Blocks)] BY <1>5, AllFree
      <3> QED BY <1>2, <1>4, <1>5, <3>1 DEF ListTypes
    <2>3. context \in [Blocks -> ContextType] BY <1>7 DEF Init
    <2>4. DataTypes BY <1>2, <1>3, <1>5, Constants DEF DataTypes
    <2>5. ThreadTypes BY DEF Init, ThreadTypes, Points
    <2>6. ReaderTypes BY <1>8 DEF Init, ReaderTypes
    <2> QED BY <2>1, <2>2, <2>3, <2>4, <2>5, <2>6, TypesAre
  <1>10. ListsSound
    <2>1. \A g \in Groups : GroupSound(g, free[g], used[g], stage[g])
      <3>1. SUFFICES ASSUME NEW g \in Groups PROVE GroupSound(g, free[g], used[g], stage[g])
        OBVIOUS
      <3>2. free[g] = [i \in 1..BlocksPerGroup |-> <<g, i>>] /\ used[g] = e /\ stage[g] = e
        BY <1>5
      <3> QED BY <1>1, <3>2, AllFree
    <2> QED BY <1>1, <1>5, <2>1 DEF ListsSound
  <1>11. ReaderOnItsWay BY <1>8 DEF ReaderOnItsWay, WaySound, StateSound
  <1>12. \A t \in Threads : /\ pc[t] = "idle" /\ curBlock[t] = None /\ writeSeq[t] = 0
                            /\ readSeq[t] = 0 /\ sent[t] = 0 /\ read[t] = 0
    BY DEF Init
  <1>13. deleted = {} /\ rpc = "idle" BY DEF Init
  <1>14. NumbersSound
    <2>1. RingSound BY <1>3, <1>5 DEF RingSound
    <2>2. BlocksSound BY <1>6 DEF BlocksSound
    <2>3. NumbersApart BY <1>3, <1>5, <1>6 DEF NumbersApart
    <2>4. ThreadsSound BY <1>12, <1>13 DEF ThreadsSound
    <2>5. FreeSound
      <3>1. \A b \in Blocks : b # None BY Constants
      <3> QED BY <1>1, <1>5, <1>12, <3>1 DEF FreeSound
    <2>6. BlockAsSeen BY <1>8, <1>13 DEF BlockAsSeen
    <2> QED BY <2>1, <2>2, <2>3, <2>4, <2>5, <2>6 DEF NumbersSound
  <1>15. RecordsSound
    <2>1. \A t, s, n : ~Holds(t, s, n) BY <1>3, <1>5, <1>6 DEF Holds, InRing, InBlock
    <2>2. RecordsInOrder BY <1>6, <2>1 DEF RecordsInOrder
    <2>3. RecordsInRange BY <2>1 DEF RecordsInRange
    <2>4. NoneMissing BY <1>12 DEF NoneMissing
    <2>5. Counts BY <1>12 DEF Counts
    <2>6. InHand BY <1>8, <1>13 DEF InHand, Batching
    <2> QED BY <2>2, <2>3, <2>4, <2>5, <2>6 DEF RecordsSound
  <1> QED BY <1>9, <1>10, <1>11, <1>14, <1>15 DEF BufferInv

LEMMA SoundWhileNothingHappens ==
  ASSUME BufferInv, UNCHANGED vars
  PROVE  BufferInv'
  <1>0. NumbersSound /\ RecordsSound /\ StateSound(used, reader)
    BY DEF BufferInv, ReaderOnItsWay
  <1>1. PlacesStay /\ reader' = reader /\ rpc' = rpc /\ read' = read
    BY DEF vars, readerVars, PlacesStay
  <1>2. /\ lp' = lp /\ context' = context /\ data' = data /\ readSeq' = readSeq /\ pc' = pc
        /\ sent' = sent /\ writeSeq' = writeSeq /\ HoldsStays
    BY <1>1, PlacesAre
  <1>3. \A u \in Threads : BeingRead(u)' <=> BeingRead(u)
    BY <1>1, <1>2 DEF BeingRead, Batching
  <1>4. RingHasNext' <=> RingHasNext BY <1>2 DEF RingHasNext, Verified
  <1>5. BlockAsSeen' BY <1>0, <1>1, <1>2, <1>4 DEF NumbersSound, BlockAsSeen
  <1>6. RecordsInRange' BY <1>0, <1>1, <1>2, <1>3 DEF RecordsSound, RecordsInRange, HoldsStays
  <1>7. NoneMissing' BY <1>1, <1>2, NoneMissingStill
  <1>8. Counts' BY <1>0, <1>1, <1>2 DEF RecordsSound, Counts
  <1>9. InHand' BY <1>0, <1>1, <1>2 DEF RecordsSound, InHand, Batching
  <1>10. /\ reader' \in ReaderType /\ SamePlace(reader, reader') /\ read' \in [Threads -> Nat]
         /\ rpc' \in {"idle", "round", "block", "ring", "empty"}
    BY <1>1, Parts DEF SamePlace, ReaderTypes
  <1> QED BY <1>0, <1>1, <1>5, <1>6, <1>7, <1>8, <1>9, <1>10, ReaderLooks

\* In every state each block is in one list of its group, the reader is where it
\* thinks it is, no two places of a thread have the same number, and what a thread
\* has committed and the reader has not yet handed out lies in its places in order.
THEOREM BufferInvariant == Spec => []BufferInv
  <1>1. Init => BufferInv BY InitSound
  <1>2. BufferInv /\ [Next]_vars => BufferInv'
    BY ReaderKept, ThreadKept, SoundWhileNothingHappens DEF Next
  <1> QED BY <1>1, <1>2, PTL DEF Spec

\* The numbers the reader goes by are never overtaken, and nothing refers to a
\* log_tls_buffer_info the reader has deleted: the assert of verify_context, with
\* any number of threads, groups and blocks.
THEOREM NumbersNeverOverdue == Spec => []NothingOverdue
  <1>1. BufferInv => NothingOverdue
    <2>1. SUFFICES ASSUME BufferInv PROVE NothingOverdue OBVIOUS
    <2>2. RingSound /\ BlocksSound BY <2>1 DEF BufferInv, NumbersSound
    <2>3. \A i \in DOMAIN lp : lp[i].t \notin deleted /\ lp[i].seq >= readSeq[lp[i].t]
      BY <2>2 DEF RingSound
    <2>4. \A b \in InUse : context[b].t \notin deleted /\ context[b].seq >= readSeq[context[b].t]
      BY <2>2 DEF BlocksSound
    <2> QED BY <2>3, <2>4 DEF NothingOverdue
  <1> QED BY <1>1, BufferInvariant, PTL

\* Two lists that have nothing in common, one behind the other.
LEMMA Joined ==
  ASSUME NEW S, NEW s \in Seq(S), NEW r \in Seq(S), IsInjective(s), IsInjective(r),
         ToSet(s) \cap ToSet(r) = {}
  PROVE  /\ s \o r \in Seq(S) /\ Len(s \o r) = Len(s) + Len(r) /\ IsInjective(s \o r)
         /\ ToSet(s \o r) \subseteq ToSet(s) \cup ToSet(r)
  <1>1. PICK q : q = s \o r OBVIOUS
  <1>2. PICK m \in Nat, n \in Nat : m = Len(s) /\ n = Len(r) OBVIOUS
  <1>3. q \in Seq(S) /\ Len(q) = m + n BY <1>1, <1>2
  <1>4. DOMAIN q = 1..(m + n) /\ DOMAIN s = 1..m /\ DOMAIN r = 1..n BY <1>2, <1>3
  <1>5. /\ \A i \in 1..m : q[i] = s[i]
        /\ \A i \in 1..(m + n) : i \notin 1..m => i - m \in 1..n /\ q[i] = r[i - m]
    BY <1>1, <1>2
  <1>6. \A i \in 1..m : s[i] \in ToSet(s) BY <1>4 DEF ToSet
  <1>7. \A i \in 1..n : r[i] \in ToSet(r) BY <1>4 DEF ToSet
  <1>8. \A i, j \in 1..m : s[i] = s[j] => i = j BY <1>4 DEF IsInjective
  <1>9. \A i, j \in 1..n : r[i] = r[j] => i = j BY <1>4 DEF IsInjective
  <1>10. ASSUME NEW i \in 1..(m + n), NEW j \in 1..(m + n), q[i] = q[j] PROVE i = j
    <2>1. CASE i \in 1..m /\ j \in 1..m BY <1>5, <1>8, <1>10, <2>1
    <2>2. CASE i \in 1..m /\ j \notin 1..m BY <1>5, <1>6, <1>7, <1>10, <2>2
    <2>3. CASE i \notin 1..m /\ j \in 1..m BY <1>5, <1>6, <1>7, <1>10, <2>3
    <2>4. CASE i \notin 1..m /\ j \notin 1..m
      <3>1. /\ i - m \in 1..n /\ q[i] = r[i - m] /\ j - m \in 1..n /\ q[j] = r[j - m]
        BY <1>5, <2>4
      <3>2. i - m = j - m BY <1>9, <1>10, <3>1
      <3> QED BY <1>2, <3>2
    <2> QED BY <2>1, <2>2, <2>3, <2>4
  <1>11. IsInjective(q) BY <1>4, <1>10 DEF IsInjective
  <1>12. \A i \in 1..(m + n) : q[i] \in ToSet(s) \cup ToSet(r) BY <1>5, <1>6, <1>7
  <1>13. ToSet(q) \subseteq ToSet(s) \cup ToSet(r) BY <1>4, <1>12 DEF ToSet
  <1> QED BY <1>1, <1>2, <1>3, <1>11, <1>13

\* In a list without repetitions only one thing is behind x.
LEMMA OnlyOneBehind ==
  ASSUME NEW S, NEW s \in Seq(S), IsInjective(s), NEW x, NEW y, NextTo(s, x, y)
  PROVE  Behinds(s, x) = y /\ \E i \in After(s, x) : s[i] = y
  <1>1. PICK n \in Nat : n = Len(s) OBVIOUS
  <1>2. PICK i \in 1..(n - 1) : s[i] = x /\ s[i + 1] = y BY <1>1 DEF NextTo
  <1>3. DOMAIN s = 1..n BY <1>1
  <1>4. i + 1 \in 2..n /\ (i + 1) - 1 = i BY <1>2
  <1>5. i + 1 \in After(s, x) BY <1>1, <1>2, <1>4 DEF After
  <1>6. ASSUME NEW j \in After(s, x) PROVE j = i + 1
    <2>1. j \in 2..n /\ s[j - 1] = x BY <1>1 DEF After
    <2>2. j - 1 \in 1..n /\ i \in 1..n BY <1>2, <2>1
    <2>3. j - 1 = i BY <1>2, <1>3, <2>1, <2>2 DEF IsInjective
    <2> QED BY <2>1, <2>3
  <1>7. Behinds(s, x) = s[i + 1]
    <2>1. PICK k : k = CHOOSE j \in After(s, x) : TRUE OBVIOUS
    <2>2. k \in After(s, x) BY <1>5, <2>1
    <2>3. Behinds(s, x) = s[k] BY <1>5, <2>1 DEF Behinds
    <2> QED BY <1>6, <2>2, <2>3
  <1> QED BY <1>2, <1>5, <1>7

LEMMA AccountedFor ==
  ASSUME BufferInv
  PROVE  BlocksAccounted
  <1>1. TypeOK /\ ListsSound /\ ReaderOnItsWay /\ FreeSound BY DEF BufferInv, NumbersSound
  <1>2. ASSUME NEW g \in Groups
        PROVE  LET all == free[g] \o used[g] \o stage[g]
               IN  /\ IsInjective(all) /\ Len(all) = BlocksPerGroup
                   /\ g \notin Live => Len(free[g]) = BlocksPerGroup
    <2>1. PICK fr \in Seq(Blocks), us \in Seq(Blocks), st \in Seq(Blocks) :
              fr = free[g] /\ us = used[g] /\ st = stage[g]
      BY <1>1, WayTypes
    <2>2. GroupSound(g, fr, us, st) BY <1>1, <2>1 DEF ListsSound
    <2>3. /\ IsInjective(fr) /\ IsInjective(us) /\ IsInjective(st)
          /\ ToSet(fr) \cap ToSet(us) = {} /\ ToSet(fr) \cap ToSet(st) = {}
          /\ ToSet(us) \cap ToSet(st) = {}
          /\ Len(fr) + Len(us) + Len(st) = BlocksPerGroup
      BY <2>2 DEF GroupSound
    <2>4. /\ fr \o us \in Seq(Blocks) /\ Len(fr \o us) = Len(fr) + Len(us)
          /\ IsInjective(fr \o us) /\ ToSet(fr \o us) \subseteq ToSet(fr) \cup ToSet(us)
      BY <2>3, Joined
    <2>5. PICK q \in Seq(Blocks) : q = fr \o us BY <2>4
    <2>6. ToSet(q) \cap ToSet(st) = {} BY <2>3, <2>4, <2>5
    <2>7. Len(q \o st) = Len(q) + Len(st) /\ IsInjective(q \o st)
      BY <2>3, <2>4, <2>5, <2>6, Joined
    <2>8. Len(q \o st) = BlocksPerGroup BY <2>3, <2>4, <2>5, <2>7
    <2>9. g \notin Live => Len(fr) = BlocksPerGroup
      <3>1. HAVE g \notin Live
      <3>2. us = <<>> /\ st = <<>> BY <1>1, <2>1, <3>1 DEF ListsSound
      <3>3. Len(us) = 0 /\ Len(st) = 0 BY <3>2
      <3>4. Len(fr) \in Nat OBVIOUS
      <3> QED BY <2>3, <3>3, <3>4
    <2> QED BY <2>1, <2>5, <2>7, <2>8, <2>9
  <1>3. \A b \in Blocks \ InUse :
          /\ data[b] = <<>>
          /\ \A t \in Threads : curBlock[t] = b => context[b].removed
    BY <1>1 DEF FreeSound
  <1> QED BY <1>2, <1>3 DEF BlocksAccounted

LEMMA KnowsItsWay ==
  ASSUME BufferInv
  PROVE  ReaderKnowsItsWay
  <1>1. TypeOK /\ ListsSound /\ ReaderOnItsWay BY DEF BufferInv
  <1>2. WaySound(groups, used, reader) /\ StateSound(used, reader) BY <1>1 DEF ReaderOnItsWay
  <1>3. /\ groups \in Seq(Groups) /\ IsInjective(groups)
        /\ reader.curBlock # None => reader.curBlock \in InUse
        /\ InGroup(reader.curBlock) <=> In(reader, reader.curBlock)
        /\ InGroup(reader.lastBlock) <=> In(reader, reader.lastBlock)
        /\ reader.curGroup \in Groups \cup {None}
        /\ \A g \in Groups : used[g] \in Seq(Blocks) /\ IsInjective(used[g])
    BY <1>1, WayTypes DEF GroupSound
  <1>4. reader.curGroup # None => reader.curGroup \in Live BY <1>2 DEF WaySound, Live
  <1>5. ASSUME reader.lastGroup # None, reader.curGroup # None
        PROVE  NextOf(reader.lastGroup) = reader.curGroup
    <2>1. NextTo(groups, reader.lastGroup, reader.curGroup) BY <1>2, <1>5 DEF WaySound
    <2>2. Behinds(groups, reader.lastGroup) = reader.curGroup BY <1>3, <2>1, OnlyOneBehind
    <2>3. NextOf(reader.lastGroup) = Behinds(groups, reader.lastGroup)
      BY <1>5 DEF NextOf, Behinds
    <2> QED BY <2>2, <2>3
  <1>6. ASSUME InGroup(reader.curBlock), reader.marked
        PROVE  LET u == used[reader.curGroup]
               IN IF Before = None THEN Head(u) = reader.curBlock
                  ELSE \E i \in After(u, Before) : u[i] = reader.curBlock
    <2>1. reader.state \in {"hp", "nextBlock", "completed"} /\ In(reader, reader.curBlock)
      BY <1>2, <1>6 DEF StateSound
    <2>2. IF In(reader, reader.lastBlock)
          THEN NextTo(used[reader.curGroup], reader.lastBlock, reader.curBlock)
          ELSE Head(used[reader.curGroup]) = reader.curBlock
      BY <1>2, <2>1 DEF StateSound
    <2>3. PICK u \in Seq(Blocks) : u = used[reader.curGroup] /\ IsInjective(u)
      <3>1. reader.curGroup # None BY <1>2, <1>6 DEF WaySound, InGroup
      <3> QED BY <1>3, <3>1
    <2>4. CASE InGroup(reader.lastBlock)
      <3>1. Before = reader.lastBlock /\ Before # None BY <2>4 DEF Before, InGroup
      <3>2. NextTo(u, reader.lastBlock, reader.curBlock) BY <1>3, <2>2, <2>3, <2>4
      <3>3. \E i \in After(u, reader.lastBlock) : u[i] = reader.curBlock
        BY <2>3, <3>2, OnlyOneBehind
      <3> QED BY <2>3, <3>1, <3>3
    <2>5. CASE ~InGroup(reader.lastBlock)
      <3>1. Before = None BY <2>5 DEF Before
      <3> QED BY <1>3, <2>2, <2>5, <3>1
    <2> QED BY <2>4, <2>5
  <1> QED BY <1>3, <1>4, <1>5, <1>6 DEF ReaderKnowsItsWay

\* Every block is in one list of its group, a block that is free holds nothing
\* unread and belongs to no thread, and the block and group the reader takes for
\* the ones in front of its own really are: the asserts of
\* recycle_block_thread_unsafe and rt_try_traverse_to_next_group.
THEOREM NothingIsLeftDangling == Spec => []NothingDangles
  <1>1. BufferInv => NothingDangles BY AccountedFor, KnowsItsWay DEF NothingDangles
  <1> QED BY <1>1, BufferInvariant, PTL

-----------------------------------------------------------------------------
(***************************************************************************)
(* LogBuffer implements LogStream.                                         *)
(***************************************************************************)

LEMMA LogsOrNot ==
  ASSUME BufferInv, NEW t \in Threads, Call(t) \/ Proceed(t) \/ End(t)
  PROVE  Stream!Log(t) \/ (sent' = sent /\ read' = read)
  <1>1. CASE PutInBlock(t) \/ CommitInRing(t)
    <2>1. pc[t] \in {"put", "hp", "commit"} /\ sent' = [sent EXCEPT ![t] = @ + 1] /\ read' = read
      BY <1>1 DEF PutInBlock, CommitInRing, readerVars
    <2>2. sent[t] < Rounds[t] BY <2>1 DEF BufferInv, RecordsSound, Counts
    <2> QED BY <2>1, <2>2 DEF Stream!Log
  <1>2. CASE \/ Call(t) \/ LeaveBlock(t) \/ NewBlock(t) \/ BlockFull(t) \/ Reserve(t) \/ LpFull(t)
             \/ ForgetBlock(t) \/ CommitMark(t) \/ EndWithBlock(t) \/ EndWithMark(t)
    BY <1>2 DEF Call, LeaveBlock, NewBlock, BlockFull, Reserve, LpFull, ForgetBlock, CommitMark,
                EndWithBlock, EndWithMark, readerVars
  <1> QED BY <1>1, <1>2 DEF Proceed, End

LEMMA HandsOutOrNot ==
  ASSUME BufferInv, Reader
  PROVE  (\E t \in Threads : Stream!HandOut(t)) \/ (sent' = sent /\ read' = read)
  <1>1. sent' = sent
    BY DEF Reader, NextOfBatch, BeginRound, Round, ReadRing, ReadMark, LeaveRing, ReadBlock,
           EnterBlock, LeaveGroup, NextGroup, Complete, ReturnToBlock, ReturnToRing, ReturnEmpty,
           threadVars
  <1>2. HandedOut \/ read' = read BY ReaderKept
  <1>3. CASE HandedOut BY <1>1, <1>3 DEF HandedOut, Stream!HandOut
  <1> QED BY <1>1, <1>2, <1>3

\* Each thread's records are handed to the reader in the order in which they were
\* committed, each once, none left out, although they lie in the ring and in any
\* number of blocks at the same time.
THEOREM BufferImplementsStream == Spec => ImplementsStream
  <1>1. Init => Stream!Init BY DEF Init, Stream!Init
  <1>2. BufferInv /\ [Next]_vars => [Stream!Next]_(Stream!vars)
    <2>1. SUFFICES ASSUME BufferInv, [Next]_vars PROVE Stream!Next \/ (sent' = sent /\ read' = read)
      BY DEF Stream!vars
    <2>2. CASE Reader BY <2>1, <2>2, HandsOutOrNot DEF Stream!Next
    <2>3. ASSUME NEW t \in Threads, Call(t) \/ Proceed(t) \/ End(t)
          PROVE  Stream!Next \/ (sent' = sent /\ read' = read)
      BY <2>1, <2>3, LogsOrNot DEF Stream!Next
    <2>4. CASE UNCHANGED vars BY <2>4 DEF vars, threadVars, readerVars
    <2> QED BY <2>1, <2>2, <2>3, <2>4 DEF Next
  <1> QED BY <1>1, <1>2, BufferInvariant, PTL DEF Spec, ImplementsStream, Stream!Spec
=============================================================================
