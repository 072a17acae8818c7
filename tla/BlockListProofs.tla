-------------------------- MODULE BlockListProofs --------------------------
(***************************************************************************)
(* BlockList for any threads, any finite set of blocks and any width of    *)
(* the mark: a compare-and-swap that succeeds has the right link in hand,  *)
(* every block is on one list or in one hand, a death of the process loses *)
(* nothing that was staged or filed, and the lists are the stacks that     *)
(* BlockStacks promises.                                                   *)
(*                                                                         *)
(* A list is the least set that its first index leads to (From), so what   *)
(* an operation does to it is said with sets: Pushed, Popped, PutBehind    *)
(* and TakenBehind.  That the mark tells an old copy of the head from the  *)
(* head is arithmetic (MarkTellsAge) on how old it may get.  The order of  *)
(* a list is the one path along its links (OnlyPath), and what an          *)
(* operation does to it is said with sequences: PathPushed, PathPopped,    *)
(* PathPut, PathTaken and PathChained.                                     *)
(***************************************************************************)
EXTENDS BlockList, FiniteSetTheorems, SequenceTheorems, WellFoundedInduction, TLAPS

Nodes == [Blocks -> Blocks \cup {None}]
Indices == Blocks \cup {None}

-----------------------------------------------------------------------------
(***************************************************************************)
(* Lists as sets of links.                                                 *)
(***************************************************************************)

\* What is on a list from i on is in every closed set.
LEMMA Least ==
  ASSUME NEW f \in Nodes, NEW i \in Indices, NEW S \in SUBSET Blocks, ClosedFrom(f, i, S)
  PROVE  From(f, i) \subseteq S
  BY DEF From

\* It is itself closed.
LEMMA Closed ==
  ASSUME NEW f \in Nodes, NEW i \in Indices
  PROVE  From(f, i) \in SUBSET Blocks /\ ClosedFrom(f, i, From(f, i))
  <1>1. From(f, i) \subseteq Blocks BY DEF From
  <1>2. ASSUME i # None PROVE i \in From(f, i)
    <2>1. i \in Blocks BY <1>2 DEF Indices
    <2> QED BY <1>2, <2>1 DEF From, ClosedFrom
  <1>3. ASSUME NEW b \in From(f, i), f[b] # None PROVE f[b] \in From(f, i)
    <2>1. b \in Blocks BY DEF From
    <2>2. f[b] \in Blocks BY <1>3, <2>1 DEF Nodes
    <2> QED BY <1>3, <2>2 DEF From, ClosedFrom
  <1> QED BY <1>1, <1>2, <1>3 DEF ClosedFrom

\* What is behind a block of the list is on the list.
LEMMA Onward ==
  ASSUME NEW f \in Nodes, NEW i \in Indices, NEW b \in From(f, i)
  PROVE  /\ b \in Blocks /\ f[b] \in Indices
         /\ From(f, f[b]) \subseteq From(f, i) /\ From(f, b) \subseteq From(f, i)
  <1>1. b \in Blocks /\ b \in Indices BY Closed DEF Indices
  <1>2. f[b] \in Indices BY <1>1 DEF Nodes, Indices
  <1>3. ClosedFrom(f, f[b], From(f, i)) /\ ClosedFrom(f, b, From(f, i))
    BY Closed DEF ClosedFrom
  <1> QED BY <1>1, <1>2, <1>3, Closed, Least

\* A list is its first block and what is behind that.
LEMMA FirstAndRest ==
  ASSUME NEW f \in Nodes
  PROVE  /\ From(f, None) = {}
         /\ \A b \in Blocks : From(f, b) = {b} \cup From(f, f[b])
  <1>1. None \in Indices /\ ClosedFrom(f, None, {})
    BY DEF ClosedFrom, Indices
  <1>2. From(f, None) = {} BY <1>1, Least
  <1>3. ASSUME NEW b \in Blocks PROVE From(f, b) = {b} \cup From(f, f[b])
    <2>1. b \in Indices /\ f[b] \in Indices /\ b # None
      BY BlockListAssumption DEF Nodes, Indices
    <2>2. b \in From(f, b) BY <2>1, Closed DEF ClosedFrom
    <2>3. From(f, f[b]) \subseteq From(f, b) BY <2>1, <2>2, Onward
    <2> DEFINE S == {b} \cup From(f, f[b])
    <2>4. S \in SUBSET Blocks BY <2>1, Closed
    <2>5. ClosedFrom(f, b, S)
      <3>1. ClosedFrom(f, f[b], From(f, f[b])) BY <2>1, Closed
      <3> QED BY <3>1 DEF ClosedFrom
    <2>6. From(f, b) \subseteq S BY <2>1, <2>4, <2>5, Least
    <2> QED BY <2>2, <2>3, <2>6
  <1> QED BY <1>2, <1>3

\* Links that agree on a list make the same list.
LEMMA SameLinks ==
  ASSUME NEW f \in Nodes, NEW h \in Nodes, NEW i \in Indices,
         \A b \in From(f, i) : h[b] = f[b]
  PROVE  From(h, i) = From(f, i)
  <1>1. From(h, i) \subseteq From(f, i)
    <2>1. ClosedFrom(h, i, From(f, i)) BY Closed DEF ClosedFrom
    <2> QED BY <2>1, Closed, Least
  <1>2. From(f, i) \subseteq From(h, i)
    <2> DEFINE S == From(h, i) \cap From(f, i)
    <2>1. S \in SUBSET Blocks BY Closed
    <2>2. ClosedFrom(f, i, S)
      <3>1. ClosedFrom(f, i, From(f, i)) /\ ClosedFrom(h, i, From(h, i)) BY Closed
      <3> QED BY <3>1 DEF ClosedFrom
    <2> QED BY <2>1, <2>2, Least
  <1> QED BY <1>1, <1>2

\* and it is as straight as it was.
LEMMA StillStraight ==
  ASSUME NEW f \in Nodes, NEW h \in Nodes, NEW i \in Indices,
         \A b \in From(f, i) : h[b] = f[b], Straight(f, i)
  PROVE  Straight(h, i) /\ From(h, i) = From(f, i)
  <1>1. From(h, i) = From(f, i) BY SameLinks
  <1>2. ASSUME NEW b \in From(f, i) PROVE b \notin From(h, h[b])
    <2>1. f[b] \in Indices /\ From(f, f[b]) \subseteq From(f, i) BY Onward
    <2>2. From(h, f[b]) = From(f, f[b]) BY <2>1, SameLinks
    <2>3. h[b] = f[b] OBVIOUS
    <2>4. b \notin From(f, f[b]) BY DEF Straight
    <2> QED BY <2>2, <2>3, <2>4
  <1>3. \A b, c \in From(h, i) : h[b] = h[c] /\ b # c => h[b] = None
    BY <1>1 DEF Straight
  <1> QED BY <1>1, <1>2, <1>3 DEF Straight

\* A block is pushed.
LEMMA Pushed1 ==
  ASSUME NEW f \in Nodes, NEW i \in Indices, Straight(f, i),
         NEW b \in Blocks, b \notin From(f, i), f[b] = i
  PROVE  From(f, b) = {b} \cup From(f, i) /\ Straight(f, b)
  <1>1. From(f, b) = {b} \cup From(f, i) BY FirstAndRest
  <1>2. \A c \in From(f, b) : c \notin From(f, f[c]) BY <1>1 DEF Straight
  <1>3. ASSUME NEW c \in From(f, i), f[c] = i PROVE FALSE
    <2>1. c \notin From(f, f[c]) BY DEF Straight
    <2> QED BY <1>3, <2>1
  <1>4. \A c, d \in From(f, b) : f[c] = f[d] /\ c # d => f[c] = None
    BY <1>1, <1>3 DEF Straight
  <1> QED BY <1>1, <1>2, <1>4 DEF Straight

\* The first block is popped.
LEMMA Popped1 ==
  ASSUME NEW f \in Nodes, NEW b \in Blocks, Straight(f, b)
  PROVE  /\ From(f, f[b]) = From(f, b) \ {b} /\ Straight(f, f[b])
         /\ b \in From(f, b) /\ f[b] \in Indices
  <1>1. From(f, b) = {b} \cup From(f, f[b]) BY FirstAndRest
  <1>2. b \notin From(f, f[b]) BY <1>1 DEF Straight
  <1>3. Straight(f, f[b]) BY <1>1 DEF Straight
  <1> QED BY <1>1, <1>2, <1>3 DEF Nodes, Indices

\* A block is put behind another one of the list.
LEMMA PutBehind ==
  ASSUME NEW f \in Nodes, NEW h \in Nodes, NEW i \in Indices, Straight(f, i),
         NEW b \in Blocks, b \notin From(f, i), NEW prev \in From(f, i),
         h[b] = f[prev], h[prev] = b, \A c \in Blocks \ {b, prev} : h[c] = f[c]
  PROVE  From(h, i) = {b} \cup From(f, i) /\ Straight(h, i)
  <1>1. prev \in Blocks /\ prev # b /\ From(f, i) \subseteq Blocks /\ b \in Indices /\ b # None
    BY Closed, BlockListAssumption DEF Indices
  <1>2. \A c \in From(f, i) \ {prev} : h[c] = f[c] BY <1>1
  <1>3. /\ f[prev] \in Indices /\ From(f, f[prev]) \subseteq From(f, i)
        /\ prev \notin From(f, f[prev])
    BY Onward DEF Straight
  <1>4. From(h, f[prev]) = From(f, f[prev]) BY <1>2, <1>3, SameLinks
  <1>5. From(h, b) = {b} \cup From(f, f[prev]) BY <1>4, FirstAndRest
  <1>6. ASSUME NEW j \in Indices, From(f, j) \subseteq From(f, i), prev \in From(f, j)
        PROVE  From(h, j) = {b} \cup From(f, j)
    <2> DEFINE S == {b} \cup From(f, j)
    <2>1. ClosedFrom(f, j, From(f, j)) /\ ClosedFrom(h, j, From(h, j))
          /\ From(h, j) \in SUBSET Blocks /\ From(f, j) \in SUBSET Blocks
      BY Closed
    <2>2. ClosedFrom(h, j, S)
      <3>1. ASSUME NEW c \in S, h[c] # None PROVE h[c] \in S
        <4>1. CASE c = b
          <5>1. f[prev] # None => f[prev] \in From(f, j) BY <1>6, <2>1 DEF ClosedFrom
          <5> QED BY <3>1, <4>1, <5>1
        <4>2. CASE c = prev BY <4>2
        <4>3. CASE c # b /\ c # prev
          <5>1. h[c] = f[c] /\ c \in From(f, j) BY <1>2, <1>6, <4>3
          <5> QED BY <2>1, <3>1, <5>1 DEF ClosedFrom
        <4> QED BY <4>1, <4>2, <4>3
      <3> QED BY <2>1, <3>1 DEF ClosedFrom
    <2>3. From(h, j) \subseteq S BY <2>1, <2>2, Least
    <2> DEFINE T == From(h, j) \cap From(f, j)
    <2>4. ClosedFrom(f, j, T)
      <3>1. ASSUME NEW c \in T, f[c] # None PROVE f[c] \in T
        <4>1. f[c] \in From(f, j) BY <2>1, <3>1 DEF ClosedFrom
        <4>2. CASE c = prev
          <5>1. b \in From(h, j) BY <1>1, <2>1, <4>2 DEF ClosedFrom
          <5>2. h[b] \in From(h, j) BY <2>1, <3>1, <4>2, <5>1 DEF ClosedFrom
          <5> QED BY <4>1, <4>2, <5>2
        <4>3. CASE c # prev
          <5>1. h[c] = f[c] BY <1>2, <1>6, <4>3
          <5> QED BY <2>1, <3>1, <4>1, <5>1 DEF ClosedFrom
        <4> QED BY <4>2, <4>3
      <3> QED BY <2>1, <3>1 DEF ClosedFrom
    <2>5. From(f, j) \subseteq From(h, j)
      <3>1. T \in SUBSET Blocks BY <2>1
      <3> QED BY <2>4, <3>1, Least
    <2>6. b \in From(h, j)
      <3>1. prev \in From(h, j) BY <1>6, <2>5
      <3> QED BY <1>1, <2>1, <3>1 DEF ClosedFrom
    <2> QED BY <2>3, <2>5, <2>6
  <1>7. From(h, i) = {b} \cup From(f, i) BY <1>6
  <1>8. ASSUME NEW c \in From(h, i) PROVE c \notin From(h, h[c])
    <2>1. CASE c = b
      <3>1. h[c] = f[prev] BY <2>1
      <3> QED BY <1>3, <1>4, <2>1, <3>1
    <2>2. CASE c = prev
      <3>1. h[c] = b BY <2>2
      <3> QED BY <1>1, <1>3, <1>5, <2>2, <3>1
    <2>3. CASE c # b /\ c # prev
      <3>1. c \in From(f, i) /\ h[c] = f[c] BY <1>2, <1>7, <2>3
      <3>2. f[c] \in Indices /\ From(f, f[c]) \subseteq From(f, i) /\ c \notin From(f, f[c])
        BY <3>1, Onward DEF Straight
      <3>3. CASE prev \in From(f, f[c])
        <4>1. From(h, f[c]) = {b} \cup From(f, f[c]) BY <1>6, <3>2, <3>3
        <4> QED BY <2>3, <3>1, <3>2, <4>1
      <3>4. CASE prev \notin From(f, f[c])
        <4>1. From(h, f[c]) = From(f, f[c]) BY <1>2, <3>2, <3>4, SameLinks
        <4> QED BY <3>1, <3>2, <4>1
      <3> QED BY <3>3, <3>4
    <2> QED BY <2>1, <2>2, <2>3
  <1>9. ASSUME NEW c \in From(h, i), NEW d \in From(h, i), h[c] = h[d], c # d PROVE h[c] = None
    <2>1. \A k \in From(f, i) : f[k] # b
      <3> SUFFICES ASSUME NEW k \in From(f, i), f[k] = b PROVE FALSE OBVIOUS
      <3>1. ClosedFrom(f, i, From(f, i)) BY Closed
      <3> QED BY <1>1, <3>1 DEF ClosedFrom
    <2>2. \A k, m \in From(f, i) : f[k] = f[m] /\ k # m => f[k] = None BY DEF Straight
    <2>3. CASE c = b
      <3>1. d \in From(f, i) /\ f[prev] = h[d] BY <1>7, <1>9, <2>3
      <3>2. CASE d = prev BY <1>9, <2>1, <2>3, <3>1, <3>2
      <3>3. CASE d # prev BY <1>2, <1>9, <2>2, <2>3, <3>1, <3>3
      <3> QED BY <3>2, <3>3
    <2>4. CASE d = b
      <3>1. c \in From(f, i) /\ f[prev] = h[c] BY <1>7, <1>9, <2>4
      <3>2. CASE c = prev BY <1>9, <2>1, <2>4, <3>1, <3>2
      <3>3. CASE c # prev BY <1>2, <1>9, <2>2, <2>4, <3>1, <3>3
      <3> QED BY <3>2, <3>3
    <2>5. CASE c # b /\ d # b
      <3>1. c \in From(f, i) /\ d \in From(f, i) BY <1>7, <2>5
      <3> QED BY <1>2, <1>9, <2>1, <2>2, <3>1
    <2> QED BY <2>3, <2>4, <2>5
  <1> QED BY <1>7, <1>8, <1>9 DEF Straight

\* The block behind another one is taken out.
LEMMA TakenBehind ==
  ASSUME NEW f \in Nodes, NEW h \in Nodes, NEW i \in Indices, Straight(f, i),
         NEW prev \in From(f, i), NEW r \in Blocks, f[prev] = r,
         h[prev] = f[r], \A c \in Blocks \ {prev} : h[c] = f[c]
  PROVE  From(h, i) = From(f, i) \ {r} /\ Straight(h, i) /\ r \in From(f, i)
  <1>1. /\ prev \in Blocks /\ From(f, i) \subseteq Blocks /\ r # None /\ r \in Indices
        /\ ClosedFrom(f, i, From(f, i))
    BY Closed, BlockListAssumption DEF Indices
  <1>2. r \in From(f, i) BY <1>1 DEF ClosedFrom
  <1>3. /\ prev \notin From(f, r) /\ From(f, r) = {r} \cup From(f, f[r])
        /\ r \notin From(f, f[r]) /\ f[r] # r /\ prev # r
    <2>1. From(f, r) = {r} \cup From(f, f[r]) BY FirstAndRest
    <2>2. r \notin From(f, f[r]) /\ prev \notin From(f, r) BY <1>2 DEF Straight
    <2>3. f[r] # r BY <2>1, <2>2
    <2> QED BY <2>1, <2>2, <2>3
  <1>4. i # r BY <1>3
  <1>5. ASSUME NEW j \in Indices, j # r, From(f, j) \subseteq From(f, i)
        PROVE  From(h, j) = From(f, j) \ {r}
    <2>1. ClosedFrom(f, j, From(f, j)) /\ ClosedFrom(h, j, From(h, j))
          /\ From(h, j) \in SUBSET Blocks /\ From(f, j) \in SUBSET Blocks
      BY Closed
    <2> DEFINE A == From(f, j) \ {r}
    <2>2. ClosedFrom(h, j, A)
      <3>1. ASSUME NEW c \in A, h[c] # None PROVE h[c] \in A
        <4>1. f[c] # None => f[c] \in From(f, j) BY <2>1 DEF ClosedFrom
        <4>2. CASE c = prev
          <5>1. r \in From(f, j) BY <1>1, <4>1, <4>2
          <5>2. h[c] = f[r] BY <4>2
          <5>3. f[r] \in From(f, j) BY <2>1, <3>1, <5>1, <5>2 DEF ClosedFrom
          <5> QED BY <1>3, <5>2, <5>3
        <4>3. CASE c # prev
          <5>1. h[c] = f[c] /\ c \in From(f, i) BY <1>1, <1>5, <4>3
          <5>2. f[c] # r BY <1>1, <4>3, <5>1 DEF Straight
          <5> QED BY <3>1, <4>1, <5>1, <5>2
        <4> QED BY <4>2, <4>3
      <3> QED BY <1>5, <2>1, <3>1 DEF ClosedFrom
    <2>3. From(h, j) \subseteq A BY <2>1, <2>2, Least
    <2>4. A \subseteq From(h, j)
      <3>1. CASE prev \in From(h, j)
        <4> DEFINE U == From(h, j) \cup {r}
        <4>1. ClosedFrom(f, j, U)
          <5>1. f[r] # None => f[r] \in From(h, j) BY <2>1, <3>1 DEF ClosedFrom
          <5>2. \A c \in From(h, j) : f[c] # None => f[c] \in U
            BY <2>1 DEF ClosedFrom
          <5> QED BY <2>1, <5>1, <5>2 DEF ClosedFrom
        <4>2. U \in SUBSET Blocks BY <2>1
        <4> HIDE DEF U
        <4>3. From(f, j) \subseteq U BY <4>1, <4>2, Least
        <4> QED BY <4>3 DEF U
      <3>2. CASE prev \notin From(h, j)
        <4>1. \A c \in From(h, j) : f[c] = h[c] BY <2>1, <3>2
        <4>2. ClosedFrom(f, j, From(h, j)) BY <2>1, <4>1 DEF ClosedFrom
        <4> QED BY <2>1, <4>2, Least
      <3> QED BY <3>1, <3>2
    <2> QED BY <2>3, <2>4
  <1>6. From(h, i) = From(f, i) \ {r} BY <1>4, <1>5
  <1>7. ASSUME NEW c \in From(h, i) PROVE c \notin From(h, h[c])
    <2>1. c \in From(f, i) /\ c # r BY <1>6
    <2>2. f[c] \in Indices /\ From(f, f[c]) \subseteq From(f, i) /\ c \notin From(f, f[c])
      BY <2>1, Onward DEF Straight
    <2>3. CASE c = prev
      <3>1. f[r] \in Indices /\ From(f, f[r]) \subseteq From(f, i) BY <1>2, Onward
      <3>2. From(h, f[r]) = From(f, f[r]) \ {r} BY <1>3, <1>5, <3>1
      <3> QED BY <1>3, <2>3, <3>2
    <2>4. CASE c # prev
      <3>1. h[c] = f[c] BY <1>1, <2>1, <2>4
      <3>2. f[c] # r BY <1>1, <2>1, <2>4 DEF Straight
      <3>3. From(h, f[c]) = From(f, f[c]) \ {r} BY <1>5, <2>2, <3>2
      <3> QED BY <2>2, <3>1, <3>3
    <2> QED BY <2>3, <2>4
  <1>8. ASSUME NEW c \in From(h, i), NEW d \in From(h, i), h[c] = h[d], c # d PROVE h[c] = None
    <2>1. \A k, m \in From(f, i) : f[k] = f[m] /\ k # m => f[k] = None BY DEF Straight
    <2>2. c \in From(f, i) \ {r} /\ d \in From(f, i) \ {r} BY <1>6
    <2>3. CASE c = prev
      <3>1. f[r] = f[d] BY <1>1, <1>8, <2>2, <2>3
      <3> QED BY <1>2, <2>1, <2>2, <2>3, <3>1
    <2>4. CASE d = prev
      <3>1. f[r] = f[c] BY <1>1, <1>8, <2>2, <2>4
      <3> QED BY <1>2, <1>8, <2>1, <2>2, <2>4, <3>1
    <2>5. CASE c # prev /\ d # prev BY <1>1, <1>8, <2>1, <2>2, <2>5
    <2> QED BY <2>3, <2>4, <2>5
  <1> QED BY <1>2, <1>6, <1>7, <1>8 DEF Straight

-----------------------------------------------------------------------------
(***************************************************************************)
(* A list that is made of a set of blocks.                                 *)
(***************************************************************************)

\* The blocks in any order are all of them, each once.
LEMMA OrderIsWhole ==
  ASSUME NEW S \in SUBSET Blocks, NEW order \in Orders(S)
  PROVE  /\ Cardinality(S) \in Nat /\ order \in [1..Cardinality(S) -> S]
         /\ Len(order) = Cardinality(S) /\ DOMAIN order = 1..Len(order)
         /\ ToSet(order) = S
         /\ \A j, k \in 1..Len(order) : order[j] = order[k] => j = k
  <1> DEFINE n == Cardinality(S)
             D == 1..n
  <1>1. IsFiniteSet(S) /\ n \in Nat
    BY BlockListAssumption, FS_Subset, FS_CardinalityType
  <1>2. order \in [D -> S] /\ \A j, k \in D : j # k => order[j] # order[k]
    BY DEF Orders, SetToSeqs
  <1>3. Len(order) = n /\ DOMAIN order = D BY <1>1, <1>2
  <1>4. IsFiniteSet(D) /\ Cardinality(D) = n
    <2>1. Cardinality(1..n) = IF 1 > n THEN 0 ELSE n - 1 + 1 BY <1>1, FS_Interval
    <2>2. IsFiniteSet(1..n) BY <1>1, FS_Interval
    <2> QED BY <1>1, <2>1, <2>2
  <1>5. order \in Injection(D, S) BY <1>2 DEF Injection, IsInjective
  <1>6. order \in Surjection(D, S)
    BY <1>1, <1>4, <1>5, FS_Injection
  <1>7. ToSet(order) = S
    BY <1>2, <1>3, <1>6 DEF ToSet, Surjection
  <1> QED BY <1>1, <1>2, <1>3, <1>7

\* Induction on natural numbers, with a set in place of a predicate.
LEMMA AllNaturals ==
  ASSUME NEW S \in SUBSET Nat, 0 \in S, \A n \in S : n + 1 \in S
  PROVE  S = Nat
  <1> SUFFICES ASSUME Nat \ S # {} PROVE FALSE OBVIOUS
  <1>1. PICK m \in Nat \ S : \A k \in Nat \ S : ~(<<k, m>> \in OpToRel(<, Nat))
    BY NatLessThanWellFounded, WFMin
  <1>2. \A k \in Nat \ S : ~(k < m) BY <1>1 DEF OpToRel
  <1>3. m \in Nat /\ m \notin S OBVIOUS
  <1>4. m # 0 BY <1>3
  <1>5. m - 1 \in Nat /\ m - 1 < m /\ (m - 1) + 1 = m BY <1>3, <1>4
  <1>6. m - 1 \in S BY <1>2, <1>5
  <1> QED BY <1>3, <1>5, <1>6

\* What the constructor pushes one after another is a list of just these blocks.
LEMMA ChainIsList ==
  ASSUME NEW S \in SUBSET Blocks, NEW order \in Orders(S), NEW old \in Nodes
  PROVE  /\ Chain(order, old) \in Nodes
         /\ \A b \in Blocks \ S : Chain(order, old)[b] = old[b]
         /\ Pushed(order) \in Heads
         /\ From(Chain(order, old), Pushed(order).index) = S
         /\ Straight(Chain(order, old), Pushed(order).index)
  <1> DEFINE h == Chain(order, old)
             n == Len(order)
             i == Pushed(order).index
  <1>1. /\ n \in Nat /\ order \in [1..n -> S] /\ DOMAIN order = 1..n /\ ToSet(order) = S
        /\ \A j, k \in 1..n : order[j] = order[k] => j = k
        /\ \A b \in S : \E k \in 1..n : order[k] = b
    <2>1. /\ n \in Nat /\ order \in [1..n -> S] /\ DOMAIN order = 1..n /\ ToSet(order) = S
          /\ \A j, k \in 1..n : order[j] = order[k] => j = k
      BY OrderIsWhole
    <2> QED BY <2>1 DEF ToSet
  <1>2. \A b \in Blocks :
            h[b] = IF b \notin S THEN old[b]
                   ELSE IF b = order[1] THEN None
                   ELSE order[CHOOSE k \in 1..(n - 1) : order[k + 1] = b]
    BY <1>1 DEF Chain
  <1>3. ASSUME NEW k \in 1..n
        PROVE  order[k] \in S /\ h[order[k]] = IF k = 1 THEN None ELSE order[k - 1]
    <2>1. order[k] \in S /\ order[k] \in Blocks BY <1>1
    <2>2. CASE k = 1 BY <1>2, <2>1, <2>2
    <2>3. CASE k # 1
      <3>1. 1 \in 1..n /\ k - 1 \in 1..(n - 1) /\ (k - 1) + 1 = k BY <1>1, <2>3
      <3>2. order[k] # order[1] BY <1>1, <2>3, <3>1
      <3> DEFINE m == CHOOSE c \in 1..(n - 1) : order[c + 1] = order[k]
      <3>3. m \in 1..(n - 1) /\ order[m + 1] = order[k] BY <3>1
      <3>4. m + 1 \in 1..n BY <1>1, <3>3
      <3>5. m + 1 = k BY <1>1, <3>3, <3>4
      <3>6. m = k - 1 BY <3>3, <3>5
      <3>7. h[order[k]] = order[m] BY <1>2, <2>1, <3>2
      <3> QED BY <2>1, <2>3, <3>6, <3>7
    <2> QED BY <2>2, <2>3
  <1>4. h \in Nodes
    <2>1. \A b \in S : h[b] \in Blocks \cup {None}
      <3> SUFFICES ASSUME NEW b \in S PROVE h[b] \in Blocks \cup {None} OBVIOUS
      <3>1. PICK k \in 1..n : order[k] = b BY <1>1
      <3>2. k # 1 => k - 1 \in 1..n BY <1>1
      <3> QED BY <1>1, <1>3, <3>1, <3>2
    <2>2. \A b \in Blocks : h[b] \in Blocks \cup {None} BY <1>2, <2>1 DEF Nodes
    <2> QED BY <2>2 DEF Nodes, Chain
  <1>5. \A b \in Blocks \ S : h[b] = old[b] BY <1>2
  <1>6. i = IF n = 0 THEN None ELSE order[n]
    <2>1. order = <<>> <=> n = 0 BY <1>1
    <2> QED BY <2>1 DEF Pushed, Last
  <1>7. i \in Indices /\ (n # 0 => i \in S)
    <2>1. n # 0 => n \in 1..n BY <1>1
    <2> QED BY <1>1, <1>6, <2>1 DEF Indices
  <1>8. Pushed(order) \in Heads
    <2>1. Len(order) % MarkWrap \in 0..(MarkWrap - 1) BY <1>1, BlockListAssumption
    <2>2. Pushed(order) = [index |-> i, mark |-> Len(order) % MarkWrap] BY DEF Pushed
    <2> QED BY <1>7, <2>1, <2>2 DEF Heads, Indices
  <1> HIDE DEF h, i, n
  <1>9. ASSUME NEW k \in 0..n, NEW j \in Indices, j = IF k = 0 THEN None ELSE order[k]
        PROVE  From(h, j) \subseteq {order[c] : c \in 1..k}
    <2> DEFINE A == {order[c] : c \in 1..k}
    <2>1. \A c \in 1..k : c \in 1..n BY <1>1
    <2>2. A \in SUBSET Blocks BY <1>1, <2>1
    <2>3. \A b \in A : h[b] # None => h[b] \in A
      <3> SUFFICES ASSUME NEW c \in 1..k, h[order[c]] # None PROVE h[order[c]] \in A OBVIOUS
      <3>1. c # 1 /\ h[order[c]] = order[c - 1] BY <1>3, <2>1
      <3>2. c - 1 \in 1..k BY <1>1, <3>1
      <3> QED BY <3>1, <3>2
    <2>4. j # None => j \in A
      <3>1. k # 0 => k \in 1..k BY <1>1
      <3> QED BY <1>9, <3>1
    <2>5. ClosedFrom(h, j, A) BY <2>3, <2>4 DEF ClosedFrom
    <2> HIDE DEF A
    <2>6. From(h, j) \subseteq A BY <1>4, <2>2, <2>5, Least
    <2> QED BY <2>6 DEF A
  <1>10. S \subseteq From(h, i)
    <2> DEFINE T == {m \in Nat : m < n => order[n - m] \in From(h, i)}
    <2>1. ClosedFrom(h, i, From(h, i)) BY <1>4, <1>7, Closed
    <2>2. \A b \in S : b # None BY BlockListAssumption
    <2>3. 0 \in T
      <3>1. 0 < n => i = order[n] /\ i \in S /\ n - 0 = n BY <1>1, <1>6, <1>7
      <3> QED BY <1>1, <2>1, <2>2, <3>1 DEF ClosedFrom
    <2>4. ASSUME NEW m \in T PROVE m + 1 \in T
      <3> SUFFICES ASSUME m + 1 < n PROVE order[n - (m + 1)] \in From(h, i) OBVIOUS
      <3>1. n - m \in 1..n /\ n - m # 1 /\ n - (m + 1) = (n - m) - 1 /\ (n - m) - 1 \in 1..n
        BY <1>1
      <3>2. order[n - m] \in From(h, i) BY <1>1
      <3>3. h[order[n - m]] = order[n - (m + 1)] BY <1>3, <3>1
      <3>4. order[n - (m + 1)] \in S BY <1>1, <3>1
      <3> QED BY <2>1, <2>2, <3>2, <3>3, <3>4 DEF ClosedFrom
    <2>5. T = Nat
      <3>1. T \in SUBSET Nat OBVIOUS
      <3> HIDE DEF T
      <3> QED BY <2>3, <2>4, <3>1, AllNaturals
    <2>6. ASSUME NEW b \in S PROVE b \in From(h, i)
      <3>1. PICK k \in 1..n : order[k] = b BY <1>1
      <3>2. n - k \in Nat /\ n - k < n /\ n - (n - k) = k BY <1>1
      <3>3. n - k \in T BY <2>5, <3>2
      <3> QED BY <3>1, <3>2, <3>3
    <2> QED BY <2>6
  <1>11. From(h, i) = S
    <2>1. n \in 0..n BY <1>1
    <2>2. From(h, i) \subseteq {order[c] : c \in 1..n} BY <1>6, <1>7, <1>9, <2>1
    <2>3. \A c \in 1..n : order[c] \in S BY <1>1
    <2> QED BY <1>10, <2>2, <2>3
  <1>12. ASSUME NEW b \in S PROVE b \notin From(h, h[b])
    <2>1. PICK k \in 1..n : order[k] = b BY <1>1
    <2>2. k - 1 \in 0..n /\ (k - 1 = 0 <=> k = 1) BY <1>1
    <2>3. h[b] \in Indices BY <1>4 DEF Nodes, Indices
    <2>4. h[b] = IF k - 1 = 0 THEN None ELSE order[k - 1] BY <1>3, <2>1, <2>2
    <2>5. From(h, h[b]) \subseteq {order[c] : c \in 1..(k - 1)} BY <1>9, <2>2, <2>3, <2>4
    <2>6. \A c \in 1..(k - 1) : c \in 1..n /\ c # k BY <1>1
    <2> QED BY <1>1, <2>1, <2>5, <2>6
  <1>13. ASSUME NEW b \in S, NEW c \in S, h[b] = h[c], b # c PROVE h[b] = None
    <2>1. PICK k \in 1..n : order[k] = b BY <1>1
    <2>2. PICK m \in 1..n : order[m] = c BY <1>1
    <2>3. CASE k = 1 BY <1>3, <2>1, <2>3
    <2>4. CASE m = 1 BY <1>3, <1>13, <2>2, <2>4
    <2>5. CASE k # 1 /\ m # 1
      <3>1. k - 1 \in 1..n /\ m - 1 \in 1..n BY <1>1, <2>5
      <3>2. order[k - 1] = order[m - 1] BY <1>3, <1>13, <2>1, <2>2, <2>5
      <3>3. k - 1 = m - 1 BY <1>1, <3>1, <3>2
      <3>4. k = m BY <1>1, <3>3
      <3> QED BY <1>13, <2>1, <2>2, <3>4
    <2> QED BY <2>3, <2>4, <2>5
  <1>14. Straight(h, i) BY <1>11, <1>12, <1>13 DEF Straight
  <1> QED BY <1>4, <1>5, <1>8, <1>11, <1>14 DEF h, i

-----------------------------------------------------------------------------
(***************************************************************************)
(* The mark.                                                               *)
(***************************************************************************)

Marks == 0..(MarkWrap - 1)

\* A mark that is less than a whole turn older differs.
LEMMA MarkTellsAge ==
  ASSUME NEW m \in Marks, NEW k \in Marks, (m + k) % MarkWrap = m
  PROVE  k = 0
  <1>1. m \in Nat /\ k \in Nat /\ m < MarkWrap /\ k < MarkWrap /\ MarkWrap \in Nat \ {0}
    BY BlockListAssumption DEF Marks
  <1>2. CASE m + k < MarkWrap
    <2>1. (m + k) % MarkWrap = m + k BY <1>1, <1>2
    <2> QED BY <1>1, <2>1
  <1>3. CASE m + k >= MarkWrap
    <2>1. m + k - MarkWrap \in 0..(MarkWrap - 1) BY <1>1, <1>3
    <2>2. (m + k) % MarkWrap = m + k - MarkWrap BY <1>1, <2>1
    <2> QED BY <1>1, <2>2
  <1> QED BY <1>1, <1>2, <1>3

LEMMA MarkGoesOn ==
  ASSUME NEW m \in Marks, NEW k \in Marks, NEW n, n = (m + k) % MarkWrap
  PROVE  (n + 1) % MarkWrap = (m + (k + 1)) % MarkWrap
  <1>1. m \in Nat /\ k \in Nat /\ m < MarkWrap /\ k < MarkWrap /\ MarkWrap \in Nat \ {0}
    BY BlockListAssumption DEF Marks
  <1>2. CASE m + k < MarkWrap
    <2>1. n = m + k BY <1>1, <1>2
    <2>2. n + 1 = m + (k + 1) BY <1>1, <2>1
    <2> QED BY <2>2
  <1>3. CASE m + k >= MarkWrap
    <2>1. m + k - MarkWrap \in 0..(MarkWrap - 1) BY <1>1, <1>3
    <2>2. n = m + k - MarkWrap BY <1>1, <2>1
    <2>3. n + 1 <= MarkWrap - 1 /\ n + 1 \in Nat /\ m + (k + 1) = n + 1 + MarkWrap
      BY <1>1, <2>1, <2>2
    <2>4. (n + 1) % MarkWrap = n + 1 BY <1>1, <2>3
    <2>5. (m + (k + 1)) % MarkWrap = n + 1 BY <1>1, <2>3
    <2> QED BY <2>4, <2>5
  <1> QED BY <1>1, <1>2, <1>3

-----------------------------------------------------------------------------
(***************************************************************************)
(* The steps.                                                              *)
(***************************************************************************)

\* The calls on free_ and stage_ that are made.
Call(a, p) ==
    \/ a \in Threads /\ p \in {"popFree", "pushStage"}
    \/ a = Reader /\ p \in {"popStage", "pushFree"}

\* What the invariant says of the lists as they are.
LEMMA ListsNow ==
  ASSUME BlocksInv
  PROVE  /\ next \in Nodes
         /\ \A l \in Lists : /\ First(l) \in Indices
                             /\ OnList(l) = From(next, First(l)) /\ OnList(l) \subseteq Blocks
                             /\ Straight(next, First(l))
                             /\ First(l) # None => First(l) \in OnList(l)
         /\ \A l \in {"free", "stage"} : First(l) = head[l].index /\ l \in Lists
         /\ First("used") = used
  <1>1. next \in Nodes /\ \A l \in Lists : First(l) \in Indices
    BY DEF BlocksInv, TypeOK, Nodes, Indices, Lists, First, Heads
  <1>2. \A l \in Lists : OnList(l) = From(next, First(l)) BY DEF OnList, Listed
  <1>3. \A l \in Lists : ClosedFrom(next, First(l), From(next, First(l)))
                         /\ From(next, First(l)) \in SUBSET Blocks
    BY <1>1, Closed
  <1>4. \A l \in Lists : First(l) # None => First(l) \in OnList(l)
    BY <1>2, <1>3 DEF ClosedFrom
  <1> QED BY <1>1, <1>2, <1>3, <1>4 DEF BlocksInv, First, Lists

\* Lists whose first index and links stay are the same.
LEMMA ListKept ==
  ASSUME BlocksInv, next' \in Nodes, NEW l \in Lists, First(l)' = First(l),
         \A b \in OnList(l) : next'[b] = next[b]
  PROVE  OnList(l)' = OnList(l) /\ Straight(next, First(l))'
  <1>1. Straight(next', First(l)) /\ From(next', First(l)) = From(next, First(l))
    BY ListsNow, StillStraight
  <1>2. OnList(l)' = From(next', First(l)) BY DEF OnList, Listed
  <1>3. Straight(next, First(l))' <=> Straight(next', First(l)) BY DEF Straight, From, ClosedFrom
  <1> QED BY <1>1, <1>2, <1>3, ListsNow

\* Of whom a call is made, and where he is in it.
LEMMA CallPlaces ==
  ASSUME NEW a \in Actors, NEW p, Call(a, p)
  PROVE  /\ p \in Popping \cup Pushing /\ (p \in Popping <=> p \notin Pushing)
         /\ Stack(p) \in {"free", "stage"} /\ Stack(p) \in Lists
         /\ <<p, "link">> \in Places(a) /\ <<p, "swap">> \in Places(a)
         /\ Idle \in Places(a) /\ Holding \in Places(a)
  <1>1. a \in Threads => a # Reader BY BlockListAssumption
  <1>2. p \in Popping \cup Pushing /\ (p \in Popping <=> p \notin Pushing)
    BY DEF Call, Popping, Pushing
  <1>3. Stack(p) \in {"free", "stage"} /\ Stack(p) \in Lists BY DEF Stack, Lists
  <1>4. Idle \in Places(a) /\ Holding \in Places(a) BY DEF Places
  <1>5. CASE a \in Threads
    <2>1. p \in {"popFree", "pushStage"} BY <1>1, <1>5 DEF Call
    <2>2. <<p, "link">> \in {"popFree", "pushStage"} \X {"link", "swap"} BY <2>1
    <2>3. <<p, "swap">> \in {"popFree", "pushStage"} \X {"link", "swap"} BY <2>1
    <2> QED BY <1>1, <1>2, <1>3, <1>4, <1>5, <2>2, <2>3 DEF Places
  <1>6. CASE a = Reader
    <2>1. p \in {"popStage", "pushFree"} BY <1>1, <1>6 DEF Call
    <2>2. <<p, "link">> \in {"popStage", "pushFree"} \X {"link", "swap"} BY <2>1
    <2>3. <<p, "swap">> \in {"popStage", "pushFree"} \X {"link", "swap"} BY <2>1
    <2> QED BY <1>2, <1>3, <1>4, <1>6, <2>2, <2>3 DEF Places
  <1> QED BY <1>5, <1>6 DEF Call

\* An actor is in one place at a time.
LEMMA OnePlace ==
  ASSUME NEW p, NEW q
  PROVE  /\ <<p, "link">> = <<q, "link">> <=> p = q
         /\ <<p, "swap">> = <<q, "swap">> <=> p = q
         /\ <<p, "link">> # <<q, "swap">>
         /\ p \in Popping \cup Pushing =>
                /\ \A w : <<p, w>> # Idle /\ <<p, w>> # Holding /\ <<p, w>> # Emptied
         /\ Idle # Holding /\ Idle # Emptied /\ Holding # Emptied
  <1>1. /\ <<p, "link">> = <<q, "link">> <=> p = q
        /\ <<p, "swap">> = <<q, "swap">> <=> p = q
        /\ <<p, "link">> # <<q, "swap">>
    OBVIOUS
  <1>2. ASSUME p \in Popping \cup Pushing, NEW w
        PROVE  <<p, w>> # Idle /\ <<p, w>> # Holding /\ <<p, w>> # Emptied
    <2>1. p # "none" BY <1>2 DEF Popping, Pushing
    <2> QED BY <2>1 DEF Idle, Holding, Emptied
  <1>3. Idle # Holding /\ Idle # Emptied /\ Holding # Emptied BY DEF Idle, Holding, Emptied
  <1> QED BY <1>1, <1>2, <1>3

\* Who has a block in hand.
LEMMA InHand ==
  ASSUME BlocksInv, NEW a \in Actors
  PROVE  /\ block[a] \in Blocks \cup {None}
         /\ pc[a] = Idle => block[a] = None
         /\ pc[a] \in {Holding, Emptied} => block[a] \in Blocks
         /\ \A p \in Pushing : At(a, p) => block[a] \in Blocks
         /\ \A p \in Popping : At(a, p) => block[a] = None
         /\ block[a] # None => \A l \in Lists : block[a] \notin OnList(l)
         /\ block[a] # None => \A c \in Actors \ {a} : block[c] # block[a]
  <1>1. block[a] \in Blocks \cup {None} BY DEF BlocksInv, TypeOK
  <1>2. block[a] # None <=> pc[a] \in {Holding, Emptied} \/ \E p \in Pushing : At(a, p)
    BY DEF BlocksInv, HandsByPlace
  <1>3. ASSUME pc[a] = Idle PROVE block[a] = None
    <2>1. \A p \in Pushing : ~At(a, p) BY <1>3, OnePlace DEF At
    <2> QED BY <1>2, <1>3, <2>1, OnePlace
  <1>4. ASSUME NEW p \in Popping, At(a, p) PROVE block[a] = None
    <2>1. pc[a] # Holding /\ pc[a] # Emptied BY <1>4, OnePlace DEF At
    <2>2. \A q \in Pushing : q # p BY DEF Popping, Pushing
    <2>3. \A q \in Pushing : ~At(a, q) BY <1>4, <2>2, OnePlace DEF At
    <2> QED BY <1>2, <2>1, <2>3
  <1>5. block[a] # None => \A l \in Lists : block[a] \notin OnList(l)
    BY DEF BlocksInv, EachBlockOnce
  <1>6. block[a] # None => \A c \in Actors \ {a} : block[c] # block[a]
    BY DEF BlocksInv, EachBlockOnce
  <1> QED BY <1>1, <1>2, <1>3, <1>4, <1>5, <1>6

\* One actor goes on, the others stay where they are.
LEMMA OneMoves ==
  ASSUME TypeOK, NEW a \in Actors, NEW w \in Places(a), Goto(a, w)
  PROVE  /\ pc'[a] = w /\ \A c \in Actors \ {a} : pc'[c] = pc[c]
         /\ \A c \in Actors : pc'[c] \in Places(c)
         /\ pc' = [c \in Actors |-> pc'[c]]
  <1>1. pc = [c \in Actors |-> pc[c]] /\ \A c \in Actors : pc[c] \in Places(c) BY DEF TypeOK
  <1>2. pc' = [c \in Actors |-> IF c = a THEN w ELSE pc[c]] BY <1>1 DEF Goto
  <1> QED BY <1>1, <1>2

LEMMA HandsKept ==
  ASSUME BlocksInv, NEW a \in Actors,
         \A c \in Actors \ {a} : pc'[c] = pc[c] /\ block'[c] = block[c],
         block'[a] # None <=> \/ pc'[a] \in {Holding, Emptied}
                              \/ \E p \in Pushing : pc'[a] = <<p, "link">> \/ pc'[a] = <<p, "swap">>
  PROVE  HandsByPlace'
  BY DEF BlocksInv, HandsByPlace, At

\* A copy is as good as it was if what it is about is as it was.
LEMMA CopyKept ==
  ASSUME BlocksInv, NEW c \in Actors, NEW q \in Popping \cup Pushing, At(c, q),
         pc'[c] = pc[c], copy'[c] = copy[c], age'[c] = age[c], seen'[c] = seen[c],
         block'[c] = block[c], head'[Stack(q)] = head[Stack(q)],
         q \in Pushing => next'[block[c]] = next[block[c]],
         q \in Popping /\ age[c] = 0 /\ copy[c].index # None =>
             next'[copy[c].index] = next[copy[c].index]
  PROVE  CopyFits(c, q)'
  <1>1. CopyFits(c, q) BY DEF BlocksInv, CopiesByAge
  <1> QED BY <1>1 DEF CopyFits

\* A copy that has just been made.
LEMMA FreshCopy ==
  ASSUME BlocksInv, NEW l \in {"free", "stage"}
  PROVE  /\ head[l] \in Heads /\ head[l].mark \in Marks /\ head[l].index \in Indices
         /\ head[l].mark = (head[l].mark + 0) % MarkWrap
  <1>1. head[l] \in Heads BY DEF BlocksInv, TypeOK
  <1>2. head[l].mark \in Marks /\ head[l].index \in Indices BY <1>1 DEF Heads, Marks, Indices
  <1>3. head[l].mark \in Nat /\ head[l].mark < MarkWrap /\ MarkWrap \in Nat \ {0}
    BY <1>2, BlockListAssumption DEF Marks
  <1>4. head[l].mark + 0 = head[l].mark /\ head[l].mark % MarkWrap = head[l].mark BY <1>3
  <1> QED BY <1>1, <1>2, <1>4

\* Lists nobody touches.
LEMMA ListsStay ==
  ASSUME BlocksInv, UNCHANGED <<head, used, next>>
  PROVE  \A l \in Lists : /\ First(l)' = First(l) /\ OnList(l)' = OnList(l)
                          /\ Straight(next, First(l))'
  <1>1. next' \in Nodes BY ListsNow
  <1>2. \A l \in Lists : First(l)' = First(l) BY DEF First
  <1> QED BY <1>1, <1>2, ListKept

LEMMA StartStep ==
  ASSUME BlocksInv, NEW a \in Actors, NEW p, Call(a, p), Start(a, p),
         IF p \in Pushing THEN pc[a] \in {Holding, Emptied} ELSE pc[a] = Idle
  PROVE  BlocksInv'
  <1> DEFINE s == Stack(p)
  <1>0. TypeOK BY DEF BlocksInv
  <1>1. /\ p \in Popping \cup Pushing /\ (p \in Popping <=> p \notin Pushing)
        /\ s \in {"free", "stage"} /\ s \in Lists /\ <<p, "link">> \in Places(a)
    BY CallPlaces
  <1>2. /\ pc'[a] = <<p, "link">> /\ \A c \in Actors \ {a} : pc'[c] = pc[c]
        /\ \A c \in Actors : pc'[c] \in Places(c)
        /\ pc' = [c \in Actors |-> pc'[c]]
    BY <1>0, <1>1, OneMoves DEF Start
  <1>3. UNCHANGED <<head, used, next, seen, block>> BY DEF Start
  <1>4. \A l \in Lists : First(l)' = First(l) /\ OnList(l)' = OnList(l) /\ Straight(next, First(l))'
    BY <1>3, ListsStay
  <1>5. /\ copy' = [copy EXCEPT ![a] = head[s]] /\ age' = [age EXCEPT ![a] = 0]
        /\ copy \in [Actors -> Heads] /\ age \in [Actors -> 0..(MarkWrap - 1)]
    BY <1>0 DEF Start, LoadHead, TypeOK
  <1>6. /\ copy'[a] = head[s] /\ age'[a] = 0
        /\ \A c \in Actors \ {a} : copy'[c] = copy[c] /\ age'[c] = age[c]
    BY <1>5
  <1>7. type \in [Blocks -> Lists] /\ type' = IF p \in Pushing THEN [type EXCEPT ![block[a]] = s] ELSE type
    BY <1>0 DEF Start, TypeOK, Lists
  <1>8. p \in Pushing => block[a] \in Blocks /\ type'[block[a]] = s
    BY <1>7, InHand
  <1>9. \A b \in Blocks : p \notin Pushing \/ b # block[a] => type'[b] = type[b]
    BY <1>7
  <1>10. TypeOK'
    <2>1. copy' \in [Actors -> Heads] BY <1>1, <1>5, FreshCopy
    <2>2. 0 \in 0..(MarkWrap - 1) BY BlockListAssumption
    <2>3. age' \in [Actors -> 0..(MarkWrap - 1)] BY <1>5, <2>2
    <2>4. type' \in [Blocks -> {"free", "stage", "used"}] BY <1>1, <1>7 DEF Lists
    <2> QED BY <1>0, <1>2, <1>3, <2>1, <2>3, <2>4 DEF TypeOK
  <1>11. EachBlockOnce' BY <1>3, <1>4 DEF BlocksInv, EachBlockOnce
  <1>12. TypesFit'
    <2>1. ASSUME NEW l \in Lists, NEW b \in OnList(l) PROVE type'[b] = l
      <3>1. b \in Blocks BY ListsNow
      <3>2. p \in Pushing => b # block[a] BY <1>8, InHand, BlockListAssumption
      <3> QED BY <1>9, <2>1, <3>1, <3>2 DEF BlocksInv, TypesFit
    <2>2. ASSUME NEW c \in Actors, NEW q \in Pushing, At(c, q)' PROVE type'[block[c]] = Stack(q)
      <3>1. CASE c = a
        <4>1. q = p BY <1>2, <2>2, <3>1, OnePlace DEF At
        <4> QED BY <1>8, <2>2, <3>1, <4>1
      <3>2. CASE c # a
        <4>1. At(c, q) BY <1>2, <2>2, <3>2 DEF At
        <4>2. block[c] \in Blocks /\ type[block[c]] = Stack(q)
          BY <4>1, InHand DEF BlocksInv, TypesFit
        <4>3. p \in Pushing => block[c] # block[a] BY <1>8, <3>2, InHand, BlockListAssumption
        <4> QED BY <1>9, <4>2, <4>3
      <3> QED BY <3>1, <3>2
    <2> QED BY <1>3, <1>4, <2>1, <2>2 DEF TypesFit
  <1>13. HandsByPlace'
    <2>1. p \in Pushing => block[a] # None BY <1>8, BlockListAssumption
    <2>2. p \notin Pushing => block[a] = None BY InHand
    <2>3. p \notin Pushing => \A q \in Pushing : pc'[a] # <<q, "link">> /\ pc'[a] # <<q, "swap">>
      BY <1>2, OnePlace
    <2>4. pc'[a] \notin {Holding, Emptied} BY <1>1, <1>2, OnePlace
    <2> QED BY <1>2, <1>3, <2>1, <2>2, <2>3, <2>4, HandsKept
  <1>14. CopiesByAge'
    <2> SUFFICES ASSUME NEW c \in Actors, NEW q \in Popping \cup Pushing, At(c, q)'
                 PROVE  CopyFits(c, q)'
      BY DEF CopiesByAge
    <2>1. CASE c = a
      <3>1. q = p /\ pc'[a] # <<q, "swap">> BY <1>2, <2>1, OnePlace DEF At
      <3>2. head[s].mark = (head[s].mark + 0) % MarkWrap BY <1>1, FreshCopy
      <3> QED BY <1>3, <1>6, <2>1, <3>1, <3>2 DEF CopyFits
    <2>2. CASE c # a
      <3>1. At(c, q) BY <1>2, <2>2 DEF At
      <3> QED BY <1>2, <1>3, <1>6, <2>2, <3>1, CopyKept
    <2> QED BY <2>1, <2>2
  <1> QED BY <1>4, <1>10, <1>11, <1>12, <1>13, <1>14 DEF BlocksInv

LEMMA PopLinkStep ==
  ASSUME BlocksInv, NEW a \in Actors, NEW p \in Popping, Call(a, p), PopLink(a, p)
  PROVE  BlocksInv'
  <1> DEFINE i == copy[a].index
             w == IF i = None THEN Idle ELSE <<p, "swap">>
  <1>0. TypeOK BY DEF BlocksInv
  <1>1. At(a, p) /\ block[a] = None BY InHand DEF PopLink, At
  <1>2. /\ p \notin Pushing /\ w \in Places(a) /\ Goto(a, w)
        /\ UNCHANGED <<head, used, next, type, copy, block, age>>
    BY CallPlaces DEF PopLink
  <1>3. /\ pc'[a] = w /\ \A c \in Actors \ {a} : pc'[c] = pc[c]
        /\ \A c \in Actors : pc'[c] \in Places(c)
        /\ pc' = [c \in Actors |-> pc'[c]]
    BY <1>0, <1>2, OneMoves
  <1>4. \A l \in Lists : First(l)' = First(l) /\ OnList(l)' = OnList(l) /\ Straight(next, First(l))'
    BY <1>2, ListsStay
  <1>5. i \in Indices BY <1>0 DEF TypeOK, Heads, Indices
  <1>6. /\ seen' \in [Actors -> Blocks \cup {None}]
        /\ i # None => seen'[a] = next[i]
        /\ \A c \in Actors \ {a} : seen'[c] = seen[c]
    <2>1. i # None => next[i] \in Blocks \cup {None} BY <1>5, ListsNow DEF Indices, Nodes
    <2>2. seen \in [Actors -> Blocks \cup {None}] BY <1>0 DEF TypeOK
    <2>3. seen' = IF i = None THEN seen ELSE [seen EXCEPT ![a] = next[i]] BY DEF PopLink
    <2> QED BY <2>1, <2>2, <2>3
  <1>7. TypeOK' BY <1>0, <1>2, <1>3, <1>6 DEF TypeOK
  <1>8. EachBlockOnce' BY <1>2, <1>4 DEF BlocksInv, EachBlockOnce
  <1>9. pc'[a] \notin {Holding, Emptied} /\ \A q \in Pushing : pc'[a] # <<q, "link">> /\ pc'[a] # <<q, "swap">>
    BY <1>2, <1>3, OnePlace
  <1>10. TypesFit'
    <2>1. ASSUME NEW c \in Actors, NEW q \in Pushing, At(c, q)' PROVE At(c, q)
      BY <1>3, <1>9, <2>1 DEF At
    <2> QED BY <1>2, <1>4, <2>1 DEF BlocksInv, TypesFit
  <1>11. HandsByPlace' BY <1>1, <1>2, <1>3, <1>9, HandsKept
  <1>12. CopiesByAge'
    <2> SUFFICES ASSUME NEW c \in Actors, NEW q \in Popping \cup Pushing, At(c, q)'
                 PROVE  CopyFits(c, q)'
      BY DEF CopiesByAge
    <2>1. CASE c = a
      <3>1. i # None /\ q = p
        <4>1. Idle # <<q, "link">> /\ Idle # <<q, "swap">> BY OnePlace
        <4>2. pc'[a] # Idle BY <2>1, <4>1 DEF At
        <4>3. pc'[a] = <<p, "swap">> BY <1>3, <4>2
        <4> QED BY <1>3, <2>1, <4>2, <4>3, OnePlace DEF At
      <3>2. CopyFits(a, p) BY <1>1, <3>1 DEF BlocksInv, CopiesByAge
      <3> QED BY <1>2, <1>6, <2>1, <3>1, <3>2 DEF CopyFits
    <2>2. CASE c # a
      <3>1. At(c, q) BY <1>3, <2>2 DEF At
      <3> QED BY <1>2, <1>3, <1>6, <2>2, <3>1, CopyKept
    <2> QED BY <2>1, <2>2
  <1> QED BY <1>4, <1>7, <1>8, <1>10, <1>11, <1>12 DEF BlocksInv

LEMMA PushLinkStep ==
  ASSUME BlocksInv, NEW a \in Actors, NEW p \in Pushing, Call(a, p), PushLink(a, p)
  PROVE  BlocksInv'
  <1> DEFINE b == block[a]
             i == copy[a].index
  <1>0. TypeOK BY DEF BlocksInv
  <1>1. /\ At(a, p) /\ b \in Blocks /\ b # None
        /\ \A l \in Lists : b \notin OnList(l)
        /\ \A c \in Actors \ {a} : block[c] # b
    BY InHand, BlockListAssumption DEF PushLink, At
  <1>2. /\ <<p, "swap">> \in Places(a) /\ Goto(a, <<p, "swap">>)
        /\ UNCHANGED <<head, used, type, copy, block, age>>
    BY CallPlaces DEF PushLink
  <1>3. /\ pc'[a] = <<p, "swap">> /\ \A c \in Actors \ {a} : pc'[c] = pc[c]
        /\ \A c \in Actors : pc'[c] \in Places(c)
        /\ pc' = [c \in Actors |-> pc'[c]]
    BY <1>0, <1>2, OneMoves
  <1>4. i \in Indices BY <1>0 DEF TypeOK, Heads, Indices
  <1>5. next' \in Nodes /\ next'[b] = i /\ \A c \in Blocks \ {b} : next'[c] = next[c]
    <2>1. next \in Nodes /\ next' = [next EXCEPT ![b] = i] BY ListsNow DEF PushLink
    <2> QED BY <1>1, <1>4, <2>1 DEF Nodes, Indices
  <1>6. \A l \in Lists : First(l)' = First(l) /\ OnList(l)' = OnList(l) /\ Straight(next, First(l))'
    <2> SUFFICES ASSUME NEW l \in Lists
                 PROVE  First(l)' = First(l) /\ OnList(l)' = OnList(l) /\ Straight(next, First(l))'
      OBVIOUS
    <2>1. First(l)' = First(l) BY <1>2 DEF First
    <2>2. \A c \in OnList(l) : next'[c] = next[c] BY <1>1, <1>5, ListsNow
    <2> QED BY <1>5, <2>1, <2>2, ListKept
  <1>7. /\ seen' \in [Actors -> Blocks \cup {None}] /\ seen'[a] = b
        /\ \A c \in Actors \ {a} : seen'[c] = seen[c]
    <2>1. seen \in [Actors -> Blocks \cup {None}] /\ seen' = [seen EXCEPT ![a] = b]
      BY <1>0 DEF TypeOK, PushLink
    <2> QED BY <1>1, <2>1
  <1>8. TypeOK' BY <1>0, <1>2, <1>3, <1>5, <1>7 DEF TypeOK, Nodes
  <1>9. EachBlockOnce' BY <1>2, <1>6 DEF BlocksInv, EachBlockOnce
  <1>10. TypesFit'
    <2>1. ASSUME NEW c \in Actors, NEW q \in Pushing, At(c, q)' PROVE At(c, q)
      <3>1. c = a => q = p BY <1>3, <2>1, OnePlace DEF At
      <3> QED BY <1>1, <1>3, <2>1, <3>1 DEF At
    <2> QED BY <1>2, <1>6, <2>1 DEF BlocksInv, TypesFit
  <1>11. HandsByPlace' BY <1>1, <1>2, <1>3, HandsKept
  <1>12. CopiesByAge'
    <2> SUFFICES ASSUME NEW c \in Actors, NEW q \in Popping \cup Pushing, At(c, q)'
                 PROVE  CopyFits(c, q)'
      BY DEF CopiesByAge
    <2>1. CASE c = a
      <3>1. q = p /\ q \notin Popping
        <4>1. q = p BY <1>3, <2>1, OnePlace DEF At
        <4> QED BY <4>1 DEF Pushing, Popping
      <3>2. CopyFits(a, p) BY <1>1, <3>1 DEF BlocksInv, CopiesByAge
      <3> QED BY <1>2, <1>5, <1>7, <2>1, <3>1, <3>2 DEF CopyFits
    <2>2. CASE c # a
      <3>1. At(c, q) BY <1>3, <2>2 DEF At
      <3>2. q \in Pushing => next'[block[c]] = next[block[c]]
        BY <1>1, <1>5, <2>2, <3>1, InHand
      <3>3. ASSUME q \in Popping, age[c] = 0, copy[c].index # None
            PROVE  next'[copy[c].index] = next[copy[c].index]
        <4>1. head[Stack(q)] = copy[c] BY <3>1, <3>3 DEF BlocksInv, CopiesByAge, CopyFits
        <4>2. Stack(q) \in {"free", "stage"} BY DEF Stack
        <4>3. copy[c].index \in OnList(Stack(q)) /\ Stack(q) \in Lists
          BY <3>3, <4>1, <4>2, ListsNow
        <4> QED BY <1>1, <1>5, <4>3, ListsNow
      <3> QED BY <1>2, <1>3, <1>7, <2>2, <3>1, <3>2, <3>3, CopyKept
    <2> QED BY <2>1, <2>2
  <1> QED BY <1>6, <1>8, <1>9, <1>10, <1>11, <1>12 DEF BlocksInv

\* The swap fails: another look at the head.
LEMMA RetryStep ==
  ASSUME BlocksInv, NEW a \in Actors, NEW p, Call(a, p), NEW done, NEW result,
         Swap(a, p, done, result), head[Stack(p)] # copy[a]
  PROVE  BlocksInv'
  <1> DEFINE s == Stack(p)
  <1>0. TypeOK BY DEF BlocksInv
  <1>1. /\ p \in Popping \cup Pushing /\ (p \in Popping <=> p \notin Pushing)
        /\ s \in {"free", "stage"} /\ <<p, "link">> \in Places(a)
    BY CallPlaces
  <1>2. /\ At(a, p) /\ LoadHead(a, s) /\ Goto(a, <<p, "link">>)
        /\ UNCHANGED <<head, seen, block, used, next, type>>
    BY DEF Swap, At
  <1>3. /\ pc'[a] = <<p, "link">> /\ \A c \in Actors \ {a} : pc'[c] = pc[c]
        /\ \A c \in Actors : pc'[c] \in Places(c)
        /\ pc' = [c \in Actors |-> pc'[c]]
    BY <1>0, <1>1, <1>2, OneMoves
  <1>4. \A l \in Lists : First(l)' = First(l) /\ OnList(l)' = OnList(l) /\ Straight(next, First(l))'
    BY <1>2, ListsStay
  <1>5. /\ copy' = [copy EXCEPT ![a] = head[s]] /\ age' = [age EXCEPT ![a] = 0]
        /\ copy \in [Actors -> Heads] /\ age \in [Actors -> 0..(MarkWrap - 1)]
    BY <1>0, <1>2 DEF LoadHead, TypeOK
  <1>6. /\ copy'[a] = head[s] /\ age'[a] = 0
        /\ \A c \in Actors \ {a} : copy'[c] = copy[c] /\ age'[c] = age[c]
    BY <1>5
  <1>7. TypeOK'
    <2>1. copy' \in [Actors -> Heads] BY <1>1, <1>5, FreshCopy
    <2>2. 0 \in 0..(MarkWrap - 1) BY BlockListAssumption
    <2>3. age' \in [Actors -> 0..(MarkWrap - 1)] BY <1>5, <2>2
    <2> QED BY <1>0, <1>2, <1>3, <2>1, <2>3 DEF TypeOK
  <1>8. EachBlockOnce' BY <1>2, <1>4 DEF BlocksInv, EachBlockOnce
  <1>9. TypesFit'
    <2>1. ASSUME NEW c \in Actors, NEW q \in Pushing, At(c, q)' PROVE At(c, q)
      <3>1. c = a => q = p BY <1>3, <2>1, OnePlace DEF At
      <3> QED BY <1>2, <1>3, <2>1, <3>1 DEF At
    <2> QED BY <1>2, <1>4, <2>1 DEF BlocksInv, TypesFit
  <1>10. HandsByPlace'
    <2>1. p \in Pushing => block[a] # None BY <1>2, InHand, BlockListAssumption
    <2>2. p \notin Pushing => block[a] = None BY <1>1, <1>2, InHand
    <2>3. p \notin Pushing => \A q \in Pushing : pc'[a] # <<q, "link">> /\ pc'[a] # <<q, "swap">>
      BY <1>3, OnePlace
    <2>4. pc'[a] \notin {Holding, Emptied} BY <1>1, <1>3, OnePlace
    <2> QED BY <1>2, <1>3, <2>1, <2>2, <2>3, <2>4, HandsKept
  <1>11. CopiesByAge'
    <2> SUFFICES ASSUME NEW c \in Actors, NEW q \in Popping \cup Pushing, At(c, q)'
                 PROVE  CopyFits(c, q)'
      BY DEF CopiesByAge
    <2>1. CASE c = a
      <3>1. q = p /\ pc'[a] # <<q, "swap">> BY <1>3, <2>1, OnePlace DEF At
      <3>2. head[s].mark = (head[s].mark + 0) % MarkWrap BY <1>1, FreshCopy
      <3> QED BY <1>2, <1>6, <2>1, <3>1, <3>2 DEF CopyFits
    <2>2. CASE c # a
      <3>1. At(c, q) BY <1>3, <2>2 DEF At
      <3> QED BY <1>2, <1>3, <1>6, <2>2, <3>1, CopyKept
    <2> QED BY <2>1, <2>2
  <1> QED BY <1>4, <1>7, <1>8, <1>9, <1>10, <1>11 DEF BlocksInv

\* A swap that succeeds does so with the head as it was read last: the mark
\* would tell if it had been changed since.
LEMMA SwapIsFresh ==
  ASSUME BlocksInv, NEW a \in Actors, NEW p, Call(a, p),
         pc[a] = <<p, "swap">>, head[Stack(p)] = copy[a]
  PROVE  age[a] = 0 /\ CopyFits(a, p)
  <1>1. p \in Popping \cup Pushing /\ At(a, p) BY CallPlaces DEF At
  <1>2. CopyFits(a, p) BY <1>1 DEF BlocksInv, CopiesByAge
  <1>3. copy[a].mark \in Marks /\ age[a] \in Marks
    BY DEF BlocksInv, TypeOK, Heads, Marks
  <1>4. (copy[a].mark + age[a]) % MarkWrap = copy[a].mark BY <1>2 DEF CopyFits
  <1> QED BY <1>2, <1>3, <1>4, MarkTellsAge

\* What a swap that succeeds does, whoever makes it.
LEMMA SwapDone ==
  ASSUME BlocksInv, NEW a \in Actors, NEW p, Call(a, p),
         NEW done \in {Idle, Holding}, NEW result \in Blocks \cup {None},
         Swap(a, p, done, result), head[Stack(p)] = copy[a]
  PROVE  /\ At(a, p) /\ next' = next /\ used' = used /\ type' = type
         /\ First(Stack(p))' = seen[a]
         /\ \A l \in Lists \ {Stack(p)} : First(l)' = First(l)
         /\ block'[a] = result /\ \A c \in Actors \ {a} : block'[c] = block[c]
         /\ pc'[a] = done /\ \A c \in Actors \ {a} : pc'[c] = pc[c]
         /\ TypeOK' /\ CopiesByAge'
  <1> DEFINE s == Stack(p)
             h == [index |-> seen[a], mark |-> Marked(head[s])]
  <1>0. TypeOK BY DEF BlocksInv
  <1>1. /\ p \in Popping \cup Pushing /\ s \in {"free", "stage"} /\ s \in Lists
        /\ done \in Places(a)
    BY CallPlaces
  <1>2. /\ At(a, p) /\ WithinAWrap(a, s) /\ Goto(a, done)
        /\ UNCHANGED <<used, next, type>>
        /\ head' = [head EXCEPT ![s] = h]
        /\ age' = [c \in Actors |-> IF c = a THEN 0
                                   ELSE IF c \in InFlight(s) THEN age[c] + 1 ELSE age[c]]
        /\ block' = [block EXCEPT ![a] = result]
        /\ copy' = [copy EXCEPT ![a] = Empty]
        /\ seen' = [seen EXCEPT ![a] = None]
    BY DEF Swap, At
  <1>3. /\ pc'[a] = done /\ \A c \in Actors \ {a} : pc'[c] = pc[c]
        /\ \A c \in Actors : pc'[c] \in Places(c)
        /\ pc' = [c \in Actors |-> pc'[c]]
    BY <1>0, <1>1, <1>2, OneMoves
  <1>4. h \in Heads /\ Empty \in Heads
    <2>1. head[s].mark \in Marks BY <1>1, FreshCopy
    <2>2. (head[s].mark + 1) % MarkWrap \in 0..(MarkWrap - 1) /\ 0 \in 0..(MarkWrap - 1)
      BY <2>1, BlockListAssumption DEF Marks
    <2>3. seen[a] \in Blocks \cup {None} BY <1>0 DEF TypeOK
    <2> QED BY <2>2, <2>3 DEF Heads, Empty, Marked
  <1>5. /\ head' \in [{"free", "stage"} -> Heads] /\ head'[s] = h
        /\ \A l \in {"free", "stage"} \ {s} : head'[l] = head[l]
    <2>1. head \in [{"free", "stage"} -> Heads] BY <1>0 DEF TypeOK
    <2> HIDE DEF h
    <2> QED BY <1>1, <1>2, <1>4, <2>1
  <1>6. /\ block' \in [Actors -> Blocks \cup {None}] /\ block'[a] = result
        /\ copy' \in [Actors -> Heads] /\ seen' \in [Actors -> Blocks \cup {None}]
        /\ \A c \in Actors \ {a} : block'[c] = block[c] /\ copy'[c] = copy[c] /\ seen'[c] = seen[c]
    BY <1>0, <1>2, <1>4 DEF TypeOK
  <1>7. \A c \in Actors \ {a} : c \in InFlight(s) =>
            /\ age'[c] = age[c] + 1 /\ age'[c] \in Marks /\ age'[c] # 0 /\ age[c] \in Marks
    <2> SUFFICES ASSUME NEW c \in Actors \ {a}, c \in InFlight(s)
                 PROVE  /\ age'[c] = age[c] + 1 /\ age'[c] \in Marks /\ age'[c] # 0
                        /\ age[c] \in Marks
      OBVIOUS
    <2>1. age'[c] = age[c] + 1 BY <1>2
    <2>2. age[c] \in Marks BY <1>0 DEF TypeOK, Marks
    <2>3. age[c] + 1 < MarkWrap BY <1>2 DEF WithinAWrap
    <2>4. age[c] \in Nat /\ age[c] + 1 \in Nat /\ age[c] + 1 # 0 BY <2>2 DEF Marks
    <2>5. age[c] + 1 \in Marks BY <2>3, <2>4, BlockListAssumption DEF Marks
    <2> QED BY <2>1, <2>2, <2>4, <2>5
  <1>8. \A c \in Actors \ {a} : c \notin InFlight(s) => age'[c] = age[c]
    BY <1>2
  <1>9. age' \in [Actors -> 0..(MarkWrap - 1)]
    <2>1. 0 \in 0..(MarkWrap - 1) BY BlockListAssumption
    <2>2. \A c \in Actors : age[c] \in 0..(MarkWrap - 1) BY <1>0 DEF TypeOK
    <2>3. \A c \in Actors : age'[c] \in 0..(MarkWrap - 1)
      BY <1>2, <1>7, <1>8, <2>1, <2>2 DEF Marks
    <2> QED BY <1>2, <2>3
  <1>10. TypeOK' BY <1>0, <1>2, <1>3, <1>5, <1>6, <1>9 DEF TypeOK
  <1>11. CopiesByAge'
    <2> SUFFICES ASSUME NEW c \in Actors, NEW q \in Popping \cup Pushing, At(c, q)'
                 PROVE  CopyFits(c, q)'
      BY DEF CopiesByAge
    <2>1. c # a
      <3>1. done # <<q, "link">> /\ done # <<q, "swap">> BY OnePlace
      <3> QED BY <1>3, <3>1 DEF At
    <2>2. At(c, q) BY <1>3, <2>1 DEF At
    <2>3. CopyFits(c, q) BY <2>2 DEF BlocksInv, CopiesByAge
    <2>4. CASE Stack(q) = s
      <3>1. c \in InFlight(s) BY <2>2, <2>4 DEF InFlight
      <3>2. age'[c] = age[c] + 1 /\ age'[c] # 0 /\ age[c] \in Marks BY <1>7, <2>1, <3>1
      <3>3. copy[c].mark \in Marks BY <1>0 DEF TypeOK, Heads, Marks
      <3>4. head[s].mark = (copy[c].mark + age[c]) % MarkWrap BY <2>3, <2>4 DEF CopyFits
      <3>5. (head[s].mark + 1) % MarkWrap = (copy[c].mark + (age[c] + 1)) % MarkWrap
        BY <3>2, <3>3, <3>4, MarkGoesOn
      <3>6. head'[s].mark = (copy'[c].mark + age'[c]) % MarkWrap
        BY <1>5, <1>6, <2>1, <3>2, <3>5 DEF Marked
      <3> QED BY <1>2, <1>3, <1>6, <2>1, <2>3, <2>4, <3>2, <3>6 DEF CopyFits
    <2>5. CASE Stack(q) # s
      <3>1. c \notin InFlight(s)
        <4> SUFFICES ASSUME NEW r \in Popping \cup Pushing, At(c, r), Stack(r) = s PROVE FALSE
          BY DEF InFlight
        <4>1. r = q BY <2>2, OnePlace DEF At
        <4> QED BY <2>5, <4>1
      <3>2. Stack(q) \in {"free", "stage"} BY DEF Stack
      <3> QED BY <1>2, <1>3, <1>5, <1>6, <1>8, <2>1, <2>2, <2>5, <3>1, <3>2, CopyKept
    <2> QED BY <2>4, <2>5
  <1>12. First(s)' = seen[a] BY <1>1, <1>5 DEF First
  <1>13. \A l \in Lists \ {s} : First(l)' = First(l) BY <1>2, <1>5 DEF First, Lists
  <1> QED BY <1>2, <1>3, <1>6, <1>10, <1>11, <1>12, <1>13

\* A block goes from a list to a hand, or from a hand to a list.
LEMMA BlockTaken ==
  ASSUME BlocksInv, NEW a \in Actors, NEW s \in Lists, NEW b \in OnList(s),
         block[a] = None, block'[a] = b, \A c \in Actors \ {a} : block'[c] = block[c],
         OnList(s)' = OnList(s) \ {b}, \A l \in Lists \ {s} : OnList(l)' = OnList(l)
  PROVE  EachBlockOnce'
  <1>1. b \in Blocks /\ b # None BY ListsNow, BlockListAssumption
  <1>2. \A l \in Lists : OnList(l)' \subseteq OnList(l) /\ b \notin OnList(l)'
    BY DEF BlocksInv, EachBlockOnce
  <1>3. \A l, m \in Lists : l # m => OnList(l)' \cap OnList(m)' = {}
    BY <1>2 DEF BlocksInv, EachBlockOnce
  <1>4. \A c \in Actors, l \in Lists : block'[c] \notin OnList(l)'
    BY <1>2 DEF BlocksInv, EachBlockOnce
  <1>5. \A c \in Actors \ {a} : block'[c] # b BY DEF BlocksInv, EachBlockOnce
  <1>6. \A c, d \in Actors : c # d /\ block'[c] = block'[d] => block'[c] = None
    BY <1>5 DEF BlocksInv, EachBlockOnce
  <1>7. ASSUME NEW c \in Blocks
        PROVE  (\E l \in Lists : c \in OnList(l)') \/ (\E d \in Actors : block'[d] = c)
    <2>1. CASE c = b BY <2>1
    <2>2. CASE c # b
      <3>1. CASE \E l \in Lists : c \in OnList(l) BY <2>2, <3>1
      <3>2. CASE \E d \in Actors : block[d] = c
        <4>1. c # None BY BlockListAssumption
        <4> QED BY <3>2, <4>1
      <3> QED BY <3>1, <3>2 DEF BlocksInv, EachBlockOnce
    <2> QED BY <2>1, <2>2
  <1> QED BY <1>3, <1>4, <1>6, <1>7 DEF EachBlockOnce

LEMMA BlockGiven ==
  ASSUME BlocksInv, NEW a \in Actors, NEW s \in Lists, NEW b \in Blocks,
         block[a] = b, block'[a] = None, \A c \in Actors \ {a} : block'[c] = block[c],
         OnList(s)' = {b} \cup OnList(s), \A l \in Lists \ {s} : OnList(l)' = OnList(l)
  PROVE  EachBlockOnce'
  <1>1. b # None BY BlockListAssumption
  <1>2. \A l \in Lists : b \notin OnList(l) BY DEF BlocksInv, EachBlockOnce
  <1>3. \A l, m \in Lists : l # m => OnList(l)' \cap OnList(m)' = {}
    BY <1>2 DEF BlocksInv, EachBlockOnce
  <1>4. \A c \in Actors \ {a} : block'[c] # b BY <1>1 DEF BlocksInv, EachBlockOnce
  <1>5. \A l \in Lists : None \notin OnList(l)'
    <2>1. \A l \in Lists : None \notin OnList(l) BY ListsNow, BlockListAssumption
    <2> QED BY <1>1, <2>1
  <1>6. \A c \in Actors, l \in Lists : block'[c] \notin OnList(l)'
    BY <1>4, <1>5 DEF BlocksInv, EachBlockOnce
  <1>7. \A c, d \in Actors : c # d /\ block'[c] = block'[d] => block'[c] = None
    BY DEF BlocksInv, EachBlockOnce
  <1>8. ASSUME NEW c \in Blocks
        PROVE  (\E l \in Lists : c \in OnList(l)') \/ (\E d \in Actors : block'[d] = c)
    <2>1. CASE c = b BY <2>1
    <2>2. CASE c # b
      <3>1. CASE \E l \in Lists : c \in OnList(l) BY <3>1
      <3>2. CASE \E d \in Actors : block[d] = c BY <2>2, <3>2
      <3> QED BY <3>1, <3>2 DEF BlocksInv, EachBlockOnce
    <2> QED BY <2>1, <2>2
  <1> QED BY <1>3, <1>6, <1>7, <1>8 DEF EachBlockOnce

\* A push is over: nobody else pushes because of that.
LEMMA PushersStay ==
  ASSUME NEW a \in Actors, pc'[a] \in {Idle, Holding, Emptied},
         \A c \in Actors \ {a} : pc'[c] = pc[c],
         NEW c \in Actors, NEW q \in Popping \cup Pushing, At(c, q)'
  PROVE  c # a /\ At(c, q)
  <1>1. c # a
    <2>1. \A w : <<q, w>> # Idle /\ <<q, w>> # Holding /\ <<q, w>> # Emptied BY OnePlace
    <2> QED BY <2>1 DEF At
  <1> QED BY <1>1 DEF At

LEMMA PopSwapStep ==
  ASSUME BlocksInv, NEW a \in Actors, NEW p \in Popping, Call(a, p),
         Swap(a, p, Holding, copy[a].index)
  PROVE  BlocksInv'
  <1> DEFINE s == Stack(p)
             b == copy[a].index
  <1>1. CASE head[s] # copy[a] BY <1>1, RetryStep
  <1>2. CASE head[s] = copy[a]
    <2>1. pc[a] = <<p, "swap">> BY DEF Swap
    <2>2. age[a] = 0 /\ CopyFits(a, p) BY <1>2, <2>1, SwapIsFresh
    <2>3. s \in {"free", "stage"} /\ s \in Lists /\ p \notin Pushing BY CallPlaces
    <2>4. b = First(s) /\ b \in Blocks /\ b # None /\ seen[a] = next[b]
      <3>1. b = First(s) /\ First(s) \in Indices BY <1>2, <2>3, ListsNow
      <3>2. b # None /\ seen[a] = next[b] BY <2>1, <2>2 DEF CopyFits
      <3> QED BY <3>1, <3>2 DEF Indices
    <2>5. b \in Blocks \cup {None} /\ Holding \in {Idle, Holding} BY <2>4
    <2>6. /\ At(a, p) /\ next' = next /\ used' = used /\ type' = type
          /\ First(s)' = next[b] /\ \A l \in Lists \ {s} : First(l)' = First(l)
          /\ block'[a] = b /\ \A c \in Actors \ {a} : block'[c] = block[c]
          /\ pc'[a] = Holding /\ \A c \in Actors \ {a} : pc'[c] = pc[c]
          /\ TypeOK' /\ CopiesByAge'
      BY <1>2, <2>4, <2>5, SwapDone
    <2>7. next \in Nodes /\ OnList(s) = From(next, b) /\ Straight(next, b)
      BY <2>3, <2>4, ListsNow
    <2>8. From(next, next[b]) = OnList(s) \ {b} /\ Straight(next, next[b]) /\ b \in OnList(s)
      BY <2>4, <2>7, Popped1
    <2>9. OnList(s)' = OnList(s) \ {b} /\ Straight(next, First(s))'
      <3>1. OnList(s)' = From(next', First(s)') BY DEF OnList, Listed
      <3>2. Straight(next, First(s))' <=> Straight(next', First(s)') BY DEF Straight, From, ClosedFrom
      <3> QED BY <2>6, <2>8, <3>1, <3>2
    <2>10. \A l \in Lists \ {s} : OnList(l)' = OnList(l) /\ Straight(next, First(l))'
      BY <2>6, <2>7, ListKept
    <2>11. EachBlockOnce'
      <3>1. block[a] = None BY <2>6, InHand
      <3> QED BY <2>3, <2>6, <2>8, <2>9, <2>10, <3>1, BlockTaken
    <2>12. TypesFit'
      <3>1. \A l \in Lists : OnList(l)' \subseteq OnList(l) BY <2>9, <2>10
      <3>2. ASSUME NEW c \in Actors, NEW q \in Pushing, At(c, q)'
            PROVE  c # a /\ At(c, q)
        BY <2>6, <3>2, PushersStay
      <3> QED BY <2>6, <3>1, <3>2 DEF BlocksInv, TypesFit
    <2>13. HandsByPlace' BY <2>4, <2>6, HandsKept
    <2> QED BY <2>3, <2>6, <2>9, <2>10, <2>11, <2>12, <2>13 DEF BlocksInv
  <1> QED BY <1>1, <1>2

LEMMA PushSwapStep ==
  ASSUME BlocksInv, NEW a \in Actors, NEW p \in Pushing, Call(a, p), Swap(a, p, Idle, None)
  PROVE  BlocksInv'
  <1> DEFINE s == Stack(p)
             b == block[a]
  <1>1. CASE head[s] # copy[a] BY <1>1, RetryStep
  <1>2. CASE head[s] = copy[a]
    <2>1. pc[a] = <<p, "swap">> BY DEF Swap
    <2>2. age[a] = 0 /\ CopyFits(a, p) BY <1>2, <2>1, SwapIsFresh
    <2>3. s \in {"free", "stage"} /\ s \in Lists BY CallPlaces
    <2>4. /\ At(a, p) /\ next' = next /\ used' = used /\ type' = type
          /\ First(s)' = seen[a] /\ \A l \in Lists \ {s} : First(l)' = First(l)
          /\ block'[a] = None /\ \A c \in Actors \ {a} : block'[c] = block[c]
          /\ pc'[a] = Idle /\ \A c \in Actors \ {a} : pc'[c] = pc[c]
          /\ TypeOK' /\ CopiesByAge'
      BY <1>2, SwapDone
    <2>5. b \in Blocks /\ b # None /\ \A l \in Lists : b \notin OnList(l)
      BY <2>4, InHand, BlockListAssumption
    <2>6. seen[a] = b /\ next[b] = First(s)
      <3>1. seen[a] = b /\ next[b] = copy[a].index BY <2>1, <2>2 DEF CopyFits
      <3> QED BY <1>2, <2>3, <3>1, ListsNow
    <2>7. next \in Nodes /\ OnList(s) = From(next, First(s)) /\ Straight(next, First(s))
          /\ First(s) \in Indices
      BY <2>3, ListsNow
    <2>8. From(next, b) = {b} \cup OnList(s) /\ Straight(next, b)
      BY <2>3, <2>5, <2>6, <2>7, Pushed1
    <2>9. OnList(s)' = {b} \cup OnList(s) /\ Straight(next, First(s))'
      <3>1. OnList(s)' = From(next', First(s)') BY DEF OnList, Listed
      <3>2. Straight(next, First(s))' <=> Straight(next', First(s)') BY DEF Straight, From, ClosedFrom
      <3> QED BY <2>4, <2>6, <2>8, <3>1, <3>2
    <2>10. \A l \in Lists \ {s} : OnList(l)' = OnList(l) /\ Straight(next, First(l))'
      BY <2>4, <2>7, ListKept
    <2>11. EachBlockOnce' BY <2>3, <2>4, <2>5, <2>9, <2>10, BlockGiven
    <2>12. TypesFit'
      <3>1. type[b] = s BY <2>4 DEF BlocksInv, TypesFit
      <3>2. ASSUME NEW l \in Lists, NEW c \in OnList(l)' PROVE type'[c] = l
        <4>1. CASE l = s BY <2>3, <2>4, <2>9, <3>1, <3>2, <4>1 DEF BlocksInv, TypesFit
        <4>2. CASE l # s BY <2>4, <2>10, <3>2, <4>2 DEF BlocksInv, TypesFit
        <4> QED BY <4>1, <4>2
      <3>3. ASSUME NEW c \in Actors, NEW q \in Pushing, At(c, q)'
            PROVE  c # a /\ At(c, q)
        BY <2>4, <3>3, PushersStay
      <3> QED BY <2>4, <3>2, <3>3 DEF BlocksInv, TypesFit
    <2>13. HandsByPlace'
      <3>1. pc'[a] \notin {Holding, Emptied} /\ \A q \in Pushing : pc'[a] # <<q, "link">> /\ pc'[a] # <<q, "swap">>
        BY <2>4, OnePlace
      <3> QED BY <2>4, <3>1, HandsKept
    <2> QED BY <2>3, <2>4, <2>9, <2>10, <2>11, <2>12, <2>13 DEF BlocksInv
  <1> QED BY <1>1, <1>2

\* What the reader does with used_ leaves the two stacks and the copies of
\* their heads alone.
LEMMA StacksStay ==
  ASSUME BlocksInv, UNCHANGED <<head, copy, seen, age>>, next' \in Nodes,
         pc'[Reader] \in {Idle, Holding, Emptied},
         \A c \in Actors \ {Reader} : pc'[c] = pc[c] /\ block'[c] = block[c],
         \A k \in Blocks : k \notin OnList("used") /\ k # block[Reader] => next'[k] = next[k]
  PROVE  /\ CopiesByAge'
         /\ \A l \in Lists \ {"used"} : /\ First(l)' = First(l) /\ OnList(l)' = OnList(l)
                                        /\ Straight(next, First(l))'
  <1>0. Reader \in Actors /\ "used" \in Lists BY DEF Actors, Lists
  <1>1. \A l \in Lists \ {"used"} : \A k \in OnList(l) : next'[k] = next[k]
    <2> SUFFICES ASSUME NEW l \in Lists \ {"used"}, NEW k \in OnList(l)
                 PROVE  next'[k] = next[k]
      OBVIOUS
    <2>1. k \in Blocks BY ListsNow
    <2>2. k \notin OnList("used") BY <1>0 DEF BlocksInv, EachBlockOnce
    <2>3. k # block[Reader] BY <1>0 DEF BlocksInv, EachBlockOnce
    <2> QED BY <2>1, <2>2, <2>3
  <1>2. \A l \in Lists \ {"used"} : /\ First(l)' = First(l) /\ OnList(l)' = OnList(l)
                                    /\ Straight(next, First(l))'
    <2> SUFFICES ASSUME NEW l \in Lists \ {"used"}
                 PROVE  First(l)' = First(l) /\ OnList(l)' = OnList(l) /\ Straight(next, First(l))'
      OBVIOUS
    <2>1. First(l)' = First(l) BY DEF First
    <2> QED BY <1>1, <2>1, ListKept
  <1>3. CopiesByAge'
    <2> SUFFICES ASSUME NEW c \in Actors, NEW q \in Popping \cup Pushing, At(c, q)'
                 PROVE  CopyFits(c, q)'
      BY DEF CopiesByAge
    <2>1. c # Reader /\ At(c, q) BY <1>0, PushersStay
    <2>2. q \in Pushing => next'[block[c]] = next[block[c]]
      <3> SUFFICES ASSUME q \in Pushing PROVE next'[block[c]] = next[block[c]] OBVIOUS
      <3>1. block[c] \in Blocks /\ block[c] # None BY <2>1, InHand, BlockListAssumption
      <3>2. block[c] \notin OnList("used") /\ block[c] # block[Reader]
        BY <1>0, <2>1, <3>1, InHand
      <3> QED BY <3>1, <3>2
    <2>3. ASSUME q \in Popping, age[c] = 0, copy[c].index # None
          PROVE  next'[copy[c].index] = next[copy[c].index]
      <3>1. head[Stack(q)] = copy[c] BY <2>1, <2>3 DEF BlocksInv, CopiesByAge, CopyFits
      <3>2. Stack(q) \in {"free", "stage"} BY DEF Stack
      <3>3. copy[c].index \in OnList(Stack(q)) /\ Stack(q) \in Lists
        BY <2>3, <3>1, <3>2, ListsNow
      <3> QED BY <1>1, <3>2, <3>3
    <2> QED BY <2>1, <2>2, <2>3, CopyKept
  <1> QED BY <1>2, <1>3

LEMMA PutUsedStep ==
  ASSUME BlocksInv, PutUsed
  PROVE  BlocksInv'
  <1> DEFINE b == block[Reader]
  <1>0. TypeOK /\ Reader \in Actors /\ "used" \in Lists /\ Idle \in Places(Reader)
    BY DEF BlocksInv, Actors, Lists, Places
  <1>1. /\ pc[Reader] = Holding /\ b \in Blocks /\ b # None
        /\ \A l \in Lists : b \notin OnList(l)
    BY <1>0, InHand, BlockListAssumption DEF PutUsed
  <1>2. /\ type' = [type EXCEPT ![b] = "used"] /\ block' = [block EXCEPT ![Reader] = None]
        /\ Goto(Reader, Idle) /\ UNCHANGED <<head, copy, seen, age>>
    BY DEF PutUsed
  <1>3. /\ pc'[Reader] = Idle /\ \A c \in Actors \ {Reader} : pc'[c] = pc[c]
        /\ \A c \in Actors : pc'[c] \in Places(c)
        /\ pc' = [c \in Actors |-> pc'[c]]
    BY <1>0, <1>2, OneMoves
  <1>4. /\ block' \in [Actors -> Blocks \cup {None}] /\ block'[Reader] = None
        /\ \A c \in Actors \ {Reader} : block'[c] = block[c]
    BY <1>0, <1>2 DEF TypeOK
  <1>5. /\ type' \in [Blocks -> Lists] /\ type'[b] = "used"
        /\ \A c \in Blocks \ {b} : type'[c] = type[c]
    <2>1. type \in [Blocks -> Lists] BY <1>0 DEF TypeOK, Lists
    <2> QED BY <1>0, <1>1, <1>2, <2>1
  <1>6. /\ next \in Nodes /\ First("used") = used /\ used \in Indices
        /\ OnList("used") = From(next, used) /\ OnList("used") \subseteq Blocks
        /\ Straight(next, used) /\ UsedBlocks = OnList("used")
    BY <1>0, ListsNow DEF OnList, UsedBlocks
  <1>7. /\ next' \in Nodes /\ used' \in Indices
        /\ \A k \in Blocks : k \notin OnList("used") /\ k # b => next'[k] = next[k]
        /\ From(next', used') = {b} \cup OnList("used") /\ Straight(next', used')
    <2>1. CASE next' = [next EXCEPT ![b] = used] /\ used' = b
      <3>1. /\ next' \in Nodes /\ next'[b] = used /\ \A k \in Blocks \ {b} : next'[k] = next[k]
        BY <1>1, <1>6, <2>1 DEF Nodes, Indices
      <3>2. \A k \in From(next, used) : next'[k] = next[k] BY <1>0, <1>1, <1>6, <3>1
      <3>3. From(next', used) = From(next, used) /\ Straight(next', used)
        BY <1>6, <3>1, <3>2, StillStraight
      <3>4. b \notin From(next', used) BY <1>0, <1>1, <1>6, <3>3
      <3>5. From(next', b) = {b} \cup From(next', used) /\ Straight(next', b)
        BY <1>1, <1>6, <3>1, <3>3, <3>4, Pushed1
      <3> QED BY <1>1, <1>6, <2>1, <3>1, <3>3, <3>5 DEF Indices
    <2>2. CASE \E prev \in UsedBlocks :
                  next' = [next EXCEPT ![b] = next[prev], ![prev] = b] /\ UNCHANGED used
      <3>1. PICK prev \in UsedBlocks :
                  next' = [next EXCEPT ![b] = next[prev], ![prev] = b] /\ UNCHANGED used
        BY <2>2
      <3>2. prev \in From(next, used) /\ prev \in Blocks /\ prev # b /\ prev \in OnList("used")
        BY <1>0, <1>1, <1>6, <3>1
      <3>3. next[prev] \in Blocks \cup {None} BY <1>6, <3>2 DEF Nodes
      <3>4. /\ next' \in Nodes /\ next'[b] = next[prev] /\ next'[prev] = b
            /\ \A c \in Blocks \ {b, prev} : next'[c] = next[c]
        BY <1>1, <1>6, <3>1, <3>2, <3>3 DEF Nodes
      <3>5. b \notin From(next, used) BY <1>0, <1>1, <1>6
      <3>6. From(next', used) = {b} \cup From(next, used) /\ Straight(next', used)
        BY <1>1, <1>6, <3>2, <3>4, <3>5, PutBehind
      <3> QED BY <1>6, <3>1, <3>2, <3>4, <3>6
    <2> QED BY <2>1, <2>2 DEF PutUsed
  <1>8. /\ CopiesByAge'
        /\ \A l \in Lists \ {"used"} : OnList(l)' = OnList(l) /\ Straight(next, First(l))'
    BY <1>2, <1>3, <1>4, <1>7, StacksStay
  <1>9. OnList("used")' = {b} \cup OnList("used") /\ Straight(next, First("used"))'
    <2>1. First("used")' = used' BY DEF First
    <2>2. OnList("used")' = From(next', used') BY <2>1 DEF OnList, Listed
    <2>3. Straight(next, First("used"))' <=> Straight(next', used')
      BY <2>1 DEF Straight, From, ClosedFrom
    <2> QED BY <1>7, <2>2, <2>3
  <1>10. TypeOK' BY <1>0, <1>2, <1>3, <1>4, <1>5, <1>7 DEF TypeOK, Nodes, Indices, Lists
  <1>11. EachBlockOnce' BY <1>0, <1>1, <1>4, <1>8, <1>9, BlockGiven
  <1>12. TypesFit'
    <2>1. ASSUME NEW l \in Lists, NEW c \in OnList(l)' PROVE type'[c] = l
      <3>1. \A k \in OnList(l) : type'[k] = l
        BY <1>1, <1>5, ListsNow DEF BlocksInv, TypesFit
      <3> QED BY <1>5, <1>8, <1>9, <2>1, <3>1
    <2>2. ASSUME NEW c \in Actors, NEW q \in Pushing, At(c, q)' PROVE type'[block'[c]] = Stack(q)
      <3>1. c # Reader /\ At(c, q) BY <1>0, <1>3, <2>2, PushersStay
      <3>2. block[c] \in Blocks /\ type[block[c]] = Stack(q) BY <3>1, InHand DEF BlocksInv, TypesFit
      <3>3. block[c] # b BY <1>0, <1>1, <3>1, InHand
      <3> QED BY <1>4, <1>5, <3>1, <3>2, <3>3
    <2> QED BY <2>1, <2>2 DEF TypesFit
  <1>13. HandsByPlace'
    <2>1. pc'[Reader] \notin {Holding, Emptied}
          /\ \A q \in Pushing : pc'[Reader] # <<q, "link">> /\ pc'[Reader] # <<q, "swap">>
      BY <1>3, OnePlace
    <2> QED BY <1>0, <1>3, <1>4, <2>1, HandsKept
  <1> QED BY <1>8, <1>9, <1>10, <1>11, <1>12, <1>13 DEF BlocksInv

LEMMA TakeUsedStep ==
  ASSUME BlocksInv, TakeUsed
  PROVE  BlocksInv'
  <1> DEFINE b == block'[Reader]
  <1>0. TypeOK /\ Reader \in Actors /\ "used" \in Lists /\ Emptied \in Places(Reader)
    BY DEF BlocksInv, Actors, Lists, Places
  <1>1. pc[Reader] = Idle /\ block[Reader] = None BY <1>0, InHand DEF TakeUsed
  <1>2. Goto(Reader, Emptied) /\ UNCHANGED <<head, type, copy, seen, age>> BY DEF TakeUsed
  <1>3. /\ pc'[Reader] = Emptied /\ \A c \in Actors \ {Reader} : pc'[c] = pc[c]
        /\ \A c \in Actors : pc'[c] \in Places(c)
        /\ pc' = [c \in Actors |-> pc'[c]]
    BY <1>0, <1>2, OneMoves
  <1>4. /\ next \in Nodes /\ First("used") = used /\ used \in Indices
        /\ OnList("used") = From(next, used) /\ OnList("used") \subseteq Blocks
        /\ Straight(next, used) /\ UsedBlocks = OnList("used")
    BY <1>0, ListsNow DEF OnList, UsedBlocks
  <1>5. /\ next' \in Nodes /\ used' \in Indices /\ b \in OnList("used")
        /\ block' = [block EXCEPT ![Reader] = b]
        /\ \A k \in Blocks : k \notin OnList("used") /\ k # block[Reader] => next'[k] = next[k]
        /\ From(next', used') = OnList("used") \ {b} /\ Straight(next', used')
    <2>0. block \in [Actors -> Blocks \cup {None}] BY <1>0 DEF TypeOK
    <2>1. CASE used # None /\ used' = next[used] /\ block' = [block EXCEPT ![Reader] = used] /\ UNCHANGED next
      <3>1. used \in Blocks /\ b = used BY <1>0, <1>4, <2>0, <2>1 DEF Indices
      <3>2. /\ From(next, next[used]) = From(next, used) \ {used} /\ Straight(next, next[used])
            /\ used \in From(next, used) /\ next[used] \in Indices
        BY <1>4, <3>1, Popped1
      <3> QED BY <1>4, <2>1, <3>1, <3>2
    <2>2. CASE \E prev \in UsedBlocks :
                  /\ next[prev] # None /\ next' = [next EXCEPT ![prev] = next[next[prev]]]
                  /\ block' = [block EXCEPT ![Reader] = next[prev]] /\ UNCHANGED used
      <3>1. PICK prev \in UsedBlocks :
                  /\ next[prev] # None /\ next' = [next EXCEPT ![prev] = next[next[prev]]]
                  /\ block' = [block EXCEPT ![Reader] = next[prev]] /\ UNCHANGED used
        BY <2>2
      <3> DEFINE r == next[prev]
      <3>2. prev \in From(next, used) /\ prev \in Blocks /\ prev \in OnList("used")
        BY <1>4, <3>1
      <3>3. r \in Blocks /\ b = r BY <1>0, <1>4, <2>0, <3>1, <3>2 DEF Nodes
      <3>4. next[r] \in Blocks \cup {None} BY <1>4, <3>3 DEF Nodes
      <3>5. /\ next' \in Nodes /\ next'[prev] = next[r]
            /\ \A c \in Blocks \ {prev} : next'[c] = next[c]
        BY <1>4, <3>1, <3>2, <3>4 DEF Nodes
      <3>6. From(next', used) = From(next, used) \ {r} /\ Straight(next', used) /\ r \in From(next, used)
        BY <1>4, <3>2, <3>3, <3>5, TakenBehind
      <3> QED BY <1>4, <3>1, <3>2, <3>3, <3>5, <3>6
    <2> QED BY <2>1, <2>2 DEF TakeUsed
  <1>6. /\ block' \in [Actors -> Blocks \cup {None}] /\ b \in Blocks /\ b # None
        /\ \A c \in Actors \ {Reader} : block'[c] = block[c]
    BY <1>0, <1>4, <1>5, BlockListAssumption DEF TypeOK
  <1>7. /\ CopiesByAge'
        /\ \A l \in Lists \ {"used"} : OnList(l)' = OnList(l) /\ Straight(next, First(l))'
    BY <1>2, <1>3, <1>5, <1>6, StacksStay
  <1>8. OnList("used")' = OnList("used") \ {b} /\ Straight(next, First("used"))'
    <2>1. First("used")' = used' BY DEF First
    <2>2. OnList("used")' = From(next', used') BY <2>1 DEF OnList, Listed
    <2>3. Straight(next, First("used"))' <=> Straight(next', used')
      BY <2>1 DEF Straight, From, ClosedFrom
    <2> QED BY <1>5, <2>2, <2>3
  <1>9. TypeOK' BY <1>0, <1>2, <1>3, <1>5, <1>6 DEF TypeOK, Nodes, Indices
  <1>10. EachBlockOnce' BY <1>0, <1>1, <1>5, <1>6, <1>7, <1>8, BlockTaken
  <1>11. TypesFit'
    <2>1. \A l \in Lists : OnList(l)' \subseteq OnList(l) BY <1>7, <1>8
    <2>2. ASSUME NEW c \in Actors, NEW q \in Pushing, At(c, q)' PROVE c # Reader /\ At(c, q)
      BY <1>0, <1>3, <2>2, PushersStay
    <2> QED BY <1>2, <1>6, <2>1, <2>2 DEF BlocksInv, TypesFit
  <1>12. HandsByPlace' BY <1>0, <1>3, <1>6, HandsKept
  <1> QED BY <1>7, <1>8, <1>9, <1>10, <1>11, <1>12 DEF BlocksInv

\* A death: used_ and stage_ have the types of their lists, whatever was going
\* on, so they are kept, and all the rest is linked anew.
LEMMA DieKeeps ==
  ASSUME BlocksInv, Die
  PROVE  /\ used' = used /\ head'["stage"] = head["stage"]
         /\ \A l \in {"stage", "used"} :
                First(l)' = First(l) /\ \A b \in OnList(l) : next'[b] = next[b]
         /\ \E order \in Orders(Blocks \ (OnList("used") \cup OnList("stage"))) :
                next' = Chain(order, next) /\ head'["free"] = Pushed(order)
         /\ head' = [free |-> head'["free"], stage |-> head'["stage"]]
         /\ type' = [b \in Blocks |-> IF b \in OnList("used") \cup OnList("stage")
                                      THEN type[b] ELSE "free"]
  <1>1. /\ "used" \in Lists /\ "stage" \in Lists
        /\ First("used") = used /\ First("stage") = head["stage"].index
    BY DEF Lists, First
  <1>2. /\ Recoverable(used, "used") /\ Recoverable(head["stage"].index, "stage")
        /\ Kept(used, "used") = OnList("used")
        /\ Kept(head["stage"].index, "stage") = OnList("stage")
    BY <1>1 DEF BlocksInv, TypesFit, Recoverable, Kept, OnList
  <1> DEFINE kept == OnList("used") \cup OnList("stage")
  <1>3. /\ used' = used
        /\ type' = [b \in Blocks |-> IF b \in kept THEN type[b] ELSE "free"]
    BY <1>2 DEF Die
  <1>4. PICK order \in Orders(Blocks \ kept) :
            /\ next' = Chain(order, next)
            /\ head' = [free |-> Pushed(order), stage |-> head["stage"]]
    BY <1>2 DEF Die
  <1>5. head'["stage"] = head["stage"] /\ head'["free"] = Pushed(order) BY <1>4
  <1>6. \A b \in kept : next'[b] = next[b]
    <2>1. \A b \in Blocks \ (Blocks \ kept) : Chain(order, next)[b] = next[b]
      BY ListsNow, ChainIsList
    <2>2. kept \subseteq Blocks BY <1>1, ListsNow
    <2> QED BY <1>4, <2>1, <2>2
  <1>7. \A l \in {"stage", "used"} : First(l)' = First(l) BY <1>3, <1>5 DEF First
  <1> QED BY <1>3, <1>4, <1>5, <1>6, <1>7

LEMMA DieStep ==
  ASSUME BlocksInv, Die
  PROVE  BlocksInv'
  <1> DEFINE kept == OnList("used") \cup OnList("stage")
  <1>0. TypeOK BY DEF BlocksInv
  <1>1. /\ used' = used /\ head'["stage"] = head["stage"]
        /\ \A l \in {"stage", "used"} :
               First(l)' = First(l) /\ \A b \in OnList(l) : next'[b] = next[b]
        /\ head' = [free |-> head'["free"], stage |-> head'["stage"]]
        /\ type' = [b \in Blocks |-> IF b \in kept THEN type[b] ELSE "free"]
    BY DieKeeps
  <1>2. PICK order \in Orders(Blocks \ kept) :
            next' = Chain(order, next) /\ head'["free"] = Pushed(order)
    BY DieKeeps
  <1>3. /\ next' \in Nodes /\ head'["free"] \in Heads
        /\ From(next', head'["free"].index) = Blocks \ kept
        /\ Straight(next', head'["free"].index)
    BY <1>2, ListsNow, ChainIsList
  <1>4. \A l \in {"stage", "used"} : l \in Lists /\ OnList(l)' = OnList(l) /\ Straight(next, First(l))'
    BY <1>1, <1>3, ListKept DEF Lists
  <1>5. OnList("free")' = Blocks \ kept /\ Straight(next, First("free"))'
    <2>1. First("free")' = head'["free"].index BY DEF First
    <2>2. OnList("free")' = From(next', head'["free"].index) BY <2>1 DEF OnList, Listed
    <2>3. Straight(next, First("free"))' <=> Straight(next', head'["free"].index)
      BY <2>1 DEF Straight, From, ClosedFrom
    <2> QED BY <1>3, <2>2, <2>3
  <1>6. /\ pc' = [a \in Actors |-> Idle] /\ copy' = [a \in Actors |-> Empty]
        /\ seen' = [a \in Actors |-> None] /\ block' = [a \in Actors |-> None]
        /\ age' = [a \in Actors |-> 0]
    BY DEF Die
  <1>7. TypeOK'
    <2>1. 0 \in 0..(MarkWrap - 1) BY BlockListAssumption
    <2>2. Empty \in Heads BY <2>1 DEF Empty, Heads
    <2>3. head' \in [{"free", "stage"} -> Heads] BY <1>0, <1>1, <1>3 DEF TypeOK
    <2>4. type' \in [Blocks -> {"free", "stage", "used"}] BY <1>0, <1>1 DEF TypeOK
    <2>5. \A a \in Actors : Idle \in Places(a) BY DEF Places
    <2>6. (\A a \in Actors : pc'[a] \in Places(a)) /\ pc' = [a \in Actors |-> pc'[a]]
      BY <1>6, <2>5
    <2>7. /\ copy' \in [Actors -> Heads] /\ age' \in [Actors -> 0..(MarkWrap - 1)]
          /\ seen' \in [Actors -> Blocks \cup {None}] /\ block' \in [Actors -> Blocks \cup {None}]
      BY <1>6, <2>1, <2>2
    <2> QED BY <1>0, <1>1, <1>3, <2>3, <2>4, <2>6, <2>7 DEF TypeOK, Nodes
  <1>8. EachBlockOnce'
    <2>1. \A l, m \in Lists : l # m => OnList(l)' \cap OnList(m)' = {}
      BY <1>4, <1>5 DEF BlocksInv, EachBlockOnce, Lists
    <2>2. \A l \in Lists : None \notin OnList(l)'
      <3>1. \A l \in Lists : None \notin OnList(l) BY ListsNow, BlockListAssumption
      <3> QED BY <1>4, <1>5, <3>1, BlockListAssumption DEF Lists
    <2>3. \A b \in Blocks : \E l \in Lists : b \in OnList(l)'
      BY <1>4, <1>5 DEF Lists
    <2>4. \A a \in Actors : block'[a] = None BY <1>6
    <2> QED BY <2>1, <2>2, <2>3, <2>4 DEF EachBlockOnce
  <1>9. ASSUME NEW a \in Actors
        PROVE  /\ pc'[a] = Idle
               /\ \A p \in Popping \cup Pushing : pc'[a] # <<p, "link">> /\ pc'[a] # <<p, "swap">>
    <2>1. pc'[a] = Idle BY <1>6
    <2> QED BY <2>1, OnePlace
  <1>10. TypesFit'
    <2>1. ASSUME NEW l \in Lists, NEW b \in OnList(l)' PROVE type'[b] = l
      <3>1. CASE l = "free" BY <1>1, <1>5, <2>1, <3>1
      <3>2. CASE l \in {"stage", "used"}
        <4>1. b \in OnList(l) /\ b \in kept BY <1>4, <2>1, <3>2
        <4>2. b \in Blocks /\ type[b] = l BY <4>1, ListsNow DEF BlocksInv, TypesFit
        <4> QED BY <1>1, <4>1, <4>2
      <3> QED BY <3>1, <3>2 DEF Lists
    <2>2. \A a \in Actors : \A p \in Pushing : ~At(a, p)' BY <1>9 DEF At
    <2> QED BY <2>1, <2>2 DEF TypesFit
  <1>11. HandsByPlace'
    <2>1. \A a \in Actors : block'[a] = None BY <1>6
    <2>2. \A a \in Actors : pc'[a] \notin {Holding, Emptied} BY <1>9, OnePlace
    <2>3. \A a \in Actors : \A p \in Pushing : ~At(a, p)' BY <1>9 DEF At
    <2> QED BY <2>1, <2>2, <2>3 DEF HandsByPlace
  <1>12. CopiesByAge'
    <2>1. \A a \in Actors : \A p \in Popping \cup Pushing : ~At(a, p)' BY <1>9 DEF At
    <2> QED BY <2>1 DEF CopiesByAge
  <1>13. \A l \in Lists : Straight(next, First(l))' BY <1>4, <1>5 DEF Lists
  <1> QED BY <1>7, <1>8, <1>10, <1>11, <1>12, <1>13 DEF BlocksInv

LEMMA InitSound ==
  ASSUME Init
  PROVE  BlocksInv
  <1>1. /\ type = [b \in Blocks |-> "free"] /\ used = None
        /\ pc = [a \in Actors |-> Idle] /\ copy = [a \in Actors |-> Empty]
        /\ seen = [a \in Actors |-> None] /\ block = [a \in Actors |-> None]
        /\ age = [a \in Actors |-> 0]
    BY DEF Init
  <1>2. PICK order \in Orders(Blocks) :
            /\ next = Chain(order, [b \in Blocks |-> None])
            /\ head = [free |-> Pushed(order), stage |-> Empty]
    BY DEF Init
  <1>3. /\ next \in Nodes /\ Pushed(order) \in Heads
        /\ From(next, Pushed(order).index) = Blocks /\ Straight(next, Pushed(order).index)
    <2>1. [b \in Blocks |-> None] \in Nodes BY DEF Nodes
    <2>2. Blocks \in SUBSET Blocks OBVIOUS
    <2> QED BY <1>2, <2>1, <2>2, ChainIsList
  <1>4. /\ First("free") = Pushed(order).index /\ First("stage") = None /\ First("used") = None
    BY <1>1, <1>2 DEF First, Empty
  <1>5. OnList("free") = Blocks /\ OnList("stage") = {} /\ OnList("used") = {}
    <2>1. From(next, None) = {} BY <1>3, FirstAndRest
    <2> QED BY <1>3, <1>4, <2>1 DEF OnList, Listed
  <1>6. \A l \in Lists : Straight(next, First(l))
    <2>1. From(next, None) = {} BY <1>3, FirstAndRest
    <2>2. Straight(next, None) BY <2>1 DEF Straight
    <2> QED BY <1>3, <1>4, <2>2 DEF Lists
  <1>7. TypeOK
    <2>1. 0 \in 0..(MarkWrap - 1) BY BlockListAssumption
    <2>2. Empty \in Heads BY <2>1 DEF Empty, Heads
    <2>3. \A a \in Actors : Idle \in Places(a) BY DEF Places
    <2>4. (\A a \in Actors : pc[a] \in Places(a)) /\ pc = [a \in Actors |-> pc[a]]
      BY <1>1, <2>3
    <2>5. head \in [{"free", "stage"} -> Heads] BY <1>2, <1>3, <2>2
    <2> QED BY <1>1, <1>3, <2>1, <2>2, <2>4, <2>5 DEF TypeOK, Nodes
  <1>8. \A a \in Actors : block[a] = None BY <1>1
  <1>9. EachBlockOnce
    <2>1. None \notin Blocks BY BlockListAssumption
    <2>2. \A l, m \in Lists : l # m => OnList(l) \cap OnList(m) = {} BY <1>5 DEF Lists
    <2>3. \A a \in Actors, l \in Lists : block[a] \notin OnList(l) BY <1>5, <1>8, <2>1 DEF Lists
    <2>4. \A b \in Blocks : \E l \in Lists : b \in OnList(l) BY <1>5 DEF Lists
    <2> QED BY <1>8, <2>2, <2>3, <2>4 DEF EachBlockOnce
  <1>10. \A a \in Actors : pc[a] = Idle /\ \A p \in Popping \cup Pushing : ~At(a, p)
    <2>1. \A a \in Actors : pc[a] = Idle BY <1>1
    <2> QED BY <2>1, OnePlace DEF At
  <1>11. TypesFit BY <1>1, <1>5, <1>10 DEF TypesFit, Lists
  <1>12. HandsByPlace BY <1>8, <1>10, OnePlace DEF HandsByPlace
  <1>13. CopiesByAge BY <1>10 DEF CopiesByAge
  <1> QED BY <1>6, <1>7, <1>9, <1>11, <1>12, <1>13 DEF BlocksInv

-----------------------------------------------------------------------------
(***************************************************************************)
(* The theorems.                                                           *)
(***************************************************************************)

LEMMA StepKeeps ==
  ASSUME BlocksInv, [Next]_vars
  PROVE  BlocksInv'
  <1>1. CASE Die BY <1>1, DieStep
  <1>2. ASSUME NEW t \in Threads, Pop(t, "popFree") PROVE BlocksInv'
    <2>1. t \in Actors /\ Call(t, "popFree") /\ "popFree" \in Popping /\ "popFree" \notin Pushing
      BY DEF Actors, Call, Popping, Pushing
    <2> QED BY <1>2, <2>1, StartStep, PopLinkStep, PopSwapStep DEF Pop
  <1>3. ASSUME NEW t \in Threads, Push(t, "pushStage") PROVE BlocksInv'
    <2>1. t \in Actors /\ Call(t, "pushStage") /\ "pushStage" \in Pushing
      BY DEF Actors, Call, Pushing
    <2> QED BY <1>3, <2>1, StartStep, PushLinkStep, PushSwapStep DEF Push
  <1>4. CASE Pop(Reader, "popStage")
    <2>1. Reader \in Actors /\ Call(Reader, "popStage") /\ "popStage" \in Popping /\ "popStage" \notin Pushing
      BY DEF Actors, Call, Popping, Pushing
    <2> QED BY <1>4, <2>1, StartStep, PopLinkStep, PopSwapStep DEF Pop
  <1>5. CASE PutUsed BY <1>5, PutUsedStep
  <1>6. CASE TakeUsed BY <1>6, TakeUsedStep
  <1>7. CASE PushFree
    <2>1. Reader \in Actors /\ Call(Reader, "pushFree") /\ "pushFree" \in Pushing
      BY DEF Actors, Call, Pushing
    <2> QED BY <1>7, <2>1, StartStep, PushLinkStep, PushSwapStep DEF PushFree
  <1>8. CASE UNCHANGED vars
    <2>1. UNCHANGED <<head, used, next, type, pc, copy, seen, block, age>> BY <1>8 DEF vars
    <2>2. \A l \in Lists : First(l)' = First(l) /\ OnList(l)' = OnList(l) /\ Straight(next, First(l))'
      BY <2>1, ListsStay
    <2>3. TypeOK' BY <2>1 DEF BlocksInv, TypeOK
    <2>4. EachBlockOnce' BY <2>1, <2>2 DEF BlocksInv, EachBlockOnce
    <2>5. \A a \in Actors : \A p \in Popping \cup Pushing : At(a, p)' <=> At(a, p)
      BY <2>1 DEF At
    <2>6. TypesFit' BY <2>1, <2>2, <2>5 DEF BlocksInv, TypesFit
    <2>7. HandsByPlace' BY <2>1, <2>5 DEF BlocksInv, HandsByPlace
    <2>8. \A a \in Actors : \A p \in Popping \cup Pushing : CopyFits(a, p)' <=> CopyFits(a, p)
      BY <2>1 DEF CopyFits
    <2>9. CopiesByAge' BY <2>5, <2>8 DEF BlocksInv, CopiesByAge
    <2> QED BY <2>2, <2>3, <2>4, <2>6, <2>7, <2>9 DEF BlocksInv
  <1> QED BY <1>1, <1>2, <1>3, <1>4, <1>5, <1>6, <1>7, <1>8 DEF Next

\* block_list, for any number of threads and any finite set of blocks: the
\* three lists are straight, every block has the type of its list, and how old
\* a thread's copy of a head is shows in the mark.
THEOREM BlocksInvariant == Spec => []BlocksInv
  <1>1. Init => BlocksInv BY InitSound
  <1>2. BlocksInv /\ [Next]_vars => BlocksInv' BY StepKeeps
  <1> QED BY <1>1, <1>2, PTL DEF Spec

\* A compare-and-swap of pop that succeeds moves the head to what is the link
\* of the first block now, even if that block has been away and back since
\* the link was read.
THEOREM LinkStaysCurrent == Spec => []LinkIsCurrent
  <1>1. BlocksInv => LinkIsCurrent
    <2> SUFFICES ASSUME BlocksInv, NEW a \in Actors, NEW p \in Popping,
                        pc[a] = <<p, "swap">>, head[Stack(p)] = copy[a]
                 PROVE  seen[a] = next[copy[a].index]
      BY DEF LinkIsCurrent
    <2>1. At(a, p) BY DEF At
    <2>2. CopyFits(a, p) BY <2>1 DEF BlocksInv, CopiesByAge
    <2>3. copy[a].mark \in Marks /\ age[a] \in Marks
      BY DEF BlocksInv, TypeOK, Heads, Marks
    <2>4. (copy[a].mark + age[a]) % MarkWrap = copy[a].mark BY <2>2 DEF CopyFits
    <2>5. age[a] = 0 BY <2>3, <2>4, MarkTellsAge
    <2> QED BY <2>2, <2>5 DEF CopyFits
  <1> QED BY <1>1, BlocksInvariant, PTL

\* No block is lost or handed out twice: each is on one of free_, stage_ and
\* used_ or in the hand of one thread.
THEOREM EveryBlockOnce == Spec => []EachBlockOnce
  <1>1. BlocksInv => EachBlockOnce BY DEF BlocksInv
  <1> QED BY <1>1, BlocksInvariant, PTL

\* A death of the process, in whatever call every thread was, keeps what was
\* staged or filed in used_, and its order.
THEOREM FiledSurvives == Spec => NothingFiledIsLost
  <1>1. BlocksInv => [Die => FiledStays]_vars BY DieKeeps DEF FiledStays
  <1> QED BY <1>1, BlocksInvariant, PTL DEF Spec, NothingFiledIsLost

-----------------------------------------------------------------------------
(***************************************************************************)
(* The order of a list.                                                    *)
(***************************************************************************)

\* A path from the first index has every block of the list, each once.
LEMMA PathIsList ==
  ASSUME NEW f \in Nodes, NEW i \in Indices, Straight(f, i),
         NEW s \in Seq(Blocks), Path(f, i, s)
  PROVE  /\ \A k \in 1..Len(s) : s[k] \in From(f, i)
         /\ \A b \in From(f, i) : \E k \in 1..Len(s) : s[k] = b
         /\ \A j, k \in 1..Len(s) : s[j] = s[k] => j = k
         /\ Cardinality(From(f, i)) = Len(s)
         /\ s \in [1..Len(s) -> From(f, i)]
  <1> DEFINE n == Len(s)
             L == From(f, i)
  <1>1. n \in Nat /\ s \in [1..n -> Blocks] OBVIOUS
  <1>0. /\ i = IF n = 0 THEN None ELSE s[1]
        /\ \A k \in 1..n : f[s[k]] = IF k = n THEN None ELSE s[k + 1]
    BY DEF Path
  <1> HIDE DEF n
  <1>2. ClosedFrom(f, i, L) /\ L \subseteq Blocks BY Closed
  <1>3. None \notin Blocks BY BlockListAssumption
  <1>4. \A k \in 1..n : s[k] \in L
    <2> DEFINE T == {m \in Nat : m < n => s[m + 1] \in L}
    <2>1. 0 \in T
      <3> SUFFICES ASSUME 0 < n PROVE s[0 + 1] \in L OBVIOUS
      <3>1. i = s[1] /\ s[1] \in Blocks BY <1>0, <1>1
      <3> QED BY <1>2, <1>3, <3>1 DEF ClosedFrom
    <2>2. ASSUME NEW m \in T PROVE m + 1 \in T
      <3> SUFFICES ASSUME m + 1 < n PROVE s[(m + 1) + 1] \in L OBVIOUS
      <3>1. m + 1 \in 1..n /\ m + 1 # n /\ (m + 1) + 1 \in 1..n /\ m < n BY <1>1
      <3>2. s[m + 1] \in L BY <3>1
      <3>3. f[s[m + 1]] = s[(m + 1) + 1] BY <1>0, <3>1
      <3>4. s[(m + 1) + 1] \in Blocks BY <1>1, <3>1
      <3> QED BY <1>2, <1>3, <3>2, <3>3, <3>4 DEF ClosedFrom
    <2>3. T = Nat
      <3>1. T \in SUBSET Nat OBVIOUS
      <3> HIDE DEF T
      <3> QED BY <2>1, <2>2, <3>1, AllNaturals
    <2> SUFFICES ASSUME NEW k \in 1..n PROVE s[k] \in L OBVIOUS
    <2>4. k - 1 \in Nat /\ k - 1 < n /\ (k - 1) + 1 = k BY <1>1
    <2>5. k - 1 \in T
      <3> HIDE DEF T
      <3> QED BY <2>3, <2>4
    <2>6. s[(k - 1) + 1] \in L BY <2>4, <2>5
    <2> QED BY <2>4, <2>6
  <1>5. \A b \in L : \E k \in 1..n : s[k] = b
    <2> DEFINE S == {s[k] : k \in 1..n}
    <2>1. S \in SUBSET Blocks BY <1>1
    <2>2. i # None => i \in S
      <3> SUFFICES ASSUME i # None PROVE i \in S OBVIOUS
      <3>1. n # 0 /\ i = s[1] BY <1>0
      <3> QED BY <1>1, <3>1
    <2>3. \A b \in S : f[b] # None => f[b] \in S
      <3> SUFFICES ASSUME NEW k \in 1..n, f[s[k]] # None PROVE f[s[k]] \in S OBVIOUS
      <3>1. k # n /\ f[s[k]] = s[k + 1] BY <1>0
      <3>2. k + 1 \in 1..n BY <1>1, <3>1
      <3> QED BY <3>1, <3>2
    <2>4. L \subseteq S
      <3>1. ClosedFrom(f, i, S) BY <2>2, <2>3 DEF ClosedFrom
      <3> HIDE DEF S
      <3> QED BY <2>1, <3>1, Least
    <2> QED BY <2>4
  <1>6. ASSUME NEW j \in 1..n, NEW k \in 1..n, j < k PROVE s[j] # s[k]
    <2>1. s[j] \in L /\ j # n /\ j + 1 \in 1..n BY <1>1, <1>4, <1>6
    <2>2. f[s[j]] = s[j + 1] BY <1>0, <2>1
    <2>3. s[j] \notin From(f, f[s[j]]) BY <2>1 DEF Straight
    <2>4. f[s[j]] \in Indices BY <2>1, Onward
    <2> DEFINE R == From(f, f[s[j]])
               T == {m \in Nat : j + 1 + m <= n => s[j + 1 + m] \in R}
    <2>5. ClosedFrom(f, f[s[j]], R) BY <2>4, Closed
    <2>6. 0 \in T
      <3>1. j + 1 + 0 = j + 1 /\ s[j + 1] \in Blocks BY <1>1, <2>1
      <3> QED BY <1>3, <2>2, <2>5, <3>1 DEF ClosedFrom
    <2>7. ASSUME NEW m \in T PROVE m + 1 \in T
      <3> SUFFICES ASSUME j + 1 + (m + 1) <= n PROVE s[j + 1 + (m + 1)] \in R OBVIOUS
      <3>1. /\ j + 1 + m \in 1..n /\ j + 1 + m # n /\ (j + 1 + m) + 1 = j + 1 + (m + 1)
            /\ j + 1 + (m + 1) \in 1..n /\ j + 1 + m <= n
        BY <1>1, <1>6
      <3>2. s[j + 1 + m] \in R BY <3>1
      <3>3. f[s[j + 1 + m]] = s[j + 1 + (m + 1)] BY <1>0, <3>1
      <3>4. s[j + 1 + (m + 1)] \in Blocks BY <1>1, <3>1
      <3> QED BY <1>3, <2>5, <3>2, <3>3, <3>4 DEF ClosedFrom
    <2>8. T = Nat
      <3>1. T \in SUBSET Nat OBVIOUS
      <3> HIDE DEF T
      <3> QED BY <2>6, <2>7, <3>1, AllNaturals
    <2>9. k - (j + 1) \in T /\ j + 1 + (k - (j + 1)) = k
      <3>1. k - (j + 1) \in Nat BY <1>1, <1>6
      <3> HIDE DEF T
      <3> QED BY <1>1, <2>8, <3>1
    <2>10. s[k] \in R BY <1>1, <2>9
    <2> QED BY <2>3, <2>10
  <1>7. \A j, k \in 1..n : s[j] = s[k] => j = k
    <2> SUFFICES ASSUME NEW j \in 1..n, NEW k \in 1..n, s[j] = s[k] PROVE j = k OBVIOUS
    <2>1. j \in Int /\ k \in Int BY <1>1
    <2>2. ~(j < k) /\ ~(k < j) BY <1>6
    <2> QED BY <2>1, <2>2
  <1>8. s \in [1..n -> L] BY <1>1, <1>4
  <1>9. Cardinality(L) = n
    <2>1. IsFiniteSet(1..n) /\ Cardinality(1..n) = n
      <3>1. IsFiniteSet(1..n) /\ Cardinality(1..n) = IF 1 > n THEN 0 ELSE n - 1 + 1
        BY <1>1, FS_Interval
      <3> QED BY <1>1, <3>1
    <2>2. s \in Bijection(1..n, L)
      BY <1>5, <1>7, <1>8 DEF Bijection, Injection, Surjection, IsInjective
    <2>3. ExistsBijection(1..n, L) BY <2>2 DEF ExistsBijection
    <2> QED BY <2>1, <2>3, FS_Bijection
  <1> QED BY <1>4, <1>5, <1>7, <1>8, <1>9 DEF n

\* Two orders of a list begin alike.
LEMMA OneBegins ==
  ASSUME NEW f \in Nodes, NEW i \in Indices,
         NEW s \in Seq(Blocks), Path(f, i, s), NEW t \in Seq(Blocks), Path(f, i, t)
  PROVE  Len(s) <= Len(t) /\ \A k \in 1..Len(s) : s[k] = t[k]
  <1> DEFINE p == Len(s)
             q == Len(t)
  <1>1. /\ p \in Nat /\ s \in [1..p -> Blocks]
        /\ q \in Nat /\ t \in [1..q -> Blocks] /\ None \notin Blocks
    BY BlockListAssumption
  <1>0. /\ i = IF p = 0 THEN None ELSE s[1]
        /\ \A k \in 1..p : f[s[k]] = IF k = p THEN None ELSE s[k + 1]
        /\ i = IF q = 0 THEN None ELSE t[1]
        /\ \A k \in 1..q : f[t[k]] = IF k = q THEN None ELSE t[k + 1]
    BY DEF Path
  <1> HIDE DEF p, q
  <1> DEFINE T == {m \in Nat : m < p => m < q /\ s[m + 1] = t[m + 1]}
  <1>2. 0 \in T
    <2> SUFFICES ASSUME 0 < p PROVE 0 < q /\ s[0 + 1] = t[0 + 1] OBVIOUS
    <2>1. i = s[1] /\ s[1] \in Blocks BY <1>0, <1>1
    <2>2. q # 0 /\ i = t[1] BY <1>0, <1>1, <2>1
    <2>3. 0 < q /\ s[1] = t[1] /\ 0 + 1 = 1 BY <1>1, <2>1, <2>2
    <2> QED BY <2>3
  <1>3. ASSUME NEW m \in T PROVE m + 1 \in T
    <2> SUFFICES ASSUME m + 1 < p
                 PROVE  m + 1 < q /\ s[(m + 1) + 1] = t[(m + 1) + 1]
      OBVIOUS
    <2>1. m < q /\ s[m + 1] = t[m + 1] BY <1>1
    <2>2. m + 1 \in 1..p /\ m + 1 # p /\ (m + 1) + 1 \in 1..p
          /\ m + 1 \in 1..q
      BY <1>1, <2>1
    <2>3. f[s[m + 1]] = s[(m + 1) + 1] /\ s[(m + 1) + 1] \in Blocks BY <1>0, <1>1, <2>2
    <2>4. f[t[m + 1]] = IF m + 1 = q THEN None ELSE t[(m + 1) + 1] BY <1>0, <2>2
    <2>5. m + 1 # q BY <1>1, <2>1, <2>3, <2>4
    <2> QED BY <1>1, <2>1, <2>3, <2>4, <2>5
  <1>4. T = Nat
    <2>1. T \in SUBSET Nat OBVIOUS
    <2> HIDE DEF T
    <2> QED BY <1>2, <1>3, <2>1, AllNaturals
  <1>5. ASSUME NEW k \in 1..p PROVE k <= q /\ s[k] = t[k]
    <2>0. k - 1 \in Nat /\ k - 1 < p /\ (k - 1) + 1 = k BY <1>1
    <2>1. k - 1 \in T
      <3> HIDE DEF T
      <3> QED BY <1>4, <2>0
    <2>2. k - 1 < q /\ s[(k - 1) + 1] = t[(k - 1) + 1] BY <2>0, <2>1
    <2> QED BY <1>1, <2>0, <2>2
  <1>6. p # 0 => p \in 1..p BY <1>1
  <1> QED BY <1>1, <1>5, <1>6 DEF p, q

\* A list has one order at most, and it is the one that Follow chooses.
LEMMA OnlyPath ==
  ASSUME NEW f \in Nodes, NEW i \in Indices, Straight(f, i),
         NEW s \in Seq(Blocks), Path(f, i, s)
  PROVE  (CHOOSE t \in [1..Cardinality(From(f, i)) -> From(f, i)] : Path(f, i, t)) = s
  <1> DEFINE L == From(f, i)
             n == Cardinality(L)
  <1>1. n = Len(s) /\ s \in [1..n -> L] /\ n \in Nat /\ L \subseteq Blocks
    BY PathIsList, Closed
  <1>2. ASSUME NEW t \in [1..n -> L], Path(f, i, t) PROVE t = s
    <2>1. t \in Seq(Blocks) /\ Len(t) = n
      <3>1. t \in [1..n -> Blocks] BY <1>1
      <3> QED BY <1>1, <3>1
    <2>2. \A k \in 1..Len(s) : s[k] = t[k] BY <1>2, <2>1, OneBegins
    <2> QED BY <1>1, <2>2
  <1> QED BY <1>1, <1>2

\* The block that is pushed comes first,
LEMMA PathPushed ==
  ASSUME NEW f \in Nodes, NEW i \in Indices, NEW s \in Seq(Blocks), Path(f, i, s),
         NEW b \in Blocks, f[b] = i
  PROVE  <<b>> \o s \in Seq(Blocks) /\ Path(f, b, <<b>> \o s)
  <1> DEFINE t == <<b>> \o s
             n == Len(s)
  <1>1. /\ t \in Seq(Blocks) /\ Len(t) = n + 1 /\ n \in Nat /\ t[1] = b
        /\ \A k \in 2..(n + 1) : t[k] = s[k - 1]
    <2>1. <<b>> \in Seq(Blocks) /\ Len(<<b>>) = 1 /\ <<b>>[1] = b OBVIOUS
    <2>2. /\ t \in Seq(Blocks) /\ Len(t) = 1 + n /\ n \in Nat
          /\ \A k \in 1..(1 + n) : t[k] = IF k <= 1 THEN <<b>>[k] ELSE s[k - 1]
      BY <2>1, ConcatProperties
    <2> HIDE DEF t, n
    <2> QED BY <2>1, <2>2
  <1>2. /\ i = IF n = 0 THEN None ELSE s[1]
        /\ \A k \in 1..n : f[s[k]] = IF k = n THEN None ELSE s[k + 1]
    BY DEF Path
  <1>3. ASSUME NEW k \in 1..(n + 1)
        PROVE  f[t[k]] = IF k = n + 1 THEN None ELSE t[k + 1]
    <2> HIDE DEF t, n
    <2>1. CASE k = 1
      <3>1. f[t[k]] = i BY <1>1, <2>1
      <3>2. n # 0 => t[2] = s[1] BY <1>1
      <3> QED BY <1>1, <1>2, <2>1, <3>1, <3>2
    <2>2. CASE k # 1
      <3>1. k - 1 \in 1..n /\ t[k] = s[k - 1] /\ (k - 1) + 1 = k BY <1>1, <2>2
      <3>2. k # n + 1 => t[k + 1] = s[k] BY <1>1, <2>2
      <3>3. k - 1 = n <=> k = n + 1 BY <1>1
      <3> QED BY <1>2, <3>1, <3>2, <3>3
    <2> QED BY <2>1, <2>2
  <1>4. b = IF n + 1 = 0 THEN None ELSE t[1] BY <1>1
  <1> QED BY <1>1, <1>3, <1>4 DEF Path

\* the first one is popped,
LEMMA PathPopped ==
  ASSUME NEW f \in Nodes, NEW b \in Blocks, NEW s \in Seq(Blocks), Path(f, b, s)
  PROVE  s # <<>> /\ Head(s) = b /\ Tail(s) \in Seq(Blocks) /\ Path(f, f[b], Tail(s))
  <1> DEFINE t == Tail(s)
             n == Len(s)
  <1>1. b # None BY BlockListAssumption
  <1>2. n \in Nat /\ n # 0 /\ s[1] = b BY <1>1 DEF Path
  <1>3. s # <<>> /\ Head(s) = b BY <1>2
  <1>4. /\ t \in Seq(Blocks) /\ Len(t) = n - 1
        /\ \A k \in 1..(n - 1) : t[k] = s[k + 1]
    BY <1>2, <1>3, HeadTailProperties
  <1>5. \A k \in 1..n : f[s[k]] = IF k = n THEN None ELSE s[k + 1] BY DEF Path
  <1>6. f[b] = IF n - 1 = 0 THEN None ELSE t[1]
    <2> HIDE DEF t, n
    <2>1. 1 \in 1..n /\ (n - 1 = 0 <=> 1 = n) BY <1>2
    <2>2. n # 1 => t[1] = s[1 + 1] BY <1>2, <1>4
    <2> QED BY <1>2, <1>5, <2>1, <2>2
  <1>7. ASSUME NEW k \in 1..(n - 1)
        PROVE  f[t[k]] = IF k = n - 1 THEN None ELSE t[k + 1]
    <2> HIDE DEF t, n
    <2>1. k + 1 \in 1..n /\ (k = n - 1 <=> k + 1 = n) BY <1>2
    <2>2. k # n - 1 => t[k + 1] = s[(k + 1) + 1] BY <1>2, <1>4
    <2>3. t[k] = s[k + 1] BY <1>4
    <2> QED BY <1>5, <2>1, <2>2, <2>3
  <1> QED BY <1>3, <1>4, <1>6, <1>7 DEF Path

\* and links that agree on a list give it the same order.
LEMMA SamePath ==
  ASSUME NEW f \in Nodes, NEW h \in Nodes, NEW i \in Indices, Straight(f, i),
         \A b \in From(f, i) : h[b] = f[b], NEW s \in Seq(Blocks), Path(f, i, s)
  PROVE  Path(h, i, s)
  <1>1. \A k \in 1..Len(s) : s[k] \in From(f, i) BY PathIsList
  <1>2. \A k \in 1..Len(s) : h[s[k]] = f[s[k]] BY <1>1
  <1> QED BY <1>2 DEF Path

\* What is put in at a place,
LEMMA Inserted ==
  ASSUME NEW s \in Seq(Blocks), NEW m \in 1..(Len(s) + 1), NEW b \in Blocks
  PROVE  /\ InsertAt(s, m, b) \in Seq(Blocks) /\ Len(InsertAt(s, m, b)) = Len(s) + 1
         /\ \A k \in 1..(Len(s) + 1) :
                InsertAt(s, m, b)[k] = IF k < m THEN s[k] ELSE IF k = m THEN b ELSE s[k - 1]
  <1> DEFINE n == Len(s)
             u == SubSeq(s, 1, m - 1)
             v == SubSeq(s, m, n)
             w == u \o <<b>>
  <1>1. n \in Nat /\ m \in Nat /\ m \in 1..(n + 1) /\ \A k \in 1..n : s[k] \in Blocks OBVIOUS
  <1>2. u \in Seq(Blocks) /\ Len(u) = m - 1 /\ \A k \in 1..(m - 1) : u[k] = s[k]
    <2> HIDE DEF n
    <2>1. \A k \in 1..(m - 1) : s[k] \in Blocks BY <1>1
    <2>2. /\ u \in Seq(Blocks) /\ Len(u) = IF 1 <= m - 1 THEN (m - 1) - 1 + 1 ELSE 0
          /\ \A k \in 1..((m - 1) - 1 + 1) : u[k] = s[1 + k - 1]
      BY <1>1, <2>1, SubSeqProperties
    <2> HIDE DEF u
    <2> QED BY <1>1, <2>2
  <1>3. v \in Seq(Blocks) /\ Len(v) = n - m + 1 /\ \A k \in 1..(n - m + 1) : v[k] = s[m + k - 1]
    <2> HIDE DEF n
    <2>1. \A k \in m..n : s[k] \in Blocks BY <1>1
    <2>2. /\ v \in Seq(Blocks) /\ Len(v) = IF m <= n THEN n - m + 1 ELSE 0
          /\ \A k \in 1..(n - m + 1) : v[k] = s[m + k - 1]
      BY <1>1, <2>1, SubSeqProperties
    <2> HIDE DEF v
    <2> QED BY <1>1, <2>2
  <1>4. <<b>> \in Seq(Blocks) /\ Len(<<b>>) = 1 /\ <<b>>[1] = b OBVIOUS
  <1> HIDE DEF u, v
  <1>5. w \in Seq(Blocks) /\ Len(w) = m /\ \A k \in 1..m : w[k] = IF k < m THEN s[k] ELSE b
    <2> HIDE DEF n
    <2>1. /\ w \in Seq(Blocks) /\ Len(w) = Len(u) + Len(<<b>>)
          /\ \A k \in 1..(Len(u) + Len(<<b>>)) :
                w[k] = IF k <= Len(u) THEN u[k] ELSE <<b>>[k - Len(u)]
      BY <1>2, <1>4, ConcatProperties
    <2>2. Len(w) = m BY <1>1, <1>2, <1>4, <2>1
    <2>3. ASSUME NEW k \in 1..m PROVE w[k] = IF k < m THEN s[k] ELSE b
      <3>1. w[k] = IF k <= m - 1 THEN u[k] ELSE <<b>>[k - (m - 1)]
        BY <1>1, <1>2, <1>4, <2>1
      <3>2. CASE k < m
        <4>1. k <= m - 1 /\ k \in 1..(m - 1) BY <1>1, <3>2
        <4> QED BY <1>2, <3>1, <3>2, <4>1
      <3>3. CASE ~(k < m)
        <4>1. ~(k <= m - 1) /\ k - (m - 1) = 1 BY <1>1, <3>3
        <4> QED BY <1>4, <3>1, <3>3, <4>1
      <3> QED BY <3>2, <3>3
    <2> QED BY <2>1, <2>2, <2>3
  <1> HIDE DEF w
  <1>6. InsertAt(s, m, b) = w \o v BY DEF InsertAt, w, u, v
  <1> DEFINE z == w \o v
  <1>7. /\ z \in Seq(Blocks) /\ Len(z) = n + 1
        /\ \A k \in 1..(n + 1) : z[k] = IF k <= m THEN w[k] ELSE v[k - m]
    <2> HIDE DEF n
    <2>1. /\ z \in Seq(Blocks) /\ Len(z) = Len(w) + Len(v)
          /\ \A k \in 1..(Len(w) + Len(v)) : z[k] = IF k <= Len(w) THEN w[k] ELSE v[k - Len(w)]
      BY <1>3, <1>5, ConcatProperties
    <2> HIDE DEF z
    <2>2. Len(w) + Len(v) = n + 1 /\ Len(w) = m BY <1>1, <1>3, <1>5
    <2> QED BY <2>1, <2>2
  <1> HIDE DEF z
  <1>8. ASSUME NEW k \in 1..(n + 1)
        PROVE  z[k] = IF k < m THEN s[k] ELSE IF k = m THEN b ELSE s[k - 1]
    <2> HIDE DEF n
    <2>1. CASE k <= m
      <3>1. k \in 1..m BY <1>1, <2>1
      <3>2. z[k] = w[k] BY <1>7, <2>1
      <3>3. ~(k < m) => k = m BY <1>1, <2>1
      <3> QED BY <1>5, <3>1, <3>2, <3>3
    <2>2. CASE ~(k <= m)
      <3>1. /\ k - m \in 1..(n - m + 1) /\ m + (k - m) - 1 = k - 1
            /\ ~(k < m) /\ k # m
        BY <1>1, <2>2
      <3>2. z[k] = v[k - m] BY <1>7, <2>2
      <3>3. v[k - m] = s[m + (k - m) - 1] BY <1>3, <3>1
      <3> QED BY <3>1, <3>2, <3>3
    <2> QED BY <2>1, <2>2
  <1> QED BY <1>6, <1>7, <1>8 DEF z

\* and what is left when one is taken out.
LEMMA TakenOut ==
  ASSUME NEW s \in Seq(Blocks), NEW m \in 1..Len(s)
  PROVE  /\ RemoveAt(s, m) \in Seq(Blocks) /\ Len(RemoveAt(s, m)) = Len(s) - 1
         /\ \A k \in 1..(Len(s) - 1) : RemoveAt(s, m)[k] = IF k < m THEN s[k] ELSE s[k + 1]
  <1> DEFINE n == Len(s)
             u == SubSeq(s, 1, m - 1)
             v == SubSeq(s, m + 1, n)
             z == u \o v
  <1>1. n \in Nat /\ m \in Nat /\ m \in 1..n /\ \A k \in 1..n : s[k] \in Blocks OBVIOUS
  <1>2. u \in Seq(Blocks) /\ Len(u) = m - 1 /\ \A k \in 1..(m - 1) : u[k] = s[k]
    <2> HIDE DEF n
    <2>1. \A k \in 1..(m - 1) : s[k] \in Blocks BY <1>1
    <2>2. /\ u \in Seq(Blocks) /\ Len(u) = IF 1 <= m - 1 THEN (m - 1) - 1 + 1 ELSE 0
          /\ \A k \in 1..((m - 1) - 1 + 1) : u[k] = s[1 + k - 1]
      BY <1>1, <2>1, SubSeqProperties
    <2> HIDE DEF u
    <2> QED BY <1>1, <2>2
  <1>3. v \in Seq(Blocks) /\ Len(v) = n - m /\ \A k \in 1..(n - m) : v[k] = s[m + k]
    <2> HIDE DEF n
    <2>1. \A k \in (m + 1)..n : s[k] \in Blocks BY <1>1
    <2>2. /\ v \in Seq(Blocks) /\ Len(v) = IF m + 1 <= n THEN n - (m + 1) + 1 ELSE 0
          /\ \A k \in 1..(n - (m + 1) + 1) : v[k] = s[(m + 1) + k - 1]
      BY <1>1, <2>1, SubSeqProperties
    <2> HIDE DEF v
    <2>3. n - (m + 1) + 1 = n - m /\ (~(m + 1 <= n) => n - m = 0) BY <1>1
    <2>4. \A k \in 1..(n - m) : (m + 1) + k - 1 = m + k BY <1>1
    <2> QED BY <2>2, <2>3, <2>4
  <1> HIDE DEF u, v
  <1>4. RemoveAt(s, m) = z BY DEF RemoveAt, u, v
  <1>5. /\ z \in Seq(Blocks) /\ Len(z) = n - 1
        /\ \A k \in 1..(n - 1) : z[k] = IF k <= m - 1 THEN u[k] ELSE v[k - (m - 1)]
    <2> HIDE DEF n
    <2>1. /\ z \in Seq(Blocks) /\ Len(z) = Len(u) + Len(v)
          /\ \A k \in 1..(Len(u) + Len(v)) : z[k] = IF k <= Len(u) THEN u[k] ELSE v[k - Len(u)]
      BY <1>2, <1>3, ConcatProperties
    <2> HIDE DEF z
    <2>2. Len(u) + Len(v) = n - 1 /\ Len(u) = m - 1 BY <1>1, <1>2, <1>3
    <2> QED BY <2>1, <2>2
  <1> HIDE DEF z
  <1>6. ASSUME NEW k \in 1..(n - 1) PROVE z[k] = IF k < m THEN s[k] ELSE s[k + 1]
    <2> HIDE DEF n
    <2>1. CASE k < m
      <3>1. k <= m - 1 /\ k \in 1..(m - 1) BY <1>1, <2>1
      <3> QED BY <1>2, <1>5, <2>1, <3>1
    <2>2. CASE ~(k < m)
      <3>1. ~(k <= m - 1) /\ k - (m - 1) \in 1..(n - m) /\ m + (k - (m - 1)) = k + 1
        BY <1>1, <2>2
      <3>2. z[k] = v[k - (m - 1)] BY <1>5, <3>1
      <3>3. v[k - (m - 1)] = s[m + (k - (m - 1))] BY <1>3, <3>1
      <3> QED BY <2>2, <3>1, <3>2, <3>3
    <2> QED BY <2>1, <2>2
  <1> QED BY <1>4, <1>5, <1>6 DEF z

\* A block that is put behind another one comes after it in the order,
LEMMA PathPut ==
  ASSUME NEW f \in Nodes, NEW h \in Nodes, NEW i \in Indices, Straight(f, i),
         NEW s \in Seq(Blocks), Path(f, i, s), NEW k \in 1..Len(s),
         NEW b \in Blocks, b \notin From(f, i),
         h[b] = f[s[k]], h[s[k]] = b, \A c \in Blocks \ {b, s[k]} : h[c] = f[c]
  PROVE  InsertAt(s, k + 1, b) \in Seq(Blocks) /\ Path(h, i, InsertAt(s, k + 1, b))
  <1> DEFINE n == Len(s)
             t == InsertAt(s, k + 1, b)
  <1>1. n \in Nat /\ k \in 1..n /\ s \in [1..n -> Blocks] OBVIOUS
  <1>2. /\ t \in Seq(Blocks) /\ Len(t) = n + 1
        /\ \A j \in 1..(n + 1) : t[j] = IF j < k + 1 THEN s[j] ELSE IF j = k + 1 THEN b ELSE s[j - 1]
    <2>1. k + 1 \in 1..(Len(s) + 1) BY <1>1
    <2>2. PICK m \in 1..(Len(s) + 1) : m = k + 1 BY <2>1
    <2> DEFINE r == InsertAt(s, m, b)
    <2>3. r \in Seq(Blocks) /\ Len(r) = Len(s) + 1 BY Inserted
    <2>4. ASSUME NEW j \in 1..(Len(s) + 1)
          PROVE  r[j] = IF j < m THEN s[j] ELSE IF j = m THEN b ELSE s[j - 1]
      BY Inserted
    <2>5. r = t BY <2>2
    <2> HIDE DEF r, t
    <2> QED BY <2>2, <2>3, <2>4, <2>5
  <1>3. /\ i = IF n = 0 THEN None ELSE s[1]
        /\ \A j \in 1..n : f[s[j]] = IF j = n THEN None ELSE s[j + 1]
    BY DEF Path
  <1>4. /\ \A j \in 1..n : s[j] # b
        /\ \A j \in 1..n : j # k => s[j] # s[k]
    BY PathIsList
  <1> HIDE DEF n, t
  <1>5. \A j \in 1..n : j # k => h[s[j]] = f[s[j]] BY <1>1, <1>4
  <1>6. ASSUME NEW j \in 1..(n + 1)
        PROVE  h[t[j]] = IF j = n + 1 THEN None ELSE t[j + 1]
    <2>1. CASE j < k
      <3>1. /\ j \in 1..n /\ j # n /\ j # k /\ j # n + 1 /\ j + 1 \in 1..(n + 1)
            /\ j < k + 1 /\ j + 1 < k + 1
        BY <1>1, <2>1
      <3>2. t[j] = s[j] /\ t[j + 1] = s[j + 1] BY <1>2, <3>1
      <3> QED BY <1>3, <1>5, <3>1, <3>2
    <2>2. CASE j = k
      <3>1. /\ j # n + 1 /\ j + 1 \in 1..(n + 1) /\ j < k + 1 /\ ~(j + 1 < k + 1) /\ j + 1 = k + 1
        BY <1>1, <2>2
      <3>2. t[j] = s[k] /\ t[j + 1] = b BY <1>2, <2>2, <3>1
      <3> QED BY <3>1, <3>2
    <2>3. CASE j = k + 1
      <3>1. t[j] = b BY <1>1, <1>2, <2>3
      <3>2. h[t[j]] = IF k = n THEN None ELSE s[k + 1] BY <1>1, <1>3, <3>1
      <3>3. k = n <=> j = n + 1 BY <1>1, <2>3
      <3>4. ASSUME k # n PROVE t[j + 1] = s[k + 1]
        <4>1. /\ j + 1 \in 1..(n + 1) /\ ~(j + 1 < k + 1) /\ j + 1 # k + 1
              /\ (j + 1) - 1 = k + 1
          BY <1>1, <2>3, <3>4
        <4>2. t[j + 1] = s[(j + 1) - 1] BY <1>2, <4>1
        <4> QED BY <4>1, <4>2
      <3> QED BY <3>2, <3>3, <3>4
    <2>4. CASE j > k + 1
      <3>1. /\ j - 1 \in 1..n /\ j - 1 # k /\ ~(j < k + 1) /\ j # k + 1
            /\ (j - 1) + 1 = j /\ (j - 1 = n <=> j = n + 1)
        BY <1>1, <2>4
      <3>2. t[j] = s[j - 1] BY <1>2, <3>1
      <3>3. h[t[j]] = IF j = n + 1 THEN None ELSE s[j]
        <4>1. f[s[j - 1]] = IF j - 1 = n THEN None ELSE s[(j - 1) + 1] BY <1>3, <3>1
        <4> QED BY <1>5, <3>1, <3>2, <4>1
      <3>4. ASSUME j # n + 1 PROVE t[j + 1] = s[j]
        <4>1. /\ j + 1 \in 1..(n + 1) /\ ~(j + 1 < k + 1) /\ j + 1 # k + 1 /\ (j + 1) - 1 = j
          BY <1>1, <2>4, <3>4
        <4>2. t[j + 1] = s[(j + 1) - 1] BY <1>2, <4>1
        <4> QED BY <4>1, <4>2
      <3> QED BY <3>3, <3>4
    <2> QED BY <1>1, <2>1, <2>2, <2>3, <2>4
  <1>7. i = IF n + 1 = 0 THEN None ELSE t[1]
    <2>1. 1 \in 1..(n + 1) /\ 1 < k + 1 /\ n # 0 /\ n + 1 # 0 BY <1>1
    <2>2. t[1] = s[1] BY <1>2, <2>1
    <2> QED BY <1>3, <2>1, <2>2
  <1> QED BY <1>2, <1>6, <1>7 DEF Path, t

\* and the one behind it is taken out.
LEMMA PathTaken ==
  ASSUME NEW f \in Nodes, NEW h \in Nodes, NEW i \in Indices, Straight(f, i),
         NEW s \in Seq(Blocks), Path(f, i, s), NEW k \in 1..Len(s), f[s[k]] # None,
         h[s[k]] = f[f[s[k]]], \A c \in Blocks \ {s[k]} : h[c] = f[c]
  PROVE  /\ k + 1 \in 1..Len(s) /\ s[k + 1] = f[s[k]]
         /\ RemoveAt(s, k + 1) \in Seq(Blocks) /\ Path(h, i, RemoveAt(s, k + 1))
  <1> DEFINE n == Len(s)
             t == RemoveAt(s, k + 1)
  <1>1. n \in Nat /\ k \in 1..n /\ s \in [1..n -> Blocks] OBVIOUS
  <1>2. /\ i = IF n = 0 THEN None ELSE s[1]
        /\ \A j \in 1..n : f[s[j]] = IF j = n THEN None ELSE s[j + 1]
    BY DEF Path
  <1>3. k # n /\ f[s[k]] = s[k + 1] BY <1>2
  <1>4. k + 1 \in 1..n
    <2> HIDE DEF n
    <2> QED BY <1>1, <1>3
  <1>5. /\ t \in Seq(Blocks) /\ Len(t) = n - 1
        /\ \A j \in 1..(n - 1) : t[j] = IF j < k + 1 THEN s[j] ELSE s[j + 1]
    BY <1>4, TakenOut
  <1>6. \A j \in 1..n : j # k => s[j] # s[k] BY PathIsList
  <1> HIDE DEF n, t
  <1>7. \A j \in 1..n : j # k => h[s[j]] = f[s[j]] BY <1>1, <1>6
  <1>8. ASSUME NEW j \in 1..(n - 1)
        PROVE  h[t[j]] = IF j = n - 1 THEN None ELSE t[j + 1]
    <2>1. CASE j < k
      <3>1. /\ j \in 1..n /\ j # n /\ j # k /\ j # n - 1 /\ j + 1 \in 1..(n - 1)
            /\ j < k + 1 /\ j + 1 < k + 1
        BY <1>1, <1>4, <2>1
      <3>2. t[j] = s[j] /\ t[j + 1] = s[j + 1] BY <1>5, <3>1
      <3> QED BY <1>2, <1>7, <3>1, <3>2
    <2>2. CASE j = k
      <3>1. t[j] = s[k] /\ h[t[j]] = f[s[k + 1]] BY <1>1, <1>3, <1>5, <2>2
      <3>2. h[t[j]] = IF k + 1 = n THEN None ELSE s[(k + 1) + 1] BY <1>2, <1>4, <3>1
      <3>3. k + 1 = n <=> j = n - 1 BY <1>1, <2>2
      <3>4. ASSUME j # n - 1 PROVE t[j + 1] = s[(k + 1) + 1]
        <4>1. j + 1 \in 1..(n - 1) /\ ~(j + 1 < k + 1) BY <1>1, <1>4, <2>2, <3>4
        <4> QED BY <1>5, <2>2, <4>1
      <3> QED BY <3>2, <3>3, <3>4
    <2>3. CASE j > k
      <3>1. j + 1 \in 1..n /\ j + 1 # k /\ ~(j < k + 1) /\ (j + 1 = n <=> j = n - 1)
        BY <1>1, <2>3
      <3>2. t[j] = s[j + 1] BY <1>5, <3>1
      <3>3. h[t[j]] = IF j = n - 1 THEN None ELSE s[(j + 1) + 1] BY <1>2, <1>7, <3>1, <3>2
      <3>4. ASSUME j # n - 1 PROVE t[j + 1] = s[(j + 1) + 1]
        <4>1. j + 1 \in 1..(n - 1) /\ ~(j + 1 < k + 1) BY <1>1, <2>3, <3>4
        <4> QED BY <1>5, <4>1
      <3> QED BY <3>3, <3>4
    <2> QED BY <1>1, <2>1, <2>2, <2>3
  <1>9. i = IF n - 1 = 0 THEN None ELSE t[1]
    <2>1. n # 0 /\ n - 1 # 0 /\ 1 \in 1..(n - 1) /\ 1 < k + 1 BY <1>1, <1>4
    <2>2. t[1] = s[1] BY <1>5, <2>1
    <2> QED BY <1>2, <2>1, <2>2
  <1> QED BY <1>3, <1>4, <1>5, <1>8, <1>9 DEF Path, n, t

-----------------------------------------------------------------------------
(***************************************************************************)
(* What BlockStacks shows of a step.                                       *)
(***************************************************************************)

Order(l) == Follow(First(l))
InOrder(l) == Order(l) \in Seq(Blocks) /\ Path(next, First(l), Order(l))
Ordered == \A l \in Lists : InOrder(l)

\* A path that is found from the first index of a list is its order,
LEMMA OrderNow ==
  ASSUME BlocksInv, NEW l \in Lists, NEW s \in Seq(Blocks), Path(next, First(l), s)
  PROVE  Order(l) = s /\ InOrder(l)
  <1>1. next \in Nodes /\ First(l) \in Indices /\ Straight(next, First(l)) BY ListsNow
  <1>2. Order(l) = s BY <1>1, OnlyPath DEF Order, Follow, Listed
  <1> QED BY <1>2 DEF InOrder

\* and so after a step.
LEMMA OrderThen ==
  ASSUME BlocksInv', NEW l \in Lists, NEW s \in Seq(Blocks), Path(next', First(l)', s)
  PROVE  Order(l)' = s /\ InOrder(l)'
  <1>1. next' \in Nodes /\ First(l)' \in Indices
    BY DEF BlocksInv, TypeOK, Nodes, Indices, Lists, First, Heads
  <1>2. Straight(next', First(l)')
    <2>1. Straight(next, First(l))' BY DEF BlocksInv
    <2> QED BY <2>1 DEF Straight, From, ClosedFrom
  <1>3. Order(l)' = CHOOSE t \in [1..Cardinality(From(next', First(l)')) -> From(next', First(l)')] :
                        Path(next', First(l)', t)
    BY DEF Order, Follow, Listed, Path
  <1>4. Order(l)' = s BY <1>1, <1>2, <1>3, OnlyPath
  <1> QED BY <1>4 DEF InOrder, Path

\* A list whose first index and links stay has the order it had.
LEMMA OrderKept ==
  ASSUME BlocksInv, BlocksInv', NEW l \in Lists, InOrder(l), First(l)' = First(l),
         \A b \in OnList(l) : next'[b] = next[b]
  PROVE  Order(l)' = Order(l) /\ InOrder(l)'
  <1>1. /\ next \in Nodes /\ First(l) \in Indices /\ Straight(next, First(l))
        /\ OnList(l) = From(next, First(l))
    BY ListsNow
  <1>2. next' \in Nodes BY DEF BlocksInv, TypeOK, Nodes
  <1>3. Order(l) \in Seq(Blocks) /\ Path(next, First(l), Order(l)) BY DEF InOrder
  <1>4. Path(next', First(l), Order(l)) BY <1>1, <1>2, <1>3, SamePath
  <1> QED BY <1>3, <1>4, OrderThen

\* The order is of just the blocks on the list.
LEMMA OrderHas ==
  ASSUME BlocksInv, NEW l \in Lists, InOrder(l)
  PROVE  /\ ToSet(Order(l)) = OnList(l)
         /\ \A b \in OnList(l) : \E k \in 1..Len(Order(l)) : Order(l)[k] = b
  <1>1. /\ next \in Nodes /\ First(l) \in Indices /\ Straight(next, First(l))
        /\ OnList(l) = From(next, First(l))
    BY ListsNow
  <1>2. Order(l) \in Seq(Blocks) /\ Path(next, First(l), Order(l)) BY DEF InOrder
  <1>3. /\ \A k \in 1..Len(Order(l)) : Order(l)[k] \in OnList(l)
        /\ \A b \in OnList(l) : \E k \in 1..Len(Order(l)) : Order(l)[k] = b
    BY <1>1, <1>2, PathIsList
  <1>4. DOMAIN Order(l) = 1..Len(Order(l)) BY <1>2
  <1> QED BY <1>3, <1>4 DEF ToSet

\* A step that shows nothing, and the ones that show a call take effect.
Unseen == Ordered' /\ block' = block /\ \A l \in Lists : Order(l)' = Order(l)

PopSeen(a, s) ==
    /\ Order(s) # <<>> /\ Order(s)' = Tail(Order(s))
    /\ block[a] = None /\ block' = [block EXCEPT ![a] = Head(Order(s))]
    /\ \A l \in Lists \ {s} : Order(l)' = Order(l)

PushSeen(a, s) ==
    /\ block[a] # None /\ block' = [block EXCEPT ![a] = None]
    /\ Order(s)' = <<block[a]>> \o Order(s)
    /\ \A l \in Lists \ {s} : Order(l)' = Order(l)

PutSeen ==
    /\ block[Reader] # None /\ block' = [block EXCEPT ![Reader] = None]
    /\ \E i \in 1..(Len(Order("used")) + 1) :
           Order("used")' = InsertAt(Order("used"), i, block[Reader])
    /\ \A l \in Lists \ {"used"} : Order(l)' = Order(l)

TakeSeen ==
    /\ \E i \in 1..Len(Order("used")) :
        /\ Order("used")' = RemoveAt(Order("used"), i)
        /\ block[Reader] = None /\ block' = [block EXCEPT ![Reader] = Order("used")[i]]
    /\ \A l \in Lists \ {"used"} : Order(l)' = Order(l)

DieSeen ==
    /\ Order("free")' \in SetToSeqs(Blocks \ (ToSet(Order("stage")) \cup ToSet(Order("used"))))
    /\ block' = [a \in Actors |-> None]
    /\ \A l \in Lists \ {"free"} : Order(l)' = Order(l)

\* What a call does before its compare-and-swap is not seen.
LEMMA Prepared ==
  ASSUME BlocksInv, BlocksInv', Ordered, block' = block, UNCHANGED <<head, used>>,
         \A l \in Lists : \A b \in OnList(l) : next'[b] = next[b]
  PROVE  Unseen
  <1>1. \A l \in Lists : First(l)' = First(l) BY DEF First
  <1>2. \A l \in Lists : Order(l)' = Order(l) /\ InOrder(l)'
    BY <1>1, OrderKept DEF Ordered
  <1> QED BY <1>2 DEF Unseen, Ordered

LEMMA PushLinkSeen ==
  ASSUME BlocksInv, BlocksInv', Ordered, NEW a \in Actors, NEW p \in Pushing, Call(a, p), PushLink(a, p)
  PROVE  Unseen
  <1>1. /\ block[a] \in Blocks /\ \A l \in Lists : block[a] \notin OnList(l)
    <2>1. At(a, p) BY DEF PushLink, At
    <2> QED BY <2>1, InHand, BlockListAssumption
  <1>2. UNCHANGED <<head, used, block>> /\ next' = [next EXCEPT ![block[a]] = copy[a].index]
    BY DEF PushLink
  <1>3. \A l \in Lists : \A b \in OnList(l) : next'[b] = next[b]
    BY <1>1, <1>2, ListsNow DEF Nodes
  <1> QED BY <1>2, <1>3, Prepared

\* The swap of pop shows that the first block is taken, if it succeeds,
LEMMA PopSwapSeen ==
  ASSUME BlocksInv, BlocksInv', Ordered, NEW a \in Actors, NEW p \in Popping, Call(a, p),
         Swap(a, p, Holding, copy[a].index)
  PROVE  Ordered' /\ (Unseen \/ PopSeen(a, Stack(p)))
  <1> DEFINE s == Stack(p)
             b == copy[a].index
  <1>1. CASE head[s] # copy[a]
    <2>1. UNCHANGED <<head, block, used, next>> BY <1>1 DEF Swap
    <2>2. Unseen BY <2>1, Prepared
    <2> QED BY <2>2 DEF Unseen
  <1>2. CASE head[s] = copy[a]
    <2>1. pc[a] = <<p, "swap">> BY DEF Swap
    <2>2. age[a] = 0 /\ CopyFits(a, p) BY <1>2, <2>1, SwapIsFresh
    <2>3. s \in {"free", "stage"} /\ s \in Lists BY CallPlaces
    <2>4. b = First(s) /\ b \in Blocks /\ seen[a] = next[b]
      <3>1. b = First(s) /\ First(s) \in Indices BY <1>2, <2>3, ListsNow
      <3>2. b # None /\ seen[a] = next[b] BY <2>1, <2>2 DEF CopyFits
      <3> QED BY <3>1, <3>2 DEF Indices
    <2>5. /\ At(a, p) /\ next' = next /\ First(s)' = next[b]
          /\ \A l \in Lists \ {s} : First(l)' = First(l)
      BY <1>2, <2>4, SwapDone
    <2>6. block' = [block EXCEPT ![a] = b] BY <1>2 DEF Swap
    <2>7. block[a] = None BY <2>5, InHand
    <2>8. next \in Nodes /\ Order(s) \in Seq(Blocks) /\ Path(next, b, Order(s))
      BY <2>3, <2>4, ListsNow DEF Ordered, InOrder
    <2>9. /\ Order(s) # <<>> /\ Head(Order(s)) = b /\ Tail(Order(s)) \in Seq(Blocks)
          /\ Path(next, next[b], Tail(Order(s)))
      BY <2>4, <2>8, PathPopped
    <2>10. Order(s)' = Tail(Order(s)) /\ InOrder(s)' BY <2>3, <2>5, <2>9, OrderThen
    <2>11. \A l \in Lists \ {s} : Order(l)' = Order(l) /\ InOrder(l)'
      BY <2>5, OrderKept DEF Ordered
    <2>12. Ordered' BY <2>10, <2>11 DEF Ordered
    <2> QED BY <2>6, <2>7, <2>9, <2>10, <2>11, <2>12 DEF PopSeen
  <1> QED BY <1>1, <1>2

\* and the one of push that the block comes first.
LEMMA PushSwapSeen ==
  ASSUME BlocksInv, BlocksInv', Ordered, NEW a \in Actors, NEW p \in Pushing, Call(a, p),
         Swap(a, p, Idle, None)
  PROVE  Ordered' /\ (Unseen \/ PushSeen(a, Stack(p)))
  <1> DEFINE s == Stack(p)
             b == block[a]
  <1>1. CASE head[s] # copy[a]
    <2>1. UNCHANGED <<head, block, used, next>> BY <1>1 DEF Swap
    <2>2. Unseen BY <2>1, Prepared
    <2> QED BY <2>2 DEF Unseen
  <1>2. CASE head[s] = copy[a]
    <2>1. pc[a] = <<p, "swap">> BY DEF Swap
    <2>2. age[a] = 0 /\ CopyFits(a, p) BY <1>2, <2>1, SwapIsFresh
    <2>3. s \in {"free", "stage"} /\ s \in Lists BY CallPlaces
    <2>4. /\ At(a, p) /\ next' = next /\ First(s)' = seen[a]
          /\ \A l \in Lists \ {s} : First(l)' = First(l)
      BY <1>2, SwapDone
    <2>5. block' = [block EXCEPT ![a] = None] BY <1>2 DEF Swap
    <2>6. b \in Blocks /\ b # None BY <2>4, InHand, BlockListAssumption
    <2>7. seen[a] = b /\ next[b] = First(s)
      <3>1. seen[a] = b /\ next[b] = copy[a].index BY <2>1, <2>2 DEF CopyFits
      <3> QED BY <1>2, <2>3, <3>1, ListsNow
    <2>8. /\ next \in Nodes /\ First(s) \in Indices
          /\ Order(s) \in Seq(Blocks) /\ Path(next, First(s), Order(s))
      BY <2>3, ListsNow DEF Ordered, InOrder
    <2>9. <<b>> \o Order(s) \in Seq(Blocks) /\ Path(next, b, <<b>> \o Order(s))
      BY <2>6, <2>7, <2>8, PathPushed
    <2>10. Order(s)' = <<b>> \o Order(s) /\ InOrder(s)' BY <2>3, <2>4, <2>7, <2>9, OrderThen
    <2>11. \A l \in Lists \ {s} : Order(l)' = Order(l) /\ InOrder(l)'
      BY <2>4, OrderKept DEF Ordered
    <2>12. Ordered' BY <2>10, <2>11 DEF Ordered
    <2> QED BY <2>5, <2>6, <2>10, <2>11, <2>12 DEF PushSeen
  <1> QED BY <1>1, <1>2

\* What the reader does to used_ leaves the stacks alone.
LEMMA StacksSeen ==
  ASSUME BlocksInv, BlocksInv', Ordered, head' = head,
         \A k \in Blocks : k \notin OnList("used") /\ k # block[Reader] => next'[k] = next[k]
  PROVE  \A l \in Lists \ {"used"} : Order(l)' = Order(l) /\ InOrder(l)'
  <1>0. Reader \in Actors /\ "used" \in Lists BY DEF Actors, Lists
  <1>1. SUFFICES ASSUME NEW l \in Lists \ {"used"} PROVE  Order(l)' = Order(l) /\ InOrder(l)'
    OBVIOUS
  <1>2. \A k \in OnList(l) : k \in Blocks /\ k \notin OnList("used") /\ k # block[Reader]
    BY <1>0, ListsNow DEF BlocksInv, EachBlockOnce
  <1>3. \A k \in OnList(l) : next'[k] = next[k] BY <1>2
  <1>4. First(l)' = First(l) BY DEF First
  <1> QED BY <1>3, <1>4, OrderKept DEF Ordered

LEMMA PutUsedSeen ==
  ASSUME BlocksInv, BlocksInv', Ordered, PutUsed
  PROVE  Ordered' /\ PutSeen
  <1> DEFINE b == block[Reader]
             s == Order("used")
  <1>1. /\ Reader \in Actors /\ "used" \in Lists /\ First("used") = used /\ First("used")' = used'
        /\ pc[Reader] = Holding /\ head' = head /\ block' = [block EXCEPT ![Reader] = None]
    BY DEF Actors, Lists, First, PutUsed
  <1>2. b \in Blocks /\ b # None /\ b \notin OnList("used") BY <1>1, InHand, BlockListAssumption
  <1>3. /\ next \in Nodes /\ used \in Indices /\ Straight(next, used)
        /\ OnList("used") = From(next, used) /\ UsedBlocks = OnList("used")
    BY <1>1, ListsNow DEF OnList, UsedBlocks
  <1>4. next' \in Nodes BY DEF BlocksInv, TypeOK, Nodes
  <1>5. s \in Seq(Blocks) /\ Path(next, used, s) BY <1>1 DEF Ordered, InOrder
  <1>6. CASE next' = [next EXCEPT ![b] = used] /\ used' = b
    <2>1. next'[b] = used /\ \A k \in Blocks \ {b} : next'[k] = next[k] BY <1>2, <1>3, <1>6 DEF Nodes
    <2>2. \A k \in From(next, used) : k \in Blocks /\ k # b BY <1>2, <1>3, Closed
    <2>3. Path(next', used, s) BY <1>3, <1>4, <1>5, <2>1, <2>2, SamePath
    <2>4. <<b>> \o s \in Seq(Blocks) /\ Path(next', b, <<b>> \o s)
      BY <1>2, <1>3, <1>4, <1>5, <2>1, <2>3, PathPushed
    <2>5. Order("used")' = <<b>> \o s /\ InOrder("used")' BY <1>1, <1>6, <2>4, OrderThen
    <2>6. 1 \in 1..(Len(s) + 1) /\ <<b>> \o s = InsertAt(s, 1, b)
      <3>1. SubSeq(s, 1, 1 - 1) = <<>> /\ SubSeq(s, 1, Len(s)) = s /\ 1 \in 1..(Len(s) + 1) BY <1>5
      <3>2. <<b>> \in Seq(Blocks) /\ <<>> \o <<b>> = <<b>> BY <1>2
      <3> QED BY <3>1, <3>2 DEF InsertAt
    <2>7. \A k \in Blocks : k \notin OnList("used") /\ k # b => next'[k] = next[k] BY <2>1
    <2>8. \A l \in Lists \ {"used"} : Order(l)' = Order(l) /\ InOrder(l)' BY <1>1, <2>7, StacksSeen
    <2> QED BY <1>1, <1>2, <2>5, <2>6, <2>8 DEF Ordered, PutSeen
  <1>7. CASE \E prev \in UsedBlocks :
                next' = [next EXCEPT ![b] = next[prev], ![prev] = b] /\ UNCHANGED used
    <2>1. PICK prev \in UsedBlocks :
                next' = [next EXCEPT ![b] = next[prev], ![prev] = b] /\ UNCHANGED used BY <1>7
    <2>2. prev \in Blocks /\ prev # b /\ prev \in OnList("used") BY <1>2, <1>3, <2>1, Closed
    <2>3. /\ next'[b] = next[prev] /\ next'[prev] = b
          /\ \A c \in Blocks \ {b, prev} : next'[c] = next[c]
      BY <1>2, <1>3, <2>1, <2>2 DEF Nodes
    <2>4. PICK k \in 1..Len(s) : s[k] = prev BY <1>1, <2>2, OrderHas DEF Ordered
    <2>5. InsertAt(s, k + 1, b) \in Seq(Blocks) /\ Path(next', used, InsertAt(s, k + 1, b))
      BY <1>2, <1>3, <1>4, <1>5, <2>3, <2>4, PathPut
    <2>6. Order("used")' = InsertAt(s, k + 1, b) /\ InOrder("used")' BY <1>1, <2>1, <2>5, OrderThen
    <2>7. k + 1 \in 1..(Len(s) + 1) BY <1>5
    <2>8. \A c \in Blocks : c \notin OnList("used") /\ c # b => next'[c] = next[c] BY <2>2, <2>3
    <2>9. \A l \in Lists \ {"used"} : Order(l)' = Order(l) /\ InOrder(l)' BY <1>1, <2>8, StacksSeen
    <2> QED BY <1>1, <1>2, <2>6, <2>7, <2>9 DEF Ordered, PutSeen
  <1> QED BY <1>6, <1>7 DEF PutUsed

LEMMA TakeUsedSeen ==
  ASSUME BlocksInv, BlocksInv', Ordered, TakeUsed
  PROVE  Ordered' /\ TakeSeen
  <1> DEFINE s == Order("used")
  <1>1. /\ Reader \in Actors /\ "used" \in Lists /\ First("used") = used /\ First("used")' = used'
        /\ pc[Reader] = Idle /\ head' = head
    BY DEF Actors, Lists, First, TakeUsed
  <1>2. block[Reader] = None BY <1>1, InHand
  <1>3. /\ next \in Nodes /\ used \in Indices /\ Straight(next, used)
        /\ OnList("used") = From(next, used) /\ UsedBlocks = OnList("used")
    BY <1>1, ListsNow DEF OnList, UsedBlocks
  <1>4. next' \in Nodes BY DEF BlocksInv, TypeOK, Nodes
  <1>5. s \in Seq(Blocks) /\ Path(next, used, s) BY <1>1 DEF Ordered, InOrder
  <1>6. CASE /\ used # None /\ used' = next[used]
             /\ block' = [block EXCEPT ![Reader] = used] /\ UNCHANGED next
    <2>1. used \in Blocks BY <1>3, <1>6 DEF Indices
    <2>2. s # <<>> /\ Head(s) = used /\ Tail(s) \in Seq(Blocks) /\ Path(next, next[used], Tail(s))
      BY <1>3, <1>5, <2>1, PathPopped
    <2>3. Order("used")' = Tail(s) /\ InOrder("used")' BY <1>1, <1>6, <2>2, OrderThen
    <2>4. 1 \in 1..Len(s) /\ s[1] = used BY <1>5, <2>2
    <2>5. Tail(s) = RemoveAt(s, 1)
      <3>1. /\ RemoveAt(s, 1) \in Seq(Blocks) /\ Len(RemoveAt(s, 1)) = Len(s) - 1
            /\ \A k \in 1..(Len(s) - 1) : RemoveAt(s, 1)[k] = IF k < 1 THEN s[k] ELSE s[k + 1]
        BY <1>5, <2>4, TakenOut
      <3>2. Len(Tail(s)) = Len(s) - 1 /\ \A k \in 1..(Len(s) - 1) : Tail(s)[k] = s[k + 1]
        BY <1>5, <2>2, HeadTailProperties
      <3>3. \A k \in 1..(Len(s) - 1) : ~(k < 1) BY <1>5
      <3>4. \A k \in 1..Len(Tail(s)) : Tail(s)[k] = RemoveAt(s, 1)[k] BY <3>1, <3>2, <3>3
      <3> QED BY <2>2, <3>1, <3>2, <3>4, SeqEqual
    <2>6. \A l \in Lists \ {"used"} : Order(l)' = Order(l) /\ InOrder(l)' BY <1>1, <1>6, StacksSeen
    <2> QED BY <1>1, <1>2, <1>6, <2>3, <2>4, <2>5, <2>6 DEF Ordered, TakeSeen
  <1>7. CASE \E prev \in UsedBlocks :
                /\ next[prev] # None
                /\ next' = [next EXCEPT ![prev] = next[next[prev]]]
                /\ block' = [block EXCEPT ![Reader] = next[prev]]
                /\ UNCHANGED used
    <2>1. PICK prev \in UsedBlocks :
                /\ next[prev] # None
                /\ next' = [next EXCEPT ![prev] = next[next[prev]]]
                /\ block' = [block EXCEPT ![Reader] = next[prev]]
                /\ UNCHANGED used
      BY <1>7
    <2>2. prev \in Blocks /\ prev \in OnList("used") BY <1>3, <2>1, Closed
    <2>3. next'[prev] = next[next[prev]] /\ \A c \in Blocks \ {prev} : next'[c] = next[c]
      BY <1>3, <2>1, <2>2 DEF Nodes
    <2>4. PICK k \in 1..Len(s) : s[k] = prev BY <1>1, <2>2, OrderHas DEF Ordered
    <2>5. /\ k + 1 \in 1..Len(s) /\ s[k + 1] = next[prev]
          /\ RemoveAt(s, k + 1) \in Seq(Blocks) /\ Path(next', used, RemoveAt(s, k + 1))
      <3>1. /\ next[s[k]] # None /\ next'[s[k]] = next[next[s[k]]]
            /\ \A c \in Blocks \ {s[k]} : next'[c] = next[c]
        BY <2>1, <2>3, <2>4
      <3>2. /\ k + 1 \in 1..Len(s) /\ s[k + 1] = next[s[k]]
            /\ RemoveAt(s, k + 1) \in Seq(Blocks) /\ Path(next', used, RemoveAt(s, k + 1))
        BY <1>3, <1>4, <1>5, <3>1, PathTaken
      <3> QED BY <2>4, <3>2
    <2>6. Order("used")' = RemoveAt(s, k + 1) /\ InOrder("used")' BY <1>1, <2>1, <2>5, OrderThen
    <2>7. \A c \in Blocks : c \notin OnList("used") /\ c # block[Reader] => next'[c] = next[c]
      BY <2>2, <2>3
    <2>8. \A l \in Lists \ {"used"} : Order(l)' = Order(l) /\ InOrder(l)' BY <1>1, <2>7, StacksSeen
    <2> QED BY <1>1, <1>2, <2>1, <2>5, <2>6, <2>8 DEF Ordered, TakeSeen
  <1> QED BY <1>6, <1>7 DEF TakeUsed

\* How the constructor links the blocks of an order: each to the one pushed
\* before it, and the one pushed last is the first of the list.
LEMMA ChainLinks ==
  ASSUME NEW S \in SUBSET Blocks, NEW order \in Orders(S), NEW old \in Nodes
  PROVE  /\ Pushed(order).index = IF Len(order) = 0 THEN None ELSE order[Len(order)]
         /\ \A k \in 1..Len(order) :
                Chain(order, old)[order[k]] = IF k = 1 THEN None ELSE order[k - 1]
  <1> DEFINE h == Chain(order, old)
             n == Len(order)
  <1>1. /\ n \in Nat /\ order \in [1..n -> S] /\ DOMAIN order = 1..n /\ ToSet(order) = S
        /\ \A j, k \in 1..n : order[j] = order[k] => j = k
    BY OrderIsWhole
  <1>2. \A b \in Blocks :
            h[b] = IF b \notin S THEN old[b]
                   ELSE IF b = order[1] THEN None
                   ELSE order[CHOOSE k \in 1..(n - 1) : order[k + 1] = b]
    BY <1>1 DEF Chain
  <1>3. ASSUME NEW k \in 1..n
        PROVE  h[order[k]] = IF k = 1 THEN None ELSE order[k - 1]
    <2>1. order[k] \in S /\ order[k] \in Blocks BY <1>1
    <2>2. CASE k = 1 BY <1>2, <2>1, <2>2
    <2>3. CASE k # 1
      <3>1. 1 \in 1..n /\ k - 1 \in 1..(n - 1) /\ (k - 1) + 1 = k BY <1>1, <2>3
      <3>2. order[k] # order[1] BY <1>1, <2>3, <3>1
      <3> DEFINE m == CHOOSE c \in 1..(n - 1) : order[c + 1] = order[k]
      <3>3. m \in 1..(n - 1) /\ order[m + 1] = order[k] BY <3>1
      <3>4. m + 1 \in 1..n BY <1>1, <3>3
      <3>5. m + 1 = k BY <1>1, <3>3, <3>4
      <3>6. m = k - 1 BY <3>3, <3>5
      <3>7. h[order[k]] = order[m] BY <1>2, <2>1, <3>2
      <3> QED BY <2>3, <3>6, <3>7
    <2> QED BY <2>2, <2>3
  <1>4. Pushed(order).index = IF n = 0 THEN None ELSE order[n]
    <2>1. order = <<>> <=> n = 0 BY <1>1
    <2> QED BY <2>1 DEF Pushed, Last
  <1> QED BY <1>3, <1>4

\* So the list is the order from behind.
LEMMA PathChained ==
  ASSUME NEW S \in SUBSET Blocks, NEW order \in Orders(S), NEW old \in Nodes
  PROVE  \E s \in Seq(Blocks) : /\ s \in SetToSeqs(S)
                                /\ Path(Chain(order, old), Pushed(order).index, s)
  <1> DEFINE h == Chain(order, old)
             n == Len(order)
             s == [k \in 1..n |-> order[n - k + 1]]
  <1>1. /\ n \in Nat /\ order \in [1..n -> S] /\ n = Cardinality(S)
        /\ \A j, k \in 1..n : order[j] = order[k] => j = k
    BY OrderIsWhole
  <1>2. /\ Pushed(order).index = IF n = 0 THEN None ELSE order[n]
        /\ \A k \in 1..n : h[order[k]] = IF k = 1 THEN None ELSE order[k - 1]
    BY ChainLinks
  <1> HIDE DEF h, n
  <1>3. \A k \in 1..n : n - k + 1 \in 1..n BY <1>1
  <1>4. s \in [1..n -> S] BY <1>1, <1>3
  <1>5. s \in Seq(Blocks) /\ Len(s) = n
    <2>1. s \in [1..n -> Blocks] BY <1>4
    <2> QED BY <1>1, <2>1
  <1>6. s \in SetToSeqs(S)
    <2>1. ASSUME NEW j \in 1..n, NEW k \in 1..n, s[j] = s[k] PROVE j = k
      <3>1. order[n - j + 1] = order[n - k + 1] BY <2>1
      <3>2. n - j + 1 = n - k + 1 BY <1>1, <1>3, <3>1
      <3> QED BY <1>1, <3>2
    <2> HIDE DEF s
    <2>2. \A j, k \in 1..n : j # k => s[j] # s[k] BY <2>1
    <2> QED BY <1>1, <1>4, <2>2 DEF SetToSeqs
  <1>7. Pushed(order).index = IF n = 0 THEN None ELSE s[1]
    <2>1. n # 0 => 1 \in 1..n /\ n - 1 + 1 = n BY <1>1
    <2> QED BY <1>2, <2>1
  <1>8. ASSUME NEW k \in 1..n
        PROVE  h[s[k]] = IF k = n THEN None ELSE s[k + 1]
    <2>1. /\ n - k + 1 \in 1..n /\ (n - k + 1 = 1 <=> k = n)
          /\ (n - k + 1) - 1 = n - (k + 1) + 1 /\ (k # n => k + 1 \in 1..n)
      BY <1>1
    <2>2. s[k] = order[n - k + 1] BY <1>1
    <2>3. h[s[k]] = IF n - k + 1 = 1 THEN None ELSE order[(n - k + 1) - 1]
      BY <1>2, <2>1, <2>2
    <2>4. k # n => s[k + 1] = order[n - (k + 1) + 1] BY <2>1
    <2> QED BY <2>1, <2>3, <2>4
  <1> HIDE DEF s
  <1>9. Path(h, Pushed(order).index, s) BY <1>5, <1>7, <1>8 DEF Path
  <1> QED BY <1>5, <1>6, <1>9 DEF h

\* A death leaves the order of stage_ and used_, and all the rest is free.
LEMMA DieIsSeen ==
  ASSUME BlocksInv, BlocksInv', Ordered, Die
  PROVE  Ordered' /\ DieSeen
  <1> DEFINE S == Blocks \ (OnList("used") \cup OnList("stage"))
  <1>1. /\ "free" \in Lists /\ "stage" \in Lists /\ "used" \in Lists
        /\ \A l \in Lists \ {"free"} : l \in {"stage", "used"}
    BY DEF Lists
  <1>2. \A l \in {"stage", "used"} :
            First(l)' = First(l) /\ \A b \in OnList(l) : next'[b] = next[b]
    BY DieKeeps
  <1>3. \A l \in Lists \ {"free"} : Order(l)' = Order(l) /\ InOrder(l)'
    BY <1>1, <1>2, OrderKept DEF Ordered
  <1>4. PICK order \in Orders(S) : next' = Chain(order, next) /\ head'["free"] = Pushed(order)
    BY DieKeeps
  <1>5. First("free")' = Pushed(order).index BY <1>4 DEF First
  <1>6. PICK s \in Seq(Blocks) : /\ s \in SetToSeqs(S)
                                 /\ Path(Chain(order, next), Pushed(order).index, s)
    <2>1. S \in SUBSET Blocks /\ next \in Nodes BY ListsNow
    <2> HIDE DEF S
    <2> QED BY <2>1, PathChained
  <1>7. Order("free")' = s /\ InOrder("free")'
    <2>1. Path(next', First("free")', s) BY <1>4, <1>5, <1>6
    <2> QED BY <1>1, <2>1, OrderThen
  <1>8. S = Blocks \ (ToSet(Order("stage")) \cup ToSet(Order("used")))
    BY <1>1, OrderHas DEF Ordered
  <1>9. block' = [a \in Actors |-> None] BY DEF Die
  <1>10. Ordered' BY <1>3, <1>7 DEF Ordered
  <1> QED BY <1>3, <1>6, <1>7, <1>8, <1>9, <1>10 DEF DieSeen

\* At first all blocks are free.
LEMMA InitSeen ==
  ASSUME Init
  PROVE  /\ Ordered /\ Order("free") \in SetToSeqs(Blocks)
         /\ Order("stage") = <<>> /\ Order("used") = <<>>
  <1>1. BlocksInv BY InitSound
  <1>2. /\ "free" \in Lists /\ "stage" \in Lists /\ "used" \in Lists
        /\ \A l \in Lists : l \in {"free", "stage", "used"}
    BY DEF Lists
  <1>3. PICK order \in Orders(Blocks) :
            /\ next = Chain(order, [b \in Blocks |-> None])
            /\ head = [free |-> Pushed(order), stage |-> Empty]
    BY DEF Init
  <1>4. First("free") = Pushed(order).index /\ First("stage") = None /\ First("used") = None
    BY <1>3 DEF Init, First, Empty
  <1>5. PICK s \in Seq(Blocks) :
            s \in SetToSeqs(Blocks) /\ Path(next, Pushed(order).index, s)
    <2>1. [b \in Blocks |-> None] \in Nodes /\ Blocks \in SUBSET Blocks BY DEF Nodes
    <2> QED BY <1>3, <2>1, PathChained
  <1>6. Order("free") = s /\ InOrder("free") BY <1>1, <1>2, <1>4, <1>5, OrderNow
  <1>7. <<>> \in Seq(Blocks) /\ Path(next, None, <<>>) BY DEF Path
  <1>8. Order("stage") = <<>> /\ InOrder("stage") /\ Order("used") = <<>> /\ InOrder("used")
    BY <1>1, <1>2, <1>4, <1>7, OrderNow
  <1>9. Ordered BY <1>2, <1>6, <1>8 DEF Ordered
  <1> QED BY <1>5, <1>6, <1>8, <1>9

-----------------------------------------------------------------------------
(***************************************************************************)
(* The lists are the stacks.                                               *)
(***************************************************************************)

\* What stands for the variables of BlockStacks.
LEMMA StackNames ==
  /\ Order("free") = Follow(head["free"].index) /\ Order("stage") = Follow(head["stage"].index)
  /\ Order("used") = Follow(used)
  /\ Order("free")' = Follow(head["free"].index)' /\ Order("stage")' = Follow(head["stage"].index)'
  /\ Order("used")' = Follow(used)'
  /\ Lists = {"free", "stage", "used"}
  BY DEF Order, First, Lists

LEMMA SameOperators ==
  /\ \A s : Stacks!ToSet(s) = ToSet(s)
  /\ \A S : Stacks!SetToSeqs(S) = SetToSeqs(S)
  <1>1. \A s : Stacks!ToSet(s) = ToSet(s) BY DEF Stacks!ToSet, ToSet
  <1>2. \A S : Stacks!Cardinality(S) = Cardinality(S) BY DEF Stacks!Cardinality, Cardinality
  <1>3. \A S : Stacks!SetToSeqs(S) = SetToSeqs(S) BY <1>2 DEF Stacks!SetToSeqs, SetToSeqs
  <1> QED BY <1>1, <1>3

\* What is seen of a step is a step of BlockStacks.
LEMMA SeenIsStep ==
  ASSUME TypeOK
  PROVE  /\ Unseen => UNCHANGED Stacks!vars
         /\ \A t \in Threads : PopSeen(t, "free") => Stacks!PopFree(t)
         /\ \A t \in Threads : PushSeen(t, "stage") => Stacks!PushStage(t)
         /\ PopSeen(Reader, "stage") => Stacks!PopStage
         /\ PushSeen(Reader, "free") => Stacks!PushFree
         /\ PutSeen => Stacks!PutUsed
         /\ TakeSeen => Stacks!TakeUsed
         /\ DieSeen => Stacks!Die
  <1>1. Unseen => UNCHANGED Stacks!vars BY StackNames DEF Unseen, Stacks!vars
  <1>2. \A t \in Threads : PopSeen(t, "free") => Stacks!PopFree(t)
    BY StackNames DEF PopSeen, Stacks!PopFree, Stacks!Takes
  <1>3. \A t \in Threads : PushSeen(t, "stage") => Stacks!PushStage(t)
    BY StackNames DEF PushSeen, Stacks!PushStage, Stacks!Gives
  <1>4. PopSeen(Reader, "stage") => Stacks!PopStage
    BY StackNames DEF PopSeen, Stacks!PopStage, Stacks!Takes
  <1>5. PushSeen(Reader, "free") => Stacks!PushFree
    BY StackNames DEF PushSeen, Stacks!PushFree, Stacks!Gives
  <1>6. PutSeen => Stacks!PutUsed
    BY StackNames DEF PutSeen, Stacks!PutUsed, Stacks!Gives, Stacks!InsertAt, InsertAt
  <1>7. TakeSeen => Stacks!TakeUsed
    BY StackNames DEF TakeSeen, Stacks!TakeUsed, Stacks!Takes, Stacks!RemoveAt, RemoveAt
  <1>8. DieSeen => Stacks!Die
    BY StackNames, SameOperators DEF DieSeen, Stacks!Die, Actors
  <1> QED BY <1>1, <1>2, <1>3, <1>4, <1>5, <1>6, <1>7, <1>8

LEMMA StepSeen ==
  ASSUME BlocksInv, Ordered, [Next]_vars
  PROVE  Ordered' /\ [Stacks!Next]_(Stacks!vars)
  <1>0. BlocksInv' /\ TypeOK BY StepKeeps DEF BlocksInv
  <1>1. Unseen => Ordered' /\ UNCHANGED Stacks!vars BY <1>0, SeenIsStep DEF Unseen
  <1>2. ASSUME NEW a, NEW p, Start(a, p) PROVE Unseen
    <2>1. UNCHANGED <<head, used, next, block>> BY <1>2 DEF Start
    <2> QED BY <1>0, <2>1, Prepared
  <1>3. ASSUME NEW a, NEW p, PopLink(a, p) PROVE Unseen
    <2>1. UNCHANGED <<head, used, next, block>> BY <1>3 DEF PopLink
    <2> QED BY <1>0, <2>1, Prepared
  <1>4. CASE Die
    <2>1. Ordered' /\ Stacks!Die BY <1>0, <1>4, DieIsSeen, SeenIsStep
    <2> QED BY <2>1 DEF Stacks!Next
  <1>5. ASSUME NEW t \in Threads, Pop(t, "popFree")
        PROVE  Ordered' /\ [Stacks!Next]_(Stacks!vars)
    <2>1. /\ t \in Actors /\ Call(t, "popFree") /\ "popFree" \in Popping /\ Stack("popFree") = "free"
      BY DEF Actors, Call, Popping, Stack
    <2>2. CASE Swap(t, "popFree", Holding, copy[t].index)
      <3>1. Ordered' /\ (Unseen \/ PopSeen(t, "free")) BY <1>0, <2>1, <2>2, PopSwapSeen
      <3>2. PopSeen(t, "free") => Stacks!PopFree(t) BY <1>0, SeenIsStep
      <3> QED BY <1>1, <3>1, <3>2 DEF Stacks!Next
    <2> QED BY <1>1, <1>2, <1>3, <1>5, <2>2 DEF Pop
  <1>6. ASSUME NEW t \in Threads, Push(t, "pushStage")
        PROVE  Ordered' /\ [Stacks!Next]_(Stacks!vars)
    <2>1. /\ t \in Actors /\ Call(t, "pushStage") /\ "pushStage" \in Pushing
          /\ Stack("pushStage") = "stage"
      BY DEF Actors, Call, Pushing, Stack
    <2>2. CASE Swap(t, "pushStage", Idle, None)
      <3>1. Ordered' /\ (Unseen \/ PushSeen(t, "stage")) BY <1>0, <2>1, <2>2, PushSwapSeen
      <3>2. PushSeen(t, "stage") => Stacks!PushStage(t) BY <1>0, SeenIsStep
      <3> QED BY <1>1, <3>1, <3>2 DEF Stacks!Next
    <2>3. PushLink(t, "pushStage") => Unseen BY <1>0, <2>1, PushLinkSeen
    <2> QED BY <1>1, <1>2, <1>6, <2>2, <2>3 DEF Push
  <1>7. CASE Pop(Reader, "popStage")
    <2>1. /\ Reader \in Actors /\ Call(Reader, "popStage") /\ "popStage" \in Popping
          /\ Stack("popStage") = "stage"
      BY DEF Actors, Call, Popping, Stack
    <2>2. CASE Swap(Reader, "popStage", Holding, copy[Reader].index)
      <3>1. Ordered' /\ (Unseen \/ PopSeen(Reader, "stage")) BY <1>0, <2>1, <2>2, PopSwapSeen
      <3>2. PopSeen(Reader, "stage") => Stacks!PopStage BY <1>0, SeenIsStep
      <3> QED BY <1>1, <3>1, <3>2 DEF Stacks!Next
    <2> QED BY <1>1, <1>2, <1>3, <1>7, <2>2 DEF Pop
  <1>8. CASE PutUsed
    <2>1. Ordered' /\ Stacks!PutUsed BY <1>0, <1>8, PutUsedSeen, SeenIsStep
    <2> QED BY <2>1 DEF Stacks!Next
  <1>9. CASE TakeUsed
    <2>1. Ordered' /\ Stacks!TakeUsed BY <1>0, <1>9, TakeUsedSeen, SeenIsStep
    <2> QED BY <2>1 DEF Stacks!Next
  <1>10. CASE PushFree
    <2>1. /\ Reader \in Actors /\ Call(Reader, "pushFree") /\ "pushFree" \in Pushing
          /\ Stack("pushFree") = "free"
      BY DEF Actors, Call, Pushing, Stack
    <2>2. CASE Swap(Reader, "pushFree", Idle, None)
      <3>1. Ordered' /\ (Unseen \/ PushSeen(Reader, "free")) BY <1>0, <2>1, <2>2, PushSwapSeen
      <3>2. PushSeen(Reader, "free") => Stacks!PushFree BY <1>0, SeenIsStep
      <3> QED BY <1>1, <3>1, <3>2 DEF Stacks!Next
    <2>3. PushLink(Reader, "pushFree") => Unseen BY <1>0, <2>1, PushLinkSeen
    <2> QED BY <1>1, <1>2, <1>10, <2>2, <2>3 DEF PushFree
  <1>11. CASE UNCHANGED vars
    <2>1. UNCHANGED <<head, used, next, block>> BY <1>11 DEF vars
    <2>2. Unseen BY <1>0, <2>1, Prepared
    <2> QED BY <1>1, <2>2
  <1> QED BY <1>4, <1>5, <1>6, <1>7, <1>8, <1>9, <1>10, <1>11 DEF Next

\* free_, stage_ and used_ are the stacks and the list that BlockStacks
\* promises: whatever the threads read between, each call takes effect at once
\* when its compare-and-swap succeeds, last in is first out, and a death
\* leaves stage_ and used_ in their order and frees all the rest.
THEOREM BlocksImplementStacks == Spec => ImplementsStacks
  <1>1. Init => BlocksInv /\ Ordered BY InitSound, InitSeen
  <1>2. Init => Stacks!Init
    <2> SUFFICES ASSUME Init PROVE Stacks!Init OBVIOUS
    <2>1. block = [a \in Actors |-> None] BY DEF Init
    <2> QED BY <2>1, InitSeen, StackNames, SameOperators DEF Stacks!Init, Actors
  <1>3. BlocksInv /\ Ordered /\ [Next]_vars => BlocksInv' /\ Ordered' BY StepKeeps, StepSeen
  <1>4. BlocksInv /\ Ordered /\ [Next]_vars => [Stacks!Next]_(Stacks!vars) BY StepSeen
  <1> QED BY <1>1, <1>2, <1>3, <1>4, PTL DEF Spec, ImplementsStacks, Stacks!Spec
=============================================================================
