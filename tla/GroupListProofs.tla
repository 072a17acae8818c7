-------------------------- MODULE GroupListProofs --------------------------
(***************************************************************************)
(* GroupList for any threads, groups and blocks in a group: the list stays *)
(* whole under the threads that insert and the reader that deletes, the    *)
(* reader's unlocked pointers stay good, and no block is lost or shared.   *)
(*                                                                         *)
(* Reach is a least closed set, so a change of one link is reasoned about  *)
(* with sets: Inserted and Unlinked say what the two writes to the list do *)
(* to it.  The rest of the argument is who holds which lock (LocksByPlace) *)
(* and what that keeps from changing (WalkersInList, ReaderInList).        *)
(***************************************************************************)
EXTENDS GroupList, TLAPS

Nodes == [Pointers -> Groups \cup {None}]

-----------------------------------------------------------------------------
(***************************************************************************)
(* Lists as sets of links.                                                 *)
(***************************************************************************)

\* What is behind p is in every closed set.
LEMMA Least ==
  ASSUME NEW f \in Nodes, NEW p \in Pointers, NEW S \in SUBSET Groups, ClosedFrom(f, p, S)
  PROVE  From(f, p) \subseteq S
  BY DEF From

\* It is itself closed.
LEMMA Closed ==
  ASSUME NEW f \in Nodes, NEW p \in Pointers
  PROVE  From(f, p) \in SUBSET Groups /\ ClosedFrom(f, p, From(f, p))
  <1>1. From(f, p) \subseteq Groups BY DEF From
  <1>2. ASSUME f[p] # None PROVE f[p] \in From(f, p)
    <2>1. f[p] \in Groups BY <1>2 DEF Nodes
    <2> QED BY <1>2, <2>1 DEF From, ClosedFrom
  <1>3. ASSUME NEW g \in From(f, p), f[g] # None PROVE f[g] \in From(f, p)
    <2>1. g \in Groups BY DEF From
    <2>2. f[g] \in Groups BY <1>3, <2>1 DEF Nodes, Pointers
    <2> QED BY <1>3, <2>2 DEF From, ClosedFrom
  <1> QED BY <1>1, <1>2, <1>3 DEF ClosedFrom

\* What is behind a group that is behind p is behind p.
LEMMA Onward ==
  ASSUME NEW f \in Nodes, NEW p \in Pointers, NEW g \in From(f, p)
  PROVE  From(f, g) \subseteq From(f, p)
  <1>1. g \in Groups /\ g \in Pointers BY Closed DEF Pointers
  <1>2. ClosedFrom(f, g, From(f, p)) BY Closed DEF ClosedFrom
  <1> QED BY <1>1, <1>2, Closed, Least

\* Behind p are the next group and what is behind that.
LEMMA NextOne ==
  ASSUME NEW f \in Nodes, NEW p \in Pointers
  PROVE  /\ f[p] = None => From(f, p) = {}
         /\ f[p] # None => /\ f[p] \in Groups
                           /\ From(f, p) = {f[p]} \cup From(f, f[p])
  <1>1. ASSUME f[p] = None PROVE From(f, p) = {}
    <2>1. ClosedFrom(f, p, {}) BY <1>1 DEF ClosedFrom
    <2> QED BY <2>1, Least
  <1>2. ASSUME f[p] # None PROVE f[p] \in Groups /\ From(f, p) = {f[p]} \cup From(f, f[p])
    <2>1. f[p] \in Groups /\ f[p] \in Pointers BY <1>2 DEF Nodes, Pointers
    <2>2. f[p] \in From(f, p) BY <1>2, Closed DEF ClosedFrom
    <2>3. From(f, f[p]) \subseteq From(f, p) BY <2>1, <2>2, Onward
    <2> DEFINE S == {f[p]} \cup From(f, f[p])
    <2>4. S \in SUBSET Groups BY <2>1, Closed
    <2>5. ClosedFrom(f, p, S)
      <3>1. ClosedFrom(f, f[p], From(f, f[p])) BY <2>1, Closed
      <3> QED BY <3>1 DEF ClosedFrom
    <2>6. From(f, p) \subseteq S BY <2>4, <2>5, Least
    <2> QED BY <2>1, <2>2, <2>3, <2>6
  <1> QED BY <1>1, <1>2

\* Links that agree from p on have the same groups behind p.
LEMMA SameLinks ==
  ASSUME NEW f \in Nodes, NEW h \in Nodes, NEW p \in Pointers, h[p] = f[p],
         \A g \in From(f, p) : h[g] = f[g]
  PROVE  From(h, p) = From(f, p)
  <1>1. From(h, p) \subseteq From(f, p)
    <2>1. ClosedFrom(h, p, From(f, p)) BY Closed DEF ClosedFrom
    <2> QED BY <2>1, Closed, Least
  <1>2. From(f, p) \subseteq From(h, p)
    <2> DEFINE S == From(h, p) \cap From(f, p)
    <2>1. S \in SUBSET Groups BY Closed
    <2>2. ClosedFrom(f, p, S)
      <3>1. ClosedFrom(f, p, From(f, p)) /\ ClosedFrom(h, p, From(h, p)) BY Closed
      <3> QED BY <3>1 DEF ClosedFrom
    <2> QED BY <2>1, <2>2, Least
  <1> QED BY <1>1, <1>2

\* The links of a list: no two to one group, and no way back.
Listed(f) == {Head} \cup From(f, Head)
OneWay(f) ==
    /\ \A p, q \in Listed(f) : f[p] = f[q] /\ p # q => f[p] = None
    /\ \A g \in From(f, Head) : g \notin From(f, g)

\* A group put in at the head.
LEMMA Inserted ==
  ASSUME NEW f \in Nodes, OneWay(f), NEW g \in Groups, g \notin From(f, Head),
         NEW h \in Nodes, h[Head] = g, h[g] = f[Head],
         \A p \in Pointers \ {g, Head} : h[p] = f[p]
  PROVE  /\ OneWay(h)
         /\ From(h, Head) = {g} \cup From(f, Head)
         /\ \A p \in From(f, Head) : From(h, p) = From(f, p)
  <1>1. /\ Head \in Pointers /\ g \in Pointers /\ g # Head
        /\ From(f, Head) \subseteq Groups /\ Head \notin Groups
    BY Closed, GroupListAssumption DEF Pointers
  <1>2. h \in Nodes OBVIOUS
  <1>3. /\ h[Head] = g /\ h[g] = f[Head]
        /\ \A p \in Pointers \ {g, Head} : h[p] = f[p]
    OBVIOUS
  <1>4. ASSUME NEW p \in From(f, Head) PROVE From(h, p) = From(f, p) /\ h[p] = f[p]
    <2>1. p \in Pointers /\ From(f, p) \subseteq From(f, Head) BY <1>1, Onward DEF Pointers
    <2>2. p \in Pointers \ {g, Head} BY <1>1, <2>1
    <2>3. \A k \in From(f, p) : h[k] = f[k] BY <1>1, <1>3, <2>1 DEF Pointers
    <2> QED BY <1>2, <1>3, <2>1, <2>2, <2>3, SameLinks
  <1>5. From(h, g) = From(f, Head)
    <2>1. CASE f[Head] = None
      <3>1. From(f, Head) = {} /\ From(h, g) = {} BY <1>1, <1>2, <1>3, <2>1, NextOne
      <3> QED BY <3>1
    <2>2. CASE f[Head] # None
      <3>1. From(f, Head) = {f[Head]} \cup From(f, f[Head]) BY <1>1, <2>2, NextOne
      <3>2. From(h, g) = {f[Head]} \cup From(h, f[Head]) BY <1>1, <1>2, <1>3, <2>2, NextOne
      <3>3. From(h, f[Head]) = From(f, f[Head]) BY <1>4, <3>1
      <3> QED BY <3>1, <3>2, <3>3
    <2> QED BY <2>1, <2>2
  <1>6. From(h, Head) = {g} \cup From(f, Head)
    <2>1. g # None BY GroupListAssumption
    <2> QED BY <1>1, <1>2, <1>3, <1>5, <2>1, NextOne
  <1>7. \A p, q \in Listed(h) : h[p] = h[q] /\ p # q => h[p] = None
    <2>1. Head \in Listed(f) /\ From(f, Head) \subseteq Listed(f) BY DEF Listed
    <2>2. \A p \in From(f, Head) : f[p] = f[Head] => f[p] = None
      BY <1>1, <2>1 DEF OneWay
    <2>3. \A p \in From(f, Head) : f[p] # g
      <3> SUFFICES ASSUME NEW p \in From(f, Head), f[p] = g PROVE FALSE OBVIOUS
      <3>1. g # None BY GroupListAssumption
      <3>2. ClosedFrom(f, Head, From(f, Head)) BY <1>1, Closed
      <3> QED BY <3>1, <3>2 DEF ClosedFrom
    <2>4. f[Head] # g
      <3>1. g # None BY GroupListAssumption
      <3>2. ClosedFrom(f, Head, From(f, Head)) BY <1>1, Closed
      <3> QED BY <3>1, <3>2 DEF ClosedFrom
    <2>5. \A p, q \in From(f, Head) : f[p] = f[q] /\ p # q => f[p] = None
      BY <2>1 DEF OneWay
    <2>6. Listed(h) = {Head, g} \cup From(f, Head) BY <1>6 DEF Listed
    <2>7. \A p \in From(f, Head) : h[p] = f[p] BY <1>4
    <2> SUFFICES ASSUME NEW p \in Listed(h), NEW q \in Listed(h), h[p] = h[q], p # q
                 PROVE  h[p] = None
      OBVIOUS
    <2>8. CASE p = Head BY <1>3, <2>3, <2>4, <2>6, <2>7, <2>8
    <2>9. CASE q = Head BY <1>3, <2>3, <2>4, <2>6, <2>7, <2>9
    <2>10. CASE p = g /\ q \in From(f, Head) BY <1>3, <2>2, <2>7, <2>10
    <2>11. CASE q = g /\ p \in From(f, Head) BY <1>3, <2>2, <2>7, <2>11
    <2>12. CASE p \in From(f, Head) /\ q \in From(f, Head) BY <2>5, <2>7, <2>12
    <2> QED BY <2>6, <2>8, <2>9, <2>10, <2>11, <2>12
  <1>8. \A k \in From(h, Head) : k \notin From(h, k)
    BY <1>4, <1>5, <1>6 DEF OneWay
  <1> QED BY <1>2, <1>4, <1>6, <1>7, <1>8 DEF OneWay

\* A group taken out.
LEMMA Unlinked ==
  ASSUME NEW f \in Nodes, OneWay(f), NEW q \in Listed(f), NEW r, r = f[q], r # None,
         NEW h \in Nodes, h[q] = f[r], \A p \in Pointers \ {q} : h[p] = f[p]
  PROVE  /\ OneWay(h)
         /\ r \in From(f, Head)
         /\ \A p \in Listed(f) \ {r} : From(h, p) = From(f, p) \ {r}
  <1>1. /\ Listed(f) \subseteq Pointers /\ Head \in Pointers /\ q \in Pointers
        /\ From(f, Head) \subseteq Groups /\ Head \notin Groups /\ Head \in Listed(f)
    BY Closed, GroupListAssumption DEF Pointers, Listed
  <1>2. r \in From(f, Head)
    BY <1>1, Closed DEF ClosedFrom, Listed
  <1>3. r \in Groups /\ r \in Pointers /\ r # Head BY <1>1, <1>2 DEF Pointers
  <1>4. h \in Nodes OBVIOUS
  <1>5. h[q] = f[r] /\ \A p \in Pointers \ {q} : h[p] = f[p] OBVIOUS
  <1>6. f[r] # r
    <2>1. f[r] # None => f[r] \in From(f, r) BY <1>3, Closed DEF ClosedFrom
    <2> QED BY <1>2, <2>1 DEF OneWay
  <1>7. ASSUME NEW p \in Listed(f) PROVE From(h, p) \subseteq From(f, p) \ {r}
    <2> DEFINE A == From(f, p) \ {r}
    <2>1. p \in Pointers /\ From(f, p) \subseteq From(f, Head)
      BY <1>1, Onward DEF Listed
    <2>2. ClosedFrom(f, p, From(f, p)) /\ A \in SUBSET Groups BY <2>1, Closed
    <2>3. ASSUME NEW k \in {p} \cup A, h[k] # None PROVE h[k] \in A
      <3>1. k \in Listed(f) /\ k \in Pointers BY <1>1, <2>1 DEF Listed
      <3>2. f[k] # None => f[k] \in From(f, p) BY <2>2 DEF ClosedFrom
      <3>3. CASE k = q
        <4>1. r \in From(f, p) BY <3>2, <3>3
        <4>2. h[k] = f[r] BY <1>5, <3>3
        <4>3. f[r] \in From(f, p) BY <2>2, <2>3, <4>1, <4>2 DEF ClosedFrom
        <4> QED BY <1>6, <4>2, <4>3
      <3>4. CASE k # q
        <4>1. h[k] = f[k] BY <1>5, <3>1, <3>4
        <4>2. f[k] # r BY <2>3, <3>1, <3>4, <4>1 DEF OneWay
        <4> QED BY <2>3, <3>2, <4>1, <4>2
      <3> QED BY <3>3, <3>4
    <2>4. ClosedFrom(h, p, A) BY <2>3 DEF ClosedFrom
    <2> QED BY <1>4, <2>1, <2>2, <2>4, Least
  <1>8. ASSUME NEW p \in Listed(f) \ {r} PROVE From(f, p) \ {r} \subseteq From(h, p)
    <2> DEFINE S == From(h, p)
    <2>1. p \in Pointers BY <1>1
    <2>2. S \in SUBSET Groups /\ ClosedFrom(h, p, S) BY <1>4, <2>1, Closed
    <2>3. CASE q \in S \/ q = p
      <3>1. f[r] # None => f[r] \in S BY <1>5, <2>2, <2>3 DEF ClosedFrom
      <3>2. \A k \in S \cup {p} : f[k] # None => f[k] \in S \cup {r}
        BY <1>5, <2>1, <2>2 DEF ClosedFrom, Pointers
      <3>3. ClosedFrom(f, p, S \cup {r}) BY <3>1, <3>2 DEF ClosedFrom
      <3>4. S \cup {r} \in SUBSET Groups BY <1>3, <2>2
      <3> HIDE DEF S
      <3>5. From(f, p) \subseteq S \cup {r} BY <2>1, <3>3, <3>4, Least
      <3> QED BY <3>5 DEF S
    <2>4. CASE ~(q \in S \/ q = p)
      <3>1. \A k \in S \cup {p} : f[k] = h[k] BY <1>5, <2>1, <2>2, <2>4 DEF Pointers
      <3>2. ClosedFrom(f, p, S) BY <2>2, <3>1 DEF ClosedFrom
      <3> QED BY <2>1, <2>2, <3>2, Least
    <2> QED BY <2>3, <2>4
  <1>9. From(h, Head) = From(f, Head) \ {r} BY <1>1, <1>3, <1>7, <1>8
  <1>10. ASSUME NEW k \in Listed(h), NEW m \in Listed(h), h[k] = h[m], k # m PROVE h[k] = None
    <2>1. k \in Listed(f) \ {r} /\ m \in Listed(f) \ {r} BY <1>3, <1>9 DEF Listed
    <2>2. k \in Pointers /\ m \in Pointers BY <1>1, <2>1
    <2>3. r \in Listed(f) BY <1>2 DEF Listed
    <2>4. CASE k = q
      <3>1. f[r] = f[m] BY <1>5, <1>10, <2>2, <2>4
      <3> QED BY <1>5, <2>1, <2>3, <2>4, <3>1 DEF OneWay
    <2>5. CASE m = q
      <3>1. f[r] = f[k] BY <1>5, <1>10, <2>2, <2>5
      <3> QED BY <1>5, <1>10, <2>1, <2>3, <2>5, <3>1 DEF OneWay
    <2>6. CASE k # q /\ m # q
      BY <1>5, <1>10, <2>1, <2>2, <2>6 DEF OneWay
    <2> QED BY <2>4, <2>5, <2>6
  <1>11. \A k \in From(h, Head) : k \notin From(h, k)
    BY <1>7, <1>9 DEF OneWay, Listed
  <1>12. OneWay(h) BY <1>10, <1>11 DEF OneWay
  <1> QED BY <1>2, <1>4, <1>7, <1>8, <1>12

-----------------------------------------------------------------------------
(***************************************************************************)
(* The steps: types and the list.                                          *)
(***************************************************************************)

LEMMA InitSound == Init => ListInv
  <1> SUFFICES ASSUME Init PROVE ListInv OBVIOUS
  <1> USE DEF Init
  <1>1. TypeOK BY DEF TypeOK, lists, threadVars, readerVars
  <1>2. Head \in Pointers /\ node[Head] = None /\ node \in Nodes BY DEF Pointers, Nodes
  <1>3. InList = {} BY <1>2, NextOne DEF InList, Reach
  <1>4. LocksByPlace BY GroupListAssumption DEF LocksByPlace, Walking, Growing, Searching, Removing
  <1>5. ListWhole /\ Acyclic BY <1>3 DEF ListWhole, Acyclic
  <1>6. WalkersInList BY DEF WalkersInList, Walking
  <1>7. ReaderInList /\ ReaderFindsGroup
    BY DEF ReaderInList, ReaderFindsGroup, Searching, Removing
  <1>8. BlocksByPlace BY DEF BlocksByPlace
  <1>9. RetiredWhole /\ BlocksOnce
    <2>1. \A g \in Groups : BlocksOf(g) \subseteq Blocks BY DEF BlocksOf, Blocks
    <2>2. InHand = {} BY DEF InHand
    <2> QED BY <2>1, <2>2 DEF RetiredWhole, BlocksOnce
  <1> QED BY <1>1, <1>4, <1>5, <1>6, <1>7, <1>8, <1>9 DEF ListInv

\* The list as it is, as links.
LEMMA ListLinks ==
  ASSUME ListInv
  PROVE  /\ node \in Nodes /\ OneWay(node)
         /\ InList = From(node, Head) /\ InList \subseteq Groups
         /\ Listed(node) = {Head} \cup InList /\ Listed(node) \subseteq Pointers
         /\ \A p \in Pointers : Reach(p) = From(node, p)
         /\ \A p \in {Head} \cup InList : node[p] # p
  <1>1. node \in Nodes BY DEF ListInv, TypeOK, Nodes
  <1>2. Head \in Pointers BY DEF Pointers
  <1>3. InList = From(node, Head) /\ InList \subseteq Groups
    BY <1>1, <1>2, Closed DEF InList, Reach
  <1>4. ASSUME NEW p \in {Head} \cup InList, node[p] = p PROVE FALSE
    <2>1. p \in Groups /\ p \in Pointers
      BY <1>1, <1>2, <1>3, <1>4, GroupListAssumption DEF Nodes, Pointers
    <2>2. p \in InList BY <1>3, <1>4, <2>1, GroupListAssumption
    <2>3. ClosedFrom(node, p, From(node, p)) BY <1>1, <2>1, Closed
    <2>4. p \in From(node, p) BY <1>4, <2>1, <2>3, GroupListAssumption DEF ClosedFrom
    <2> QED BY <2>2, <2>4 DEF ListInv, Acyclic, Reach
  <1> QED BY <1>1, <1>3, <1>4 DEF ListInv, ListWhole, Acyclic, OneWay, Listed, Reach, Pointers

\* Where the walking threads and the locking reader are.
LEMMA Places ==
  ASSUME ListInv
  PROVE  /\ \A t \in Threads : pc[t] \in Walking =>
              /\ behind[t] \in Pointers /\ behind[t] \in {Head} \cup InList
              /\ at[t] \in Groups /\ at[t] \in InList /\ node[behind[t]] = at[t]
         /\ rpc \in Searching \cup Removing =>
              /\ rbehind \in Pointers /\ rbehind \in {Head} \cup InList
              /\ rat \in Groups
         /\ rpc \in Searching \cup (Removing \ {"unlinked"}) =>
              rat \in InList /\ node[rbehind] = rat
  <1>1. \A p \in {Head} \cup InList : p \in Pointers BY ListLinks
  <1>2. \A p \in {Head} \cup InList : node[p] # None => node[p] \in InList
    <2>1. ClosedFrom(node, Head, InList) BY ListLinks, Closed DEF Pointers
    <2> QED BY <2>1 DEF ClosedFrom
  <1>3. \A t \in Threads : pc[t] \in Walking =>
              /\ behind[t] \in {Head} \cup InList
              /\ at[t] # None /\ node[behind[t]] = at[t]
    BY DEF ListInv, WalkersInList
  <1>4. rpc \in Searching =>
            rbehind \in {Head} \cup InList /\ node[rbehind] = rat /\ rat # None
    BY DEF ListInv, ReaderInList, ReaderFindsGroup, Searching
  <1>5. rpc \in Removing =>
            /\ rbehind \in {Head} \cup InList
            /\ rpc # "unlinked" => node[rbehind] = rat
            /\ rat # None
    BY DEF ListInv, ReaderInList, Removing
  <1>6. rpc \in Searching => rpc # "unlinked" BY DEF Searching
  <1>7. rat # None => rat \in Groups BY DEF ListInv, TypeOK
  <1>8. \A p \in {Head} \cup InList : node[p] # None => node[p] \in Groups
    BY <1>2, ListLinks
  <1>9. \A t \in Threads : pc[t] \in Walking => at[t] \in InList /\ at[t] \in Groups
    BY <1>2, <1>3, <1>8
  <1>10. rpc \in Searching \cup (Removing \ {"unlinked"}) => rat \in InList /\ node[rbehind] = rat
    BY <1>2, <1>4, <1>5, <1>6
  <1>11. rpc \in Searching \cup Removing =>
            rbehind \in {Head} \cup InList /\ rat \in Groups
    BY <1>4, <1>5, <1>7
  <1> QED BY <1>1, <1>3, <1>9, <1>10, <1>11

LEMMA TypeStep == ListInv /\ [Next]_vars => TypeOK'
  <1> SUFFICES ASSUME ListInv, [Next]_vars PROVE TypeOK' OBVIOUS
  <1> USE DEF ListInv
  <1>0. TypeOK OBVIOUS
  <1> USE <1>0 DEF TypeOK, Goto, lists, threadVars, readerVars, Walking, Growing, Searching, Removing
  <1>1. ASSUME NEW t \in Threads, First(t) PROVE TypeOK' BY <1>1 DEF First, Pointers
  <1>2. ASSUME NEW t \in Threads, Pop(t) PROVE TypeOK' BY <1>2 DEF Pop, FreeIn
  <1>3. ASSUME NEW t \in Threads, LockNext(t) PROVE TypeOK' BY <1>3 DEF LockNext
  <1>4. ASSUME NEW t \in Threads, Hop(t) PROVE TypeOK'
    <2>1. at[t] \in Groups BY <1>4, Places DEF Hop
    <2> QED BY <1>4, <2>1 DEF Hop, Pointers
  <1>5. ASSUME NEW t \in Threads, Push(t) PROVE TypeOK'
    <2>1. block[t] \in Blocks BY <1>5 DEF Push, BlocksByPlace
    <2> QED BY <1>5, <2>1 DEF Push
  <1>6. ASSUME NEW t \in Threads, Unlock(t) PROVE TypeOK' BY <1>6 DEF Unlock
  <1>7. ASSUME NEW t \in Threads, Grow(t) PROVE TypeOK' BY <1>7 DEF Grow
  <1>8. ASSUME NEW t \in Threads, Insert(t) PROVE TypeOK' BY <1>8 DEF Insert, FreeIn, Pointers
  <1>9. ASSUME NEW t \in Threads, GrowUnlock(t) PROVE TypeOK' BY <1>9 DEF GrowUnlock
  <1>10. ASSUME NEW t \in Threads, GiveUp(t) PROVE TypeOK'
    <2>1. block[t] \in Blocks BY <1>10 DEF GiveUp, BlocksByPlace
    <2> QED BY <1>10, <2>1 DEF GiveUp
  <1>11. ASSUME TakeStaged PROVE TypeOK' BY <1>11 DEF TakeStaged, StagedIn
  <1>12. ASSUME Recycle PROVE TypeOK' BY <1>12 DEF Recycle, UsedIn
  <1>13. ASSUME LeaveGroup PROVE TypeOK' BY <1>13 DEF LeaveGroup, Pointers
  <1>14. ASSUME LockFirst PROVE TypeOK' BY <1>14 DEF LockFirst, Pointers
  <1>15. ASSUME Seek PROVE TypeOK' BY <1>15 DEF Seek
  <1>16. ASSUME SeekHop PROVE TypeOK'
    <2>1. rat \in Groups BY <1>16, Places DEF SeekHop
    <2> QED BY <1>16, <2>1 DEF SeekHop, Pointers
  <1>17. ASSUME Decide PROVE TypeOK' BY <1>17 DEF Decide
  <1>18. ASSUME PassThrough PROVE TypeOK' BY <1>18 DEF PassThrough
  <1>19. ASSUME Unlink PROVE TypeOK'
    <2>1. rat \in Groups BY <1>19, Places DEF Unlink
    <2> QED BY <1>19, <2>1 DEF Unlink, Pointers
  <1>20. ASSUME Retire PROVE TypeOK'
    <2>1. rat \in Groups BY <1>20, Places DEF Retire
    <2> QED BY <1>20, <2>1 DEF Retire
  <1>21. ASSUME Step PROVE TypeOK' BY <1>21 DEF Step
  <1>22. ASSUME UNCHANGED vars PROVE TypeOK' BY <1>22 DEF vars
  <1> QED
    BY <1>1, <1>2, <1>3, <1>4, <1>5, <1>6, <1>7, <1>8, <1>9, <1>10, <1>11, <1>12, <1>13,
       <1>14, <1>15, <1>16, <1>17, <1>18, <1>19, <1>20, <1>21, <1>22
       DEF Next, Alloc, Read, Locking, Deleting

\* The list changes only when a group is put in, taken out or given to the pool.
LEMMA ListSame ==
  ASSUME ListInv, UNCHANGED <<node, pool>>,
         \/ rpc' # "unlinked" /\ rpc # "unlinked"
         \/ UNCHANGED <<rpc, rat>>
  PROVE  ListWhole' /\ Acyclic' /\ InList' = InList
  <1>1. InList' = InList /\ \A p : From(node', p) = From(node, p)
    BY DEF InList, Reach, From, ClosedFrom
  <1> QED BY <1>1 DEF ListInv, ListWhole, Acyclic, Reach

\* Insert(t), when it puts in a new group.
PutIn(t, g) ==
    /\ pc[t] = "grown" /\ g \in pool
    /\ pool' = pool \ {g}
    /\ node' = [node EXCEPT ![g] = node[Head], ![Head] = g]
    /\ UNCHANGED readerVars

LEMMA PutInList ==
  ASSUME ListInv, NEW t \in Threads, NEW g \in Groups, PutIn(t, g)
  PROVE  /\ ListWhole' /\ Acyclic'
         /\ node' \in Nodes /\ InList' = {g} \cup InList /\ node'[Head] = g
         /\ g \notin InList /\ g # Head
         /\ \A p \in InList : Reach(p)' = Reach(p) /\ node'[p] = node[p]
  <1>1. g \notin InList BY DEF ListInv, ListWhole, PutIn
  <1>2. /\ node' \in Nodes /\ OneWay(node')
        /\ From(node', Head) = {g} \cup From(node, Head)
        /\ \A p \in From(node, Head) : From(node', p) = From(node, p)
    <2>1. node \in Nodes /\ OneWay(node) /\ g \notin From(node, Head) BY <1>1, ListLinks
    <2>2. node' = [node EXCEPT ![g] = node[Head], ![Head] = g] BY DEF PutIn
    <2>3. g \in Pointers /\ Head \in Pointers /\ g # Head BY GroupListAssumption DEF Pointers
    <2>4. node' \in Nodes BY <2>1, <2>2, <2>3 DEF Nodes
    <2>5. /\ node'[Head] = g /\ node'[g] = node[Head]
          /\ \A p \in Pointers \ {g, Head} : node'[p] = node[p]
      BY <2>1, <2>2, <2>3 DEF Nodes
    <2> QED BY <2>1, <2>4, <2>5, Inserted
  <1>3. InList' = {g} \cup InList /\ \A p \in InList : Reach(p)' = Reach(p)
    BY <1>2, ListLinks DEF InList, Reach
  <1>4. g # Head /\ Head \notin InList BY ListLinks, GroupListAssumption
  <1>5. node'[Head] = g /\ \A p \in InList : node'[p] = node[p]
    BY <1>1, <1>4, ListLinks DEF PutIn, Nodes, Pointers
  <1>6. ListWhole'
    <2>1. (pool \cup (IF rpc = "unlinked" THEN {rat} ELSE {}))'
            = (pool \cup (IF rpc = "unlinked" THEN {rat} ELSE {})) \ {g}
      <3>1. rpc = "unlinked" => rat # g
        BY DEF ListInv, ReaderInList, PutIn
      <3>2. rpc' = rpc /\ rat' = rat BY DEF PutIn, readerVars
      <3> QED BY <3>1, <3>2 DEF PutIn
    <2>2. InList' = (Groups \ (pool \cup (IF rpc = "unlinked" THEN {rat} ELSE {})))'
      BY <1>3, <2>1 DEF ListInv, ListWhole
    <2>3. \A p, q \in {Head} \cup InList' : node'[p] = node'[q] /\ p # q => node'[p] = None
      BY <1>2, <1>3, ListLinks DEF OneWay, Listed
    <2> QED BY <2>2, <2>3 DEF ListWhole
  <1>7. Acyclic'
    BY <1>2, <1>3, ListLinks DEF OneWay, Acyclic, Reach
  <1> QED BY <1>1, <1>2, <1>3, <1>4, <1>5, <1>6, <1>7

LEMMA UnlinkList ==
  ASSUME ListInv, Unlink
  PROVE  /\ ListWhole' /\ Acyclic'
         /\ node' \in Nodes /\ InList' = InList \ {rat} /\ rat \in InList
         /\ rbehind \in {Head} \cup InList' /\ node'[rbehind] = node[rat]
         /\ \A p \in Pointers \ {rbehind} : node'[p] = node[p]
         /\ rat \in Groups /\ node[rat] # rat
  <1>1. /\ rbehind \in Pointers /\ rbehind \in Listed(node)
        /\ node[rbehind] = rat /\ rat \in InList /\ rat \in Groups
    BY Places, ListLinks DEF Unlink, Removing
  <1>2. rat # None /\ Head \notin Groups BY <1>1, GroupListAssumption
  <1>3. /\ node' \in Nodes /\ OneWay(node')
        /\ \A p \in Listed(node) \ {rat} : From(node', p) = From(node, p) \ {rat}
        /\ node'[rbehind] = node[rat]
        /\ \A p \in Pointers \ {rbehind} : node'[p] = node[p]
    <2>1. node' = [node EXCEPT ![rbehind] = node[rat]] BY DEF Unlink
    <2>2. node \in Nodes /\ OneWay(node) BY ListLinks
    <2>3. node' \in Nodes BY <1>1, <2>1, <2>2 DEF Nodes, Pointers
    <2>4. /\ node'[rbehind] = node[rat]
          /\ \A p \in Pointers \ {rbehind} : node'[p] = node[p]
      BY <1>1, <2>1, <2>2 DEF Nodes
    <2> QED BY <1>1, <1>2, <2>2, <2>3, <2>4, Unlinked
  <1>4. InList' = InList \ {rat}
    BY <1>1, <1>2, <1>3, ListLinks DEF InList, Reach, Listed
  <1>5. rat \notin From(node, rat) BY <1>1, ListLinks DEF OneWay
  <1>6. rbehind # rat /\ node[rat] # rat
    <2>1. node[rat] # rat
      <3>1. ClosedFrom(node, rat, From(node, rat)) BY <1>1, ListLinks, Closed DEF Pointers
      <3> QED BY <1>2, <1>5, <3>1 DEF ClosedFrom
    <2> QED BY <1>1, <2>1
  <1>8. ListWhole'
    <2>1. InList' = (Groups \ (pool \cup (IF rpc = "unlinked" THEN {rat} ELSE {})))'
      <3>1. InList = Groups \ pool BY DEF ListInv, ListWhole, Unlink
      <3>2. rpc' = "unlinked" /\ rat' = rat /\ pool' = pool BY DEF Unlink
      <3> QED BY <1>4, <3>1, <3>2
    <2>2. \A p, q \in {Head} \cup InList' : node'[p] = node'[q] /\ p # q => node'[p] = None
      <3>1. Listed(node') = {Head} \cup InList' BY DEF Listed, InList, Reach
      <3> QED BY <1>3, <3>1 DEF OneWay
    <2> QED BY <2>1, <2>2 DEF ListWhole
  <1>9. Acyclic'
    BY <1>3 DEF OneWay, Acyclic, InList, Reach
  <1>10. rbehind \in {Head} \cup InList' BY <1>1, <1>4, <1>6, ListLinks
  <1> QED BY <1>1, <1>3, <1>4, <1>6, <1>8, <1>9, <1>10

-----------------------------------------------------------------------------
(***************************************************************************)
(* The steps: the locks.                                                   *)
(***************************************************************************)

\* Only steps of the two kinds that follow touch the locks.  A thread's step:
LEMMA ThreadLocks ==
  ASSUME ListInv, TypeOK', NEW t \in Threads,
         UNCHANGED <<rpc, rbehind, rat>>,
         \A u \in Threads \ {t} : pc'[u] = pc[u] /\ behind'[u] = behind[u] /\ at'[u] = at[u],
         \A p \in Pointers :
            /\ reads'[p] \ {t} = reads[p] \ {t} /\ writes'[p] \ {t} = writes[p] \ {t}
            /\ t \in reads'[p] <=>
                    \/ pc'[t] \in Walking /\ behind'[t] = p
                    \/ pc'[t] = "hop" /\ at'[t] = p
            /\ t \in writes'[p] <=> pc'[t] \in Growing /\ p = Head
            /\ t \in reads'[p] => t \in reads[p] \/ CanRead(p)
            /\ t \in writes'[p] => t \in writes[p] \/ CanWrite(p)
            /\ ~(t \in reads'[p] /\ t \in writes'[p])
  PROVE  LocksByPlace'
  <1> USE DEF ListInv
  <1>1. \A p \in Pointers : reads'[p] \subseteq Threads /\ reads[p] \subseteq Threads
    BY DEF TypeOK
  <1>2. \A p \in Pointers, u \in Threads :
        /\ u \in reads'[p] <=>
                \/ pc'[u] \in Walking /\ behind'[u] = p
                \/ pc'[u] = "hop" /\ at'[u] = p
        /\ u \in writes'[p] <=> pc'[u] \in Growing /\ p = Head
    <2> SUFFICES ASSUME NEW p \in Pointers, NEW u \in Threads
                 PROVE  /\ u \in reads'[p] <=>
                              \/ pc'[u] \in Walking /\ behind'[u] = p
                              \/ pc'[u] = "hop" /\ at'[u] = p
                        /\ u \in writes'[p] <=> pc'[u] \in Growing /\ p = Head
      OBVIOUS
    <2>1. CASE u = t BY <2>1
    <2>2. CASE u # t
      <3>1. u \in reads'[p] <=> u \in reads[p] BY <2>2
      <3>2. u \in writes'[p] <=> u \in writes[p] BY <2>2
      <3>3. pc'[u] = pc[u] /\ behind'[u] = behind[u] /\ at'[u] = at[u] BY <2>2
      <3> QED BY <3>1, <3>2, <3>3 DEF LocksByPlace
    <2> QED BY <2>1, <2>2
  <1>3. \A p \in Pointers :
        Reader \in writes'[p] <=>
            \/ rpc' \in Searching \cup Removing /\ p = rbehind'
            \/ rpc' = "seekHop" /\ p = rat'
    <2>1. Reader # t BY GroupListAssumption
    <2>2. \A p \in Pointers : Reader \in writes'[p] <=> Reader \in writes[p] BY <2>1
    <2> QED BY <2>2 DEF LocksByPlace
  <1>4. ASSUME NEW p \in Pointers
        PROVE  /\ \A x, y \in writes'[p] : x = y
               /\ writes'[p] # {} => reads'[p] = {}
    <2>1. \A x, y \in writes[p] : x = y BY DEF LocksByPlace
    <2>2. writes[p] # {} => reads[p] = {} BY DEF LocksByPlace
    <2>3. CASE t \in writes'[p]
      <3>1. (writes[p] = {t} /\ reads[p] = {}) \/ (writes[p] = {} /\ reads[p] = {})
        BY <2>1, <2>2, <2>3 DEF CanWrite
      <3>2. reads'[p] = {} /\ \A x \in writes'[p] : x = t BY <2>3, <3>1
      <3> QED BY <3>2
    <2>4. CASE t \notin writes'[p] /\ t \in reads'[p]
      <3>1. writes[p] = {} BY <2>2, <2>4 DEF CanRead
      <3>2. writes'[p] = {} BY <2>4, <3>1
      <3> QED BY <3>2
    <2>5. CASE t \notin writes'[p] /\ t \notin reads'[p]
      <3>1. writes'[p] \subseteq writes[p] /\ reads'[p] \subseteq reads[p] BY <2>5
      <3> QED BY <2>1, <2>2, <3>1
    <2> QED BY <2>3, <2>4, <2>5
  <1> QED BY <1>2, <1>3, <1>4 DEF LocksByPlace

\* and a step of the reader.
LEMMA ReaderLocks ==
  ASSUME ListInv, UNCHANGED <<reads, pc, behind, at>>,
         \A p \in Pointers :
            /\ writes'[p] \ {Reader} = writes[p] \ {Reader}
            /\ Reader \in writes'[p] <=>
                \/ rpc' \in Searching \cup Removing /\ p = rbehind'
                \/ rpc' = "seekHop" /\ p = rat'
            /\ Reader \in writes'[p] => Reader \in writes[p] \/ CanWrite(p)
  PROVE  LocksByPlace'
  <1> USE DEF ListInv
  <1>1. \A p \in Pointers, u \in Threads :
        /\ u \in reads'[p] <=>
                \/ pc'[u] \in Walking /\ behind'[u] = p
                \/ pc'[u] = "hop" /\ at'[u] = p
        /\ u \in writes'[p] <=> pc'[u] \in Growing /\ p = Head
    <2>1. \A u \in Threads : u # Reader BY GroupListAssumption
    <2>2. \A p \in Pointers, u \in Threads : u \in writes'[p] <=> u \in writes[p] BY <2>1
    <2> QED BY <2>2 DEF LocksByPlace
  <1>2. ASSUME NEW p \in Pointers
        PROVE  /\ \A x, y \in writes'[p] : x = y
               /\ writes'[p] # {} => reads'[p] = {}
    <2>1. \A x, y \in writes[p] : x = y BY DEF LocksByPlace
    <2>2. writes[p] # {} => reads[p] = {} BY DEF LocksByPlace
    <2>3. CASE Reader \in writes'[p]
      <3>1. (writes[p] = {Reader} /\ reads[p] = {}) \/ (writes[p] = {} /\ reads[p] = {})
        BY <2>1, <2>2, <2>3 DEF CanWrite
      <3>2. reads'[p] = {} /\ \A x \in writes'[p] : x = Reader BY <2>3, <3>1
      <3> QED BY <3>2
    <2>4. CASE Reader \notin writes'[p]
      <3>1. writes'[p] \subseteq writes[p] /\ reads'[p] = reads[p] BY <2>4
      <3> QED BY <2>1, <2>2, <3>1
    <2> QED BY <2>3, <2>4
  <1> QED BY <1>1, <1>2 DEF LocksByPlace

LEMMA LocksStep == ListInv /\ [Next]_vars => LocksByPlace'
  <1> SUFFICES ASSUME ListInv, [Next]_vars PROVE LocksByPlace' OBVIOUS
  <1>0. TypeOK' /\ TypeOK /\ LocksByPlace /\ WalkersInList BY TypeStep DEF ListInv
  <1> USE DEF Goto, lists, threadVars, readerVars
  <1>1. ASSUME NEW t \in Threads, First(t) PROVE LocksByPlace'
    BY <1>1, <1>0, Places, ThreadLocks
       DEF First, TypeOK, LocksByPlace, WalkersInList, Walking, Growing, Pointers, CanRead, CanWrite
  <1>2. ASSUME NEW t \in Threads, Pop(t) PROVE LocksByPlace'
    BY <1>2, <1>0, Places, ThreadLocks
       DEF Pop, TypeOK, LocksByPlace, WalkersInList, Walking, Growing, Pointers, CanRead, CanWrite
  <1>3. ASSUME NEW t \in Threads, LockNext(t) PROVE LocksByPlace'
    BY <1>3, <1>0, Places, ThreadLocks
       DEF LockNext, TypeOK, LocksByPlace, WalkersInList, Walking, Growing, Pointers, CanRead, CanWrite
  <1>4. ASSUME NEW t \in Threads, Hop(t) PROVE LocksByPlace'
    <2>1. /\ behind[t] \in Pointers /\ at[t] \in Pointers /\ behind[t] # at[t]
          /\ node[at[t]] # at[t]
      BY <1>4, Places, ListLinks DEF Hop, Walking, Pointers
    <2> QED
    BY <1>4, <1>0, <2>1, ThreadLocks
       DEF Hop, TypeOK, LocksByPlace, WalkersInList, Walking, Growing, Pointers, CanRead, CanWrite
  <1>5. ASSUME NEW t \in Threads, Push(t) PROVE LocksByPlace'
    BY <1>5, <1>0, Places, ThreadLocks
       DEF Push, TypeOK, LocksByPlace, WalkersInList, Walking, Growing, Pointers, CanRead, CanWrite
  <1>6. ASSUME NEW t \in Threads, Unlock(t) PROVE LocksByPlace'
    BY <1>6, <1>0, Places, ThreadLocks, SMTT(30)
       DEF Unlock, TypeOK, LocksByPlace, WalkersInList, Walking, Growing, Pointers, CanRead, CanWrite
  <1>7. ASSUME NEW t \in Threads, Grow(t) PROVE LocksByPlace'
    BY <1>7, <1>0, Places, ThreadLocks
       DEF Grow, TypeOK, LocksByPlace, WalkersInList, Walking, Growing, Pointers, CanRead, CanWrite
  <1>8. ASSUME NEW t \in Threads, Insert(t) PROVE LocksByPlace'
    BY <1>8, <1>0, Places, ThreadLocks
       DEF Insert, TypeOK, LocksByPlace, WalkersInList, Walking, Growing, Pointers, CanRead, CanWrite
  <1>9. ASSUME NEW t \in Threads, GrowUnlock(t) PROVE LocksByPlace'
    BY <1>9, <1>0, Places, ThreadLocks
       DEF GrowUnlock, TypeOK, LocksByPlace, WalkersInList, Walking, Growing, Pointers, CanRead, CanWrite
  <1>10. ASSUME NEW t \in Threads, GiveUp(t) PROVE LocksByPlace'
    BY <1>10, <1>0, Places, ThreadLocks
       DEF GiveUp, TypeOK, LocksByPlace, WalkersInList, Walking, Growing, Pointers, CanRead, CanWrite
  <1>11. ASSUME TakeStaged PROVE LocksByPlace'
    BY <1>11, <1>0, Places, ReaderLocks
       DEF TakeStaged, TypeOK, LocksByPlace, Searching, Removing, Pointers, CanWrite
  <1>12. ASSUME Recycle PROVE LocksByPlace'
    BY <1>12, <1>0, Places, ReaderLocks
       DEF Recycle, TypeOK, LocksByPlace, Searching, Removing, Pointers, CanWrite
  <1>13. ASSUME LeaveGroup PROVE LocksByPlace'
    BY <1>13, <1>0, Places, ReaderLocks
       DEF LeaveGroup, TypeOK, LocksByPlace, Searching, Removing, Pointers, CanWrite
  <1>14. ASSUME LockFirst PROVE LocksByPlace'
    BY <1>14, <1>0, Places, ReaderLocks
       DEF LockFirst, TypeOK, LocksByPlace, Searching, Removing, Pointers, CanWrite
  <1>15. ASSUME Seek PROVE LocksByPlace'
    BY <1>15, <1>0, Places, ReaderLocks
       DEF Seek, TypeOK, LocksByPlace, Searching, Removing, Pointers, CanWrite
  <1>16. ASSUME SeekHop PROVE LocksByPlace'
    <2>1. rbehind \in Pointers /\ rat \in Pointers /\ rbehind # rat
      BY <1>16, Places, ListLinks DEF SeekHop, Searching, Pointers
    <2> QED
    BY <1>16, <1>0, <2>1, ReaderLocks
       DEF SeekHop, TypeOK, LocksByPlace, Searching, Removing, Pointers, CanWrite
  <1>17. ASSUME Decide PROVE LocksByPlace'
    BY <1>17, <1>0, Places, ReaderLocks
       DEF Decide, TypeOK, LocksByPlace, Searching, Removing, Pointers, CanWrite
  <1>18. ASSUME PassThrough PROVE LocksByPlace'
    BY <1>18, <1>0, Places, ReaderLocks
       DEF PassThrough, TypeOK, LocksByPlace, Searching, Removing, Pointers, CanWrite
  <1>19. ASSUME Unlink PROVE LocksByPlace'
    BY <1>19, <1>0, Places, ReaderLocks
       DEF Unlink, TypeOK, LocksByPlace, Searching, Removing, Pointers, CanWrite
  <1>20. ASSUME Retire PROVE LocksByPlace'
    BY <1>20, <1>0, Places, ReaderLocks, SMTT(30)
       DEF Retire, TypeOK, LocksByPlace, Searching, Removing, Pointers, CanWrite
  <1>21. ASSUME Step PROVE LocksByPlace'
    BY <1>21, <1>0, Places, ReaderLocks
       DEF Step, TypeOK, LocksByPlace, Searching, Removing, Pointers, CanWrite
  <1>22. ASSUME UNCHANGED vars PROVE LocksByPlace' BY <1>22, <1>0 DEF vars, LocksByPlace
  <1> QED
    BY <1>1, <1>2, <1>3, <1>4, <1>5, <1>6, <1>7, <1>8, <1>9, <1>10, <1>11, <1>12, <1>13, <1>14, <1>15, <1>16, <1>17, <1>18, <1>19, <1>20, <1>21, <1>22
       DEF Next, Alloc, Read, Locking, Deleting

-----------------------------------------------------------------------------
(***************************************************************************)
(* The steps: who is where in the list.                                    *)
(***************************************************************************)

\* A new group is put in, or the second look at the first one has a block.
LEMMA InsertSplit ==
  ASSUME ListInv, NEW t \in Threads, Insert(t)
  PROVE  \/ UNCHANGED <<node, pool>>
         \/ \E g \in Groups : PutIn(t, g)
  BY DEF Insert, PutIn, ListInv, TypeOK, readerVars

LEMMA ListStep == ListInv /\ [Next]_vars => ListWhole' /\ Acyclic'
  <1> SUFFICES ASSUME ListInv, [Next]_vars PROVE ListWhole' /\ Acyclic' OBVIOUS
  <1> USE DEF readerVars
  <1>1. ASSUME NEW t \in Threads, Alloc(t) \/ GiveUp(t), ~Insert(t) PROVE ListWhole' /\ Acyclic'
    <2>1. UNCHANGED <<node, pool, rpc, rat>>
      BY <1>1 DEF Alloc, First, Pop, LockNext, Hop, Push, Unlock, Grow, GrowUnlock, GiveUp
    <2> QED BY <2>1, ListSame
  <1>2. ASSUME NEW t \in Threads, Insert(t) PROVE ListWhole' /\ Acyclic'
    <2>1. CASE UNCHANGED <<node, pool>> BY <1>2, <2>1, ListSame DEF Insert
    <2>2. CASE \E g \in Groups : PutIn(t, g) BY <2>2, PutInList
    <2> QED BY <1>2, <2>1, <2>2, InsertSplit
  <1>3. ASSUME Read, ~Unlink, ~Retire PROVE ListWhole' /\ Acyclic'
    <2>1. /\ UNCHANGED <<node, pool>>
          /\ rpc' # "unlinked" /\ rpc # "unlinked"
      BY <1>3 DEF Read, TakeStaged, Recycle, LeaveGroup, Locking, LockFirst, Seek, SeekHop,
                  Deleting, Decide, PassThrough, Step
    <2> QED BY <2>1, ListSame
  <1>4. ASSUME Unlink PROVE ListWhole' /\ Acyclic' BY <1>4, UnlinkList
  <1>5. ASSUME Retire PROVE ListWhole' /\ Acyclic'
    <2>1. InList' = InList /\ \A p : From(node', p) = From(node, p)
      BY <1>5 DEF Retire, InList, Reach, From, ClosedFrom
    <2>2. Groups \ (pool' \cup (IF rpc' = "unlinked" THEN {rat'} ELSE {}))
            = Groups \ (pool \cup (IF rpc = "unlinked" THEN {rat} ELSE {}))
      BY <1>5 DEF Retire
    <2> QED BY <1>5, <2>1, <2>2 DEF Retire, ListInv, ListWhole, Acyclic, Reach
  <1>6. ASSUME UNCHANGED vars PROVE ListWhole' /\ Acyclic' BY <1>6, ListSame DEF vars
  <1> QED BY <1>1, <1>2, <1>3, <1>4, <1>5, <1>6 DEF Next

\* Threads that stay where they are in a list that stays as it is.
LEMMA WalkersSame ==
  ASSUME ListInv, UNCHANGED node, NEW S \in SUBSET Threads,
         \A u \in Threads \ S : pc'[u] = pc[u] /\ behind'[u] = behind[u] /\ at'[u] = at[u],
         \A t \in S :
            IF pc'[t] \in Walking
            THEN behind'[t] \in {Head} \cup InList /\ at'[t] # None /\ at'[t] = node[behind'[t]]
            ELSE behind'[t] = None /\ at'[t] = None
  PROVE  WalkersInList'
  <1>1. InList' = InList BY DEF InList, Reach, From, ClosedFrom
  <1> QED BY <1>1 DEF ListInv, WalkersInList

LEMMA WalkersStay ==
  ASSUME ListInv, UNCHANGED <<node, pc, behind, at>>
  PROVE  WalkersInList'
  BY DEF ListInv, WalkersInList, InList, Reach, From, ClosedFrom

LEMMA WalkersStep == ListInv /\ [Next]_vars => WalkersInList'
  <1> SUFFICES ASSUME ListInv, [Next]_vars PROVE WalkersInList' OBVIOUS
  <1>0. TypeOK /\ WalkersInList BY DEF ListInv
  <1> USE DEF Goto, threadVars
  <1>1. ASSUME NEW t \in Threads, First(t) PROVE WalkersInList'
    <2>1. Head \in {Head} \cup InList OBVIOUS
    <2> QED
      BY <1>0, <1>1, <2>1, WalkersSame
         DEF First, TypeOK, WalkersInList, Walking
  <1>2. ASSUME NEW t \in Threads, Pop(t) PROVE WalkersInList'
    <2> QED
      BY <1>0, <1>2, WalkersSame
         DEF Pop, TypeOK, WalkersInList, Walking
  <1>3. ASSUME NEW t \in Threads, LockNext(t) PROVE WalkersInList'
    <2> QED
      BY <1>0, <1>3, WalkersSame
         DEF LockNext, TypeOK, WalkersInList, Walking
  <1>4. ASSUME NEW t \in Threads, Hop(t) PROVE WalkersInList'
    <2>1. at[t] \in InList BY <1>4, Places DEF Hop, Walking
    <2> QED
      BY <1>0, <1>4, <2>1, WalkersSame
         DEF Hop, TypeOK, WalkersInList, Walking
  <1>5. ASSUME NEW t \in Threads, Push(t) PROVE WalkersInList'
    <2> QED
      BY <1>0, <1>5, WalkersSame
         DEF Push, TypeOK, WalkersInList, Walking
  <1>6. ASSUME NEW t \in Threads, Unlock(t) PROVE WalkersInList'
    <2> QED
      BY <1>0, <1>6, WalkersSame
         DEF Unlock, TypeOK, WalkersInList, Walking
  <1>7. ASSUME NEW t \in Threads, Grow(t) PROVE WalkersInList'
    <2> QED
      BY <1>0, <1>7, WalkersSame
         DEF Grow, TypeOK, WalkersInList, Walking
  <1>8. ASSUME NEW t \in Threads, Insert(t) PROVE WalkersInList'
    <2>0. \A u \in Threads : /\ pc'[u] \in Walking <=> pc[u] \in Walking
                            /\ behind'[u] = behind[u] /\ at'[u] = at[u]
      BY <1>8, <1>0 DEF Insert, TypeOK, Walking
    <2>1. CASE UNCHANGED <<node, pool>>
      <3>1. InList' = InList BY <2>1 DEF InList, Reach, From, ClosedFrom
      <3> QED BY <1>0, <2>0, <2>1, <3>1 DEF WalkersInList
    <2>2. CASE \E g \in Groups : PutIn(t, g)
      <3>1. PICK g \in Groups : PutIn(t, g) BY <2>2
      <3>2. \A u \in Threads : pc[u] \in Walking => behind[u] # Head
        <4>1. t \in writes[Head] BY <3>1 DEF PutIn, ListInv, LocksByPlace, Growing, Pointers
        <4>2. reads[Head] = {} BY <4>1 DEF ListInv, LocksByPlace, Pointers
        <4> QED BY <4>2 DEF ListInv, LocksByPlace, Pointers
      <3>3. \A u \in Threads : pc[u] \in Walking =>
                node'[behind[u]] = node[behind[u]] /\ behind[u] \in InList'
        BY <1>0, <3>1, <3>2, PutInList DEF WalkersInList
      <3> QED BY <1>0, <2>0, <3>3 DEF WalkersInList
    <2> QED BY <1>8, <2>1, <2>2, InsertSplit
  <1>9. ASSUME NEW t \in Threads, GrowUnlock(t) PROVE WalkersInList'
    <2> QED
      BY <1>0, <1>9, WalkersSame
         DEF GrowUnlock, TypeOK, WalkersInList, Walking
  <1>10. ASSUME NEW t \in Threads, GiveUp(t) PROVE WalkersInList'
    <2> QED
      BY <1>0, <1>10, WalkersSame
         DEF GiveUp, TypeOK, WalkersInList, Walking
  <1>11. ASSUME TakeStaged \/ Recycle \/ LeaveGroup \/ Locking PROVE WalkersInList'
    BY <1>11, WalkersStay
       DEF TakeStaged, Recycle, LeaveGroup, Locking, LockFirst, Seek, SeekHop
  <1>12. ASSUME Decide \/ PassThrough \/ Retire \/ Step PROVE WalkersInList'
    BY <1>12, WalkersStay DEF Decide, PassThrough, Retire, Step
  <1>13. ASSUME Unlink PROVE WalkersInList'
    <2>1. pc' = pc /\ behind' = behind /\ at' = at BY <1>13 DEF Unlink
    <2>2. \A u \in Threads : pc[u] \in Walking => behind[u] # rbehind
      <3>1. Reader \in writes[rbehind] /\ rbehind \in Pointers
        BY <1>13, Places DEF Unlink, ListInv, LocksByPlace, Removing
      <3>2. reads[rbehind] = {} BY <3>1 DEF ListInv, LocksByPlace
      <3> QED BY <3>1, <3>2 DEF ListInv, LocksByPlace
    <2>3. \A u \in Threads : behind[u] # rat
      BY <1>13 DEF Unlink, ListInv, ReaderInList
    <2>4. \A u \in Threads : pc[u] \in Walking =>
              behind[u] \in {Head} \cup InList' /\ node'[behind[u]] = node[behind[u]]
      BY <1>0, <1>13, <2>2, <2>3, UnlinkList, Places
    <2> QED BY <1>0, <2>1, <2>4 DEF WalkersInList
  <1>14. ASSUME UNCHANGED vars PROVE WalkersInList' BY <1>14, WalkersStay DEF vars
  <1> QED
    BY <1>1, <1>2, <1>3, <1>4, <1>5, <1>6, <1>7, <1>8, <1>9, <1>10, <1>11, <1>12, <1>13, <1>14
       DEF Next, Alloc, Read, Deleting

\* The group that the reader is removing is behind its write lock: nobody walks
\* up to it, and nobody who adds to the list has it at the head.
LEMMA NobodyAtRemoved ==
  ASSUME ListInv, rpc \in Removing
  PROVE  \A t \in Threads :
            /\ pc[t] \in Walking => at[t] # rat
            /\ pc[t] \in Growing => node[Head] # rat
  <1>1. rbehind \in Pointers /\ rbehind \in {Head} \cup InList /\ rat \in Groups BY Places
  <1>2. Reader \in writes[rbehind] BY <1>1 DEF ListInv, LocksByPlace
  <1>3. reads[rbehind] = {} /\ \A t \in Threads : t \notin writes[rbehind]
    <2>1. \A t \in Threads : t # Reader BY GroupListAssumption
    <2> QED BY <1>1, <1>2, <2>1 DEF ListInv, LocksByPlace
  <1>4. CASE rpc = "unlinked"
    <2>1. rat \notin InList BY <1>4 DEF ListInv, ListWhole
    <2>2. node[Head] # None => node[Head] \in InList
      <3>1. ClosedFrom(node, Head, InList) BY ListLinks, Closed DEF Pointers
      <3> QED BY <3>1 DEF ClosedFrom
    <2>3. rat # None BY <1>1, GroupListAssumption
    <2> QED BY <2>1, <2>2, <2>3, Places
  <1>5. CASE rpc # "unlinked"
    <2>1. node[rbehind] = rat /\ rat # None BY <1>1, <1>5, Places, GroupListAssumption
    <2>2. \A p \in {Head} \cup InList : node[p] = rat => p = rbehind
      BY <1>1, <2>1, ListLinks DEF OneWay
    <2>3. \A t \in Threads : pc[t] \in Walking => at[t] # rat
      <3> SUFFICES ASSUME NEW t \in Threads, pc[t] \in Walking, at[t] = rat PROVE FALSE OBVIOUS
      <3>1. behind[t] = rbehind BY <2>2, Places
      <3>2. t \in reads[rbehind] BY <1>1, <3>1 DEF ListInv, LocksByPlace
      <3> QED BY <1>3, <3>2
    <2>4. \A t \in Threads : pc[t] \in Growing => node[Head] # rat
      <3> SUFFICES ASSUME NEW t \in Threads, pc[t] \in Growing, node[Head] = rat PROVE FALSE OBVIOUS
      <3>1. rbehind = Head BY <2>2
      <3>2. t \in writes[Head] BY <1>1, <3>1 DEF ListInv, LocksByPlace
      <3> QED BY <1>3, <3>1, <3>2
    <2> QED BY <2>3, <2>4
  <1> QED BY <1>4, <1>5

\* The list leads from each of its pointers only to its groups.
LEMMA NextInList ==
  ASSUME ListInv, NEW p \in {Head} \cup InList, node[p] # None
  PROVE  /\ node[p] \in InList /\ node[p] \in Groups
         /\ Reach(p) = {node[p]} \cup Reach(node[p])
  <1>1. ClosedFrom(node, Head, InList) BY ListLinks, Closed DEF Pointers
  <1>2. node[p] \in InList BY <1>1 DEF ClosedFrom
  <1>3. node[p] \in Groups /\ p \in Pointers BY <1>2, ListLinks
  <1> QED BY <1>2, <1>3, ListLinks, NextOne DEF Reach

\* A step of a thread that puts nothing in.
LEMMA ReaderStays ==
  ASSUME ListInv, UNCHANGED <<node, pool, readerVars>>,
         rpc = "unlink" => \A t \in Threads : behind'[t] # rat
  PROVE  ReaderInList' /\ ReaderFindsGroup'
  <1>1. /\ InList' = InList
        /\ \A p : From(node', p) = From(node, p)
    BY DEF InList, Reach, From, ClosedFrom
  <1>2. UNCHANGED <<rpc, rbehind, rat, cur, last, next>> BY DEF readerVars
  <1>3. ReaderInList /\ ReaderFindsGroup BY DEF ListInv
  <1>4. ReaderInList' BY <1>1, <1>2, <1>3 DEF ReaderInList
  <1>5. ReaderFindsGroup' BY <1>1, <1>2, <1>3 DEF ReaderFindsGroup, Reach
  <1> QED BY <1>4, <1>5

LEMMA ReaderThroughThreads ==
  ASSUME ListInv, NEW t \in Threads, Alloc(t) \/ GiveUp(t), ~Insert(t)
  PROVE  ReaderInList' /\ ReaderFindsGroup'
  <1>1. UNCHANGED <<node, pool, readerVars>>
    BY DEF Alloc, First, Pop, LockNext, Hop, Push, Unlock, Grow, GrowUnlock, GiveUp
  <1>2. \A u \in Threads :
            \/ behind'[u] \in {behind[u], Head, None}
            \/ pc[u] \in Walking /\ behind'[u] = at[u]
    <2>1. behind \in [Threads -> Pointers \cup {None}] BY DEF ListInv, TypeOK
    <2>2. CASE Hop(t) BY <2>1, <2>2 DEF Hop, Walking
    <2>3. CASE ~Hop(t)
      BY <2>1, <2>3
         DEF Alloc, First, Pop, LockNext, Push, Unlock, Grow, GrowUnlock, GiveUp
    <2> QED BY <2>2, <2>3
  <1>3. rpc = "unlink" => \A u \in Threads : behind'[u] # rat
    <2> SUFFICES ASSUME rpc = "unlink", NEW u \in Threads PROVE behind'[u] # rat OBVIOUS
    <2>1. rpc \in Removing BY DEF Removing
    <2>2. rat \in Groups BY <2>1, Places
    <2>3. rat # Head /\ rat # None BY <2>2, GroupListAssumption
    <2>4. behind[u] # rat BY DEF ListInv, ReaderInList
    <2>5. pc[u] \in Walking => at[u] # rat BY <2>1, NobodyAtRemoved
    <2> QED BY <1>2, <2>3, <2>4, <2>5
  <1> QED BY <1>1, <1>3, ReaderStays

LEMMA ReaderThroughInsert ==
  ASSUME ListInv, NEW t \in Threads, NEW g \in Groups, PutIn(t, g), behind' = behind
  PROVE  ReaderInList' /\ ReaderFindsGroup'
  <1>1. ReaderInList /\ ReaderFindsGroup BY DEF ListInv
  <1>2. UNCHANGED <<rpc, rbehind, rat, cur, last, next>> BY DEF PutIn, readerVars
  <1>3. /\ InList' = {g} \cup InList /\ g # Head
        /\ \A p \in InList : Reach(p)' = Reach(p) /\ node'[p] = node[p]
    BY PutInList
  <1>4. rpc \in Searching \cup Removing => rbehind \in InList /\ rat \in Groups
    <2> SUFFICES ASSUME rpc \in Searching \cup Removing PROVE rbehind \in InList /\ rat \in Groups
      OBVIOUS
    <2>1. /\ rbehind \in {Head} \cup InList /\ rbehind \in Pointers /\ rat \in Groups
      BY Places
    <2>2. Reader \in writes[rbehind] BY <2>1 DEF ListInv, LocksByPlace
    <2>3. t \in writes[Head] BY DEF PutIn, Growing, ListInv, LocksByPlace, Pointers
    <2>4. rbehind # Head
      BY <2>1, <2>2, <2>3, GroupListAssumption DEF ListInv, LocksByPlace
    <2> QED BY <2>1, <2>4
  <1>5. rpc = "unlinked" => rat # g /\ rat \in Groups /\ node'[rat] = node[rat]
    <2> SUFFICES ASSUME rpc = "unlinked" PROVE rat # g /\ rat \in Groups /\ node'[rat] = node[rat]
      OBVIOUS
    <2>1. rat # g BY <1>1 DEF ReaderInList, PutIn
    <2>2. rat \in Groups BY <1>4 DEF Removing
    <2>3. rat # Head BY <2>2, GroupListAssumption
    <2> QED BY <2>1, <2>2, <2>3, ListLinks DEF PutIn, Nodes, Pointers
  <1>6. cur # None => node'[cur] = node[cur]
    BY <1>1, <1>3, <1>5 DEF ReaderFindsGroup, ReaderInList, Removing
  <1>7. rpc \in Searching => rat \in InList BY Places
  <1>8. ReaderInList'
    <2>1. rpc \in Searching \cup Removing => node'[rbehind] = node[rbehind] /\ rbehind \in InList'
      BY <1>3, <1>4
    <2>2. rpc \in Searching =>
            rbehind \in {Head} \cup InList' /\ rat = node'[rbehind] /\ cur # None /\ last = None
      BY <1>1, <2>1 DEF ReaderInList
    <2>3. rpc \in Removing =>
            /\ cur # None /\ rat = cur
            /\ rbehind \in {Head} \cup InList'
            /\ node'[rbehind] = IF rpc = "unlinked" THEN node'[rat] ELSE rat
            /\ last # None => rbehind = last
      BY <1>1, <1>5, <2>1 DEF ReaderInList
    <2>4. rpc = "unlinked" => rat \notin pool' BY <1>1 DEF ReaderInList, PutIn
    <2>5. /\ rpc # "walk" /\ cur # None => next = node'[cur]
          /\ rpc = "step" /\ next # None => next \in InList'
      BY <1>1, <1>3, <1>6 DEF ReaderInList
    <2> QED BY <1>1, <1>2, <2>2, <2>3, <2>4, <2>5 DEF ReaderInList
  <1>9. ReaderFindsGroup'
    <2>1. rpc \in Searching => Reach(rat)' = Reach(rat) BY <1>2, <1>3, <1>7
    <2>2. rpc \in {"locked", "delete"} => node'[rbehind] = node[rbehind]
      BY <1>3, <1>4 DEF Removing
    <2>3. cur # None /\ last # None => node'[last] = node[last] /\ last \in InList'
      BY <1>1, <1>3 DEF ReaderFindsGroup
    <2> QED BY <1>1, <1>2, <1>3, <2>1, <2>2, <2>3 DEF ReaderFindsGroup, Searching
  <1> QED BY <1>8, <1>9

\* A step of the reader that changes no link.
LEMMA SameList ==
  ASSUME node' = node
  PROVE  InList' = InList /\ \A p : From(node', p) = From(node, p)
  BY DEF InList, Reach, From, ClosedFrom

LEMMA ReaderThroughLocking ==
  ASSUME ListInv, TakeStaged \/ Recycle \/ LeaveGroup \/ Locking
  PROVE  ReaderInList' /\ ReaderFindsGroup'
  <1>1. ReaderInList /\ ReaderFindsGroup BY DEF ListInv
  <1>2. UNCHANGED <<node, pool, behind, cur, last>>
    BY DEF TakeStaged, Recycle, LeaveGroup, Locking, LockFirst, Seek, SeekHop,
           threadVars, readerVars
  <1>3. InList' = InList /\ \A p : From(node', p) = From(node, p) BY <1>2, SameList
  <1>4. Head \in {Head} \cup InList OBVIOUS
  <1>5. cur # None /\ rpc # "unlinked" => cur \in InList BY <1>1 DEF ReaderFindsGroup
  <1>6. CASE TakeStaged \/ Recycle
    <2>1. UNCHANGED readerVars /\ rpc = "walk" BY <1>6 DEF TakeStaged, Recycle
    <2> QED BY <1>2, <2>1, ReaderStays
  <1>7. CASE LeaveGroup
    <2>1. /\ rpc = "walk" /\ rpc' \in {"lock", "step"} /\ UNCHANGED <<rbehind, rat>>
          /\ rpc' = "lock" => cur # None
          /\ cur # None => next' = node[cur]
          /\ cur = None => next' = node[Head]
      BY <1>7 DEF LeaveGroup
    <2>2. next' # None => next' \in InList BY <1>4, <1>5, <2>1, NextInList
    <2>3. ReaderInList' BY <1>2, <1>3, <2>1, <2>2 DEF ReaderInList, Searching, Removing
    <2>4. ReaderFindsGroup'
      BY <1>1, <1>2, <1>3, <2>1 DEF ReaderFindsGroup
    <2> QED BY <2>3, <2>4
  <1>8. CASE LockFirst
    <2>1. /\ rpc = "lock" /\ next' = next /\ rat' = node[rbehind']
          /\ rbehind' = IF last # None THEN last ELSE Head
          /\ rpc' = IF rat' = cur THEN "locked" ELSE "seek"
      BY <1>8 DEF LockFirst
    <2>2. cur # None /\ next = node[cur] /\ cur \in InList
      BY <1>1, <1>5, <2>1 DEF ReaderInList
    <2>3. last # None => last \in InList /\ node[last] = cur
      BY <1>1, <2>1, <2>2 DEF ReaderFindsGroup
    <2>4. rbehind' \in {Head} \cup InList BY <2>1, <2>3
    <2>5. rpc' = "seek" =>
            /\ last = None /\ rbehind' = Head /\ rat' # cur
            /\ rat' # None /\ cur \in Reach(rat')
      <3> SUFFICES ASSUME rpc' = "seek"
                   PROVE  /\ last = None /\ rbehind' = Head /\ rat' # cur
                          /\ rat' # None /\ cur \in Reach(rat')
        OBVIOUS
      <3>1. last = None /\ rbehind' = Head /\ rat' # cur /\ rat' = node[Head]
        BY <2>1, <2>3
      <3>2. node[Head] # None
        BY <2>2, ListLinks, NextOne DEF Pointers
      <3>3. InList = {node[Head]} \cup Reach(node[Head])
        BY <1>4, <3>2, NextInList DEF InList
      <3> QED BY <2>2, <3>1, <3>2, <3>3
    <2>6. ReaderInList'
      BY <1>2, <1>3, <2>1, <2>2, <2>3, <2>4, <2>5 DEF ReaderInList, Searching, Removing
    <2>7. ReaderFindsGroup'
      BY <1>2, <1>3, <2>1, <2>2, <2>3, <2>5 DEF ReaderFindsGroup, Reach
    <2> QED BY <2>6, <2>7
  <1>9. CASE Seek
    <2>1. rpc = "seek" /\ rpc' = "seekHop" /\ UNCHANGED <<rbehind, rat, next>>
      BY <1>9 DEF Seek
    <2>2. ReaderInList' BY <1>1, <1>2, <1>3, <2>1 DEF ReaderInList, Searching, Removing
    <2>3. ReaderFindsGroup' BY <1>1, <1>2, <1>3, <2>1 DEF ReaderFindsGroup, Reach
    <2> QED BY <2>2, <2>3
  <1>10. CASE SeekHop
    <2>1. /\ rpc = "seekHop" /\ next' = next /\ rbehind' = rat /\ rat' = node[rat]
          /\ rpc' = IF rat' = cur THEN "locked" ELSE "seek"
      BY <1>10 DEF SeekHop
    <2>2. rat \in InList /\ rat \in Groups BY <2>1, Places DEF Searching
    <2>3. cur # None /\ last = None /\ next = node[cur] /\ cur \in Reach(rat) /\ cur \in InList
      BY <1>1, <2>1 DEF ReaderInList, ReaderFindsGroup, Searching
    <2>4. node[rat] # None
      BY <2>2, <2>3, ListLinks, NextOne DEF Pointers
    <2>5. Reach(rat) = {node[rat]} \cup Reach(node[rat]) BY <2>2, <2>4, NextInList
    <2>6. rat' # None /\ (rat' # cur => cur \in Reach(rat')) BY <2>1, <2>3, <2>4, <2>5
    <2>7. ReaderInList'
      BY <1>2, <1>3, <2>1, <2>2, <2>3 DEF ReaderInList, Searching, Removing
    <2>8. ReaderFindsGroup'
      BY <1>2, <1>3, <2>1, <2>3, <2>6 DEF ReaderFindsGroup, Reach
    <2> QED BY <2>7, <2>8
  <1> QED BY <1>6, <1>7, <1>8, <1>9, <1>10 DEF Locking

LEMMA ReaderThroughUnlink ==
  ASSUME ListInv, Unlink
  PROVE  ReaderInList' /\ ReaderFindsGroup'
  <1>1. ReaderInList /\ ReaderFindsGroup BY DEF ListInv
  <1>2. /\ rpc = "unlink" /\ rpc' = "unlinked"
        /\ UNCHANGED <<pool, rbehind, rat, cur, last, next>>
    BY DEF Unlink
  <1>3. /\ InList' = InList \ {rat} /\ rat \in InList /\ rat \in Groups
        /\ rbehind \in {Head} \cup InList' /\ node'[rbehind] = node[rat]
        /\ \A p \in Pointers \ {rbehind} : node'[p] = node[p]
    BY UnlinkList
  <1>4. /\ cur # None /\ rat = cur /\ next = node[cur]
        /\ last # None => rbehind = last
    BY <1>1, <1>2 DEF ReaderInList, Removing
  <1>5. rbehind # rat /\ rat \in Pointers BY <1>3, GroupListAssumption DEF Pointers
  <1>6. node'[rat] = node[rat] BY <1>3, <1>5
  <1>7. rat \notin pool BY <1>2, <1>3 DEF ListInv, ListWhole
  <1>8. last # None => last \in InList'
    <2>1. last # Head BY GroupListAssumption DEF ListInv, TypeOK
    <2> QED BY <1>3, <1>4, <2>1
  <1>9. ReaderInList'
    BY <1>2, <1>3, <1>4, <1>6, <1>7 DEF ReaderInList, Searching, Removing
  <1>10. ReaderFindsGroup'
    BY <1>2, <1>4, <1>8 DEF ReaderFindsGroup
  <1> QED BY <1>9, <1>10

LEMMA ReaderThroughDeleting ==
  ASSUME ListInv, Decide \/ PassThrough \/ Retire \/ Step
  PROVE  ReaderInList' /\ ReaderFindsGroup'
  <1>1. ReaderInList /\ ReaderFindsGroup BY DEF ListInv
  <1>2. UNCHANGED <<node, behind>>
    BY DEF Decide, PassThrough, Retire, Step, threadVars
  <1>3. InList' = InList /\ \A p : From(node', p) = From(node, p) BY <1>2, SameList
  <1>4. cur # None /\ rpc # "unlinked" => cur \in InList BY <1>1 DEF ReaderFindsGroup
  <1>5. rpc \in Removing => cur # None /\ rat = cur /\ rbehind \in {Head} \cup InList
    BY <1>1 DEF ReaderInList
  <1>6. cur # None /\ last # None => last \in InList BY <1>1 DEF ReaderFindsGroup
  <1>7. CASE Decide
    <2>1. /\ rpc = "locked" /\ rpc' \in {"delete", "step"}
          /\ UNCHANGED <<rbehind, rat, cur, last, next>>
      BY <1>7 DEF Decide
    <2>2. /\ cur # None /\ rat = cur /\ cur \in InList /\ next = node[cur]
          /\ last # None => rbehind = last
          /\ node[rbehind] = rat /\ rbehind \in {Head} \cup InList
      BY <1>1, <1>4, <1>5, <2>1 DEF ReaderInList, Removing
    <2>3. next # None => next \in InList BY <2>2, NextInList
    <2>4. ReaderInList' BY <1>2, <1>3, <2>1, <2>2, <2>3 DEF ReaderInList, Searching, Removing
    <2>5. ReaderFindsGroup' BY <1>2, <1>3, <1>6, <2>1, <2>2 DEF ReaderFindsGroup
    <2> QED BY <2>4, <2>5
  <1>8. CASE PassThrough
    <2>1. /\ rpc = "delete" /\ rpc' = "unlink"
          /\ UNCHANGED <<rbehind, rat, cur, last, next>>
      BY <1>8 DEF PassThrough
    <2>2. rat \in Groups BY <2>1, Places DEF Removing
    <2>3. \A t \in Threads : behind[t] # rat
      <3>1. reads[rat] = {} BY <1>8 DEF PassThrough, CanWrite
      <3>2. \A t \in Threads : pc[t] \notin Walking => behind[t] = None
        BY DEF ListInv, WalkersInList
      <3> QED BY <2>2, <3>1, <3>2, GroupListAssumption DEF ListInv, LocksByPlace, Pointers
    <2>4. ReaderInList' BY <1>1, <1>2, <1>3, <2>1, <2>3 DEF ReaderInList, Searching, Removing
    <2>5. ReaderFindsGroup' BY <1>1, <1>2, <1>3, <2>1 DEF ReaderFindsGroup
    <2> QED BY <2>4, <2>5
  <1>9. CASE Retire
    <2>1. /\ rpc = "unlinked" /\ rpc' = "walk" /\ cur' = next /\ last' = last
      BY <1>9 DEF Retire
    <2>2. /\ cur # None /\ rat = cur /\ next = node[cur]
          /\ node[rbehind] = node[rat] /\ rbehind \in {Head} \cup InList
          /\ last # None => rbehind = last
      BY <1>1, <2>1 DEF ReaderInList, Removing
    <2>3. next # None => next \in InList
      <3>1. node[rbehind] = next BY <2>2
      <3> QED BY <2>2, <3>1, NextInList
    <2>4. ReaderInList' BY <2>1 DEF ReaderInList, Searching, Removing
    <2>5. ReaderFindsGroup'
      BY <1>2, <1>3, <1>6, <2>1, <2>2, <2>3 DEF ReaderFindsGroup
    <2> QED BY <2>4, <2>5
  <1>10. CASE Step
    <2>1. rpc = "step" /\ rpc' = "walk" /\ last' = cur /\ cur' = next BY <1>10 DEF Step
    <2>2. /\ next # None => next \in InList
          /\ cur # None => next = node[cur] /\ cur \in InList
      BY <1>1, <1>4, <2>1 DEF ReaderInList
    <2>3. ReaderInList' BY <2>1 DEF ReaderInList, Searching, Removing
    <2>4. ReaderFindsGroup' BY <1>2, <1>3, <2>1, <2>2 DEF ReaderFindsGroup
    <2> QED BY <2>3, <2>4
  <1> QED BY <1>7, <1>8, <1>9, <1>10

LEMMA ReaderStep == ListInv /\ [Next]_vars => ReaderInList' /\ ReaderFindsGroup'
  <1> SUFFICES ASSUME ListInv, [Next]_vars PROVE ReaderInList' /\ ReaderFindsGroup' OBVIOUS
  <1>1. ASSUME NEW t \in Threads, Insert(t) PROVE ReaderInList' /\ ReaderFindsGroup'
    <2>1. CASE UNCHANGED <<node, pool>>
      <3>1. UNCHANGED <<readerVars, behind>> BY <1>1 DEF Insert
      <3>2. rpc = "unlink" => \A u \in Threads : behind'[u] # rat
        BY <3>1 DEF ListInv, ReaderInList
      <3> QED BY <2>1, <3>1, <3>2, ReaderStays
    <2>2. CASE \E g \in Groups : PutIn(t, g)
      BY <1>1, <2>2, ReaderThroughInsert DEF Insert
    <2> QED BY <1>1, <2>1, <2>2, InsertSplit
  <1>2. ASSUME UNCHANGED vars PROVE ReaderInList' /\ ReaderFindsGroup'
    <2>1. rpc = "unlink" => \A u \in Threads : behind'[u] # rat
      BY <1>2 DEF ListInv, ReaderInList, vars, threadVars
    <2> QED BY <1>2, <2>1, ReaderStays DEF vars
  <1>3. ASSUME NEW t \in Threads, Alloc(t) \/ GiveUp(t)
        PROVE  ReaderInList' /\ ReaderFindsGroup'
    BY <1>1, <1>3, ReaderThroughThreads
  <1>4. ASSUME Read PROVE ReaderInList' /\ ReaderFindsGroup'
    BY <1>4, ReaderThroughLocking, ReaderThroughUnlink, ReaderThroughDeleting
       DEF Read, Deleting
  <1> QED BY <1>2, <1>3, <1>4 DEF Next

-----------------------------------------------------------------------------
(***************************************************************************)
(* The steps: the blocks.                                                  *)
(***************************************************************************)

BlocksInv == BlocksByPlace /\ RetiredWhole /\ BlocksOnce

Holding == {"push", "unlock", "has", "growPush", "growUnlock"}
Condemned == {"delete", "unlink", "unlinked"}

\* A block is in one group.
LEMMA OneGroup ==
  /\ \A g \in Groups : BlocksOf(g) \subseteq Blocks
  /\ \A g, h, b : b \in BlocksOf(g) /\ b \in BlocksOf(h) => g = h
  BY DEF BlocksOf, Blocks

\* No block moves, and nobody goes to where it counts as his.
LEMMA BlocksSame ==
  ASSUME ListInv, UNCHANGED <<lists, block>>,
         \A t \in Threads :
            /\ pc'[t] \in Holding <=> pc[t] \in Holding
            /\ pc'[t] = "push" <=> pc[t] = "push"
            /\ pc'[t] = "growPush" <=> pc[t] = "growPush"
            /\ pc[t] = "push" => at'[t] = at[t]
            /\ pc[t] = "growPush" => node'[Head] = node[Head],
         rpc' \in Condemned => BlocksOf(rat') \subseteq free,
         \A g \in pool' : BlocksOf(g) \subseteq free
  PROVE  BlocksInv'
  <1>1. UNCHANGED <<free, stage, used, removed, block>> BY DEF lists
  <1>2. BlocksByPlace /\ RetiredWhole /\ BlocksOnce BY DEF ListInv
  <1>3. InHand' = InHand BY <1>1 DEF InHand
  <1>4. BlocksOnce' BY <1>1, <1>2, <1>3 DEF BlocksOnce
  <1>5. RetiredWhole' BY <1>1 DEF RetiredWhole, Condemned
  <1>6. BlocksByPlace'
    <2>1. ASSUME NEW t \in Threads
          PROVE  /\ pc'[t] \in Holding <=> block'[t] # None
                 /\ pc'[t] = "push" => block'[t] \in BlocksOf(at'[t])
                 /\ pc'[t] = "growPush" =>
                        node'[Head] # None /\ block'[t] \in BlocksOf(node'[Head])
                 /\ block'[t] # None => block'[t] \notin free' \cup removed'
      BY <1>1, <1>2 DEF BlocksByPlace, Holding
    <2> QED BY <1>1, <1>2, <2>1 DEF BlocksByPlace, Holding, Condemned
  <1> QED BY <1>4, <1>5, <1>6 DEF BlocksInv

\* A free block is taken, from a group that is neither condemned nor gone.
LEMMA BlockTaken ==
  ASSUME ListInv, NEW t \in Threads, NEW b \in free, NEW g \in Groups, b \in BlocksOf(g),
         pc[t] \notin Holding, free' = free \ {b}, block' = [block EXCEPT ![t] = b],
         UNCHANGED <<stage, used, removed, rpc, rat>>,
         \A u \in Threads \ {t} :
            /\ pc'[u] = pc[u] /\ at'[u] = at[u]
            /\ pc[u] = "growPush" => node'[Head] = node[Head],
         \/ pc'[t] = "push" /\ at'[t] = g
         \/ pc'[t] = "growPush" /\ node'[Head] = g,
         rpc \in Condemned => rat # g,
         pool' \subseteq pool, g \notin pool'
  PROVE  BlocksInv'
  <1>1. BlocksByPlace /\ RetiredWhole /\ BlocksOnce /\ TypeOK BY DEF ListInv
  <1>2. /\ block'[t] = b /\ \A u \in Threads \ {t} : block'[u] = block[u]
        /\ b \in Blocks /\ b # None
    BY <1>1, GroupListAssumption DEF TypeOK, Blocks
  <1>3. block[t] = None BY <1>1 DEF BlocksByPlace, Holding
  <1>4. b \notin stage /\ b \notin used /\ b \notin removed
    BY <1>1 DEF BlocksOnce, BlocksByPlace
  <1>5. \A u \in Threads : block[u] # b BY <1>1, <1>2 DEF BlocksByPlace
  <1>6. InHand' = InHand \cup {b}
    <2>1. t \notin {u \in Threads : pc[u] \in {"push", "growPush"}} BY DEF Holding
    <2>2. {u \in Threads : pc'[u] \in {"push", "growPush"}}
            = {t} \cup {u \in Threads : pc[u] \in {"push", "growPush"}}
      OBVIOUS
    <2> QED BY <1>2, <2>1, <2>2 DEF InHand
  <1>7. BlocksOnce'
    <2>1. /\ free' \cap stage' = {} /\ free' \cap used' = {} /\ stage' \cap used' = {}
      BY <1>1 DEF BlocksOnce
    <2>2. Blocks \ (free' \cup stage' \cup used') = InHand'
      <3>1. Blocks \ (free \cup stage \cup used) = InHand BY <1>1 DEF BlocksOnce
      <3> QED BY <1>2, <1>4, <1>6, <3>1
    <2>3. \A u, v \in Threads : block'[u] = block'[v] /\ u # v => block'[u] = None
      BY <1>1, <1>2, <1>5 DEF BlocksOnce
    <2> QED BY <2>1, <2>2, <2>3 DEF BlocksOnce
  <1>8. \A k \in pool' : BlocksOf(k) \subseteq free'
    BY <1>1, OneGroup DEF RetiredWhole
  <1>9. rpc' \in Condemned => BlocksOf(rat') \subseteq free'
    BY <1>1, OneGroup DEF BlocksByPlace, Condemned
  <1>10. RetiredWhole' BY <1>8, <1>9 DEF RetiredWhole, Condemned
  <1>11. BlocksByPlace'
    <2>1. ASSUME NEW u \in Threads
          PROVE  /\ pc'[u] \in Holding <=> block'[u] # None
                 /\ pc'[u] = "push" => block'[u] \in BlocksOf(at'[u])
                 /\ pc'[u] = "growPush" =>
                        node'[Head] # None /\ block'[u] \in BlocksOf(node'[Head])
                 /\ block'[u] # None => block'[u] \notin free' \cup removed'
      <3>1. CASE u = t BY <1>2, <1>4, <3>1, GroupListAssumption DEF Holding
      <3>2. CASE u # t BY <1>1, <1>2, <3>2 DEF BlocksByPlace, Holding
      <3> QED BY <3>1, <3>2
    <2>2. removed' \subseteq stage' \cup used' BY <1>1 DEF BlocksByPlace
    <2> QED BY <1>9, <2>1, <2>2 DEF BlocksByPlace, Holding, Condemned
  <1> QED BY <1>7, <1>10, <1>11 DEF BlocksInv

\* Under the lock a group without staged and used blocks has all of them free:
\* whoever took one and has not staged it yet would hold a lock of the reader.
LEMMA AllFree ==
  ASSUME ListInv, rpc = "locked", UsedIn(rat) = {}, StagedIn(rat) = {}
  PROVE  BlocksOf(rat) \subseteq free
  <1> SUFFICES ASSUME NEW b \in BlocksOf(rat), b \notin free PROVE FALSE OBVIOUS
  <1>1. rpc \in Removing /\ rat \in Groups BY Places DEF Removing
  <1>2. b \in Blocks /\ b \notin stage /\ b \notin used
    BY <1>1, OneGroup DEF UsedIn, StagedIn
  <1>3. b \in InHand BY <1>2 DEF ListInv, BlocksOnce
  <1>4. PICK t \in Threads : pc[t] \in {"push", "growPush"} /\ block[t] = b
    BY <1>3 DEF InHand
  <1>5. CASE pc[t] = "push"
    <2>1. b \in BlocksOf(at[t]) BY <1>4, <1>5 DEF ListInv, BlocksByPlace
    <2>2. at[t] = rat BY <2>1, OneGroup
    <2> QED BY <1>1, <1>5, <2>2, NobodyAtRemoved DEF Walking
  <1>6. CASE pc[t] = "growPush"
    <2>1. b \in BlocksOf(node[Head]) BY <1>4, <1>6 DEF ListInv, BlocksByPlace
    <2>2. node[Head] = rat BY <2>1, OneGroup
    <2> QED BY <1>1, <1>6, <2>2, NobodyAtRemoved DEF Growing
  <1> QED BY <1>4, <1>5, <1>6

LEMMA BlocksThroughTaking ==
  ASSUME ListInv, NEW t \in Threads, Pop(t) \/ Insert(t)
  PROVE  BlocksInv'
  <1>1. TypeOK /\ ReaderInList BY DEF ListInv
  <1>2. Condemned \subseteq Removing /\ "unlinked" \in Removing BY DEF Condemned, Removing
  <1>3. \A g \in InList : g \notin pool BY DEF ListInv, ListWhole
  <1>4. CASE Pop(t)
    <2>1. PICK b \in FreeIn(at[t]) : free' = free \ {b} /\ block' = [block EXCEPT ![t] = b]
      BY <1>4 DEF Pop
    <2>2. /\ pc[t] = "look" /\ pc' = [pc EXCEPT ![t] = "push"]
          /\ UNCHANGED <<node, pool, stage, used, removed, at, rpc, rat>>
      BY <1>4 DEF Pop, Goto, readerVars
    <2>3. at[t] \in Groups /\ at[t] \in InList BY <2>2, Places DEF Walking
    <2>4. rpc \in Condemned => rat # at[t]
      BY <1>2, <2>2, NobodyAtRemoved DEF Walking
    <2>5. b \in free /\ b \in BlocksOf(at[t]) BY DEF FreeIn
    <2>6. pc'[t] = "push" /\ \A u \in Threads \ {t} : pc'[u] = pc[u]
      BY <1>1, <2>2 DEF TypeOK
    <2>7. pc[t] \notin Holding BY <2>2 DEF Holding
    <2> QED BY <1>3, <2>1, <2>2, <2>3, <2>4, <2>5, <2>6, <2>7, BlockTaken
  <1>5. CASE Insert(t)
    <2>1. /\ pc[t] = "grown" /\ pc' = [pc EXCEPT ![t] = "growPush"]
          /\ UNCHANGED <<stage, used, removed, at, rpc, rat>>
      BY <1>5 DEF Insert, Goto, readerVars
    <2>2. pc'[t] = "growPush" /\ \A u \in Threads \ {t} : pc'[u] = pc[u]
      BY <1>1, <2>1 DEF TypeOK
    <2>3. pc[t] \notin Holding BY <2>1 DEF Holding
    <2>4. \A u \in Threads \ {t} : pc[u] # "growPush"
      BY <2>1 DEF ListInv, LocksByPlace, Growing, Pointers
    <2>5. CASE node[Head] # None /\ FreeIn(node[Head]) # {}
      <3>1. PICK b \in FreeIn(node[Head]) : free' = free \ {b} /\ block' = [block EXCEPT ![t] = b]
        BY <1>5, <2>5 DEF Insert
      <3>2. UNCHANGED <<node, pool>> BY <1>5, <2>5 DEF Insert
      <3>3. node[Head] \in InList /\ node[Head] \in Groups BY <2>5, NextInList
      <3>4. rpc \in Condemned => rat # node[Head]
        BY <1>2, <2>1, NobodyAtRemoved DEF Growing
      <3>5. b \in free /\ b \in BlocksOf(node[Head]) BY DEF FreeIn
      <3> QED BY <1>3, <2>1, <2>2, <2>3, <3>1, <3>2, <3>3, <3>4, <3>5, BlockTaken
    <2>6. CASE ~(node[Head] # None /\ FreeIn(node[Head]) # {})
      <3>1. PICK g \in pool : \E b \in FreeIn(g) :
                /\ pool' = pool \ {g}
                /\ free' = free \ {b}
                /\ block' = [block EXCEPT ![t] = b]
                /\ node' = [node EXCEPT ![g] = node[Head], ![Head] = g]
        BY <1>5, <2>6 DEF Insert
      <3>2. PICK b \in FreeIn(g) :
                /\ pool' = pool \ {g}
                /\ free' = free \ {b}
                /\ block' = [block EXCEPT ![t] = b]
                /\ node' = [node EXCEPT ![g] = node[Head], ![Head] = g]
        BY <3>1
      <3>3. g \in Groups BY <1>1 DEF TypeOK
      <3>4. node'[Head] = g
        BY <3>2, <3>3, ListLinks, GroupListAssumption DEF Nodes, Pointers
      <3>5. rpc \in Condemned => rat # g
        <4>1. rpc \in Condemned /\ rpc # "unlinked" => rat \in InList
          BY <1>2, Places
        <4> QED BY <1>1, <1>3, <4>1 DEF ReaderInList
      <3>6. b \in free /\ b \in BlocksOf(g) BY DEF FreeIn
      <3>7. \A u \in Threads \ {t} :
              /\ pc'[u] = pc[u] /\ at'[u] = at[u]
              /\ pc[u] = "growPush" => node'[Head] = node[Head]
        BY <2>1, <2>2, <2>4
      <3> QED BY <2>1, <2>2, <2>3, <3>2, <3>3, <3>4, <3>5, <3>6, <3>7, BlockTaken
    <2> QED BY <2>5, <2>6
  <1> QED BY <1>4, <1>5

\* stage_.push() and what marks a block removed.
LEMMA BlocksThroughGiving ==
  ASSUME ListInv, NEW t \in Threads, Push(t) \/ GiveUp(t)
  PROVE  BlocksInv'
  <1>1. BlocksByPlace /\ RetiredWhole /\ BlocksOnce /\ TypeOK BY DEF ListInv
  <1>2. UNCHANGED <<node, pool, free, used, at, rpc, rat>>
    BY DEF Push, GiveUp, readerVars
  <1>3. \A u \in Threads \ {t} : pc'[u] = pc[u] /\ block'[u] = block[u]
    BY <1>1 DEF Push, GiveUp, Goto, TypeOK
  <1>4. RetiredWhole' BY <1>1, <1>2 DEF RetiredWhole
  <1>5. CASE Push(t)
    <2>1. /\ pc[t] \in {"push", "growPush"} /\ pc'[t] \in {"unlock", "growUnlock"}
          /\ stage' = stage \cup {block[t]} /\ UNCHANGED <<removed, block>>
      BY <1>1, <1>5 DEF Push, Goto, TypeOK
    <2>2. /\ block[t] \in Blocks /\ block[t] # None /\ block[t] \in InHand
      BY <1>1, <2>1 DEF BlocksByPlace, TypeOK, InHand
    <2>3. block[t] \notin free \cup stage \cup used BY <1>1, <2>2 DEF BlocksOnce
    <2>4. InHand' = InHand \ {block[t]}
      <3>1. {u \in Threads : pc'[u] \in {"push", "growPush"}}
              = {u \in Threads : pc[u] \in {"push", "growPush"}} \ {t}
        BY <1>3, <2>1
      <3>2. \A u \in Threads \ {t} : block[u] # block[t] BY <1>1, <2>2 DEF BlocksOnce
      <3> QED BY <2>1, <3>1, <3>2 DEF InHand
    <2>5. BlocksOnce'
      <3>1. Blocks \ (free \cup stage \cup used) = InHand BY <1>1 DEF BlocksOnce
      <3>2. Blocks \ (free' \cup stage' \cup used') = InHand' BY <1>2, <2>1, <2>4, <3>1
      <3>3. free' \cap stage' = {} /\ free' \cap used' = {} /\ stage' \cap used' = {}
        BY <1>1, <1>2, <2>1, <2>3 DEF BlocksOnce
      <3> QED BY <1>1, <2>1, <3>2, <3>3 DEF BlocksOnce
    <2>6. BlocksByPlace'
      <3>1. ASSUME NEW u \in Threads
            PROVE  /\ pc'[u] \in Holding <=> block'[u] # None
                   /\ pc'[u] = "push" => block'[u] \in BlocksOf(at'[u])
                   /\ pc'[u] = "growPush" =>
                          node'[Head] # None /\ block'[u] \in BlocksOf(node'[Head])
                   /\ block'[u] # None => block'[u] \notin free' \cup removed'
        BY <1>1, <1>2, <1>3, <2>1, <2>2 DEF BlocksByPlace, Holding
      <3>2. removed' \subseteq stage' \cup used' BY <1>1, <1>2, <2>1 DEF BlocksByPlace
      <3>3. rpc' \in Condemned => BlocksOf(rat') \subseteq free'
        BY <1>1, <1>2 DEF BlocksByPlace, Condemned
      <3> QED BY <3>1, <3>2, <3>3 DEF BlocksByPlace, Holding, Condemned
    <2> QED BY <1>4, <2>5, <2>6 DEF BlocksInv
  <1>6. CASE GiveUp(t)
    <2>1. /\ pc[t] = "has" /\ pc'[t] = "idle" /\ block'[t] = None
          /\ removed' = removed \cup {block[t]} /\ UNCHANGED stage
      BY <1>1, <1>6 DEF GiveUp, Goto, TypeOK
    <2>2. block[t] # None /\ block[t] \in Blocks /\ block[t] \notin free
      BY <1>1, <2>1 DEF BlocksByPlace, TypeOK
    <2>3. InHand' = InHand
      <3>1. {u \in Threads : pc'[u] \in {"push", "growPush"}}
              = {u \in Threads : pc[u] \in {"push", "growPush"}}
        BY <1>3, <2>1
      <3> QED BY <1>3, <2>1, <3>1 DEF InHand
    <2>4. block[t] \in stage \cup used
      <3>1. block[t] \notin InHand BY <1>1, <2>1, <2>2 DEF InHand, BlocksOnce
      <3> QED BY <1>1, <2>2, <3>1 DEF BlocksOnce
    <2>5. \A u \in Threads \ {t} : block[u] # block[t] BY <1>1, <2>2 DEF BlocksOnce
    <2>6. BlocksOnce' BY <1>1, <1>2, <1>3, <2>1, <2>3 DEF BlocksOnce
    <2>7. BlocksByPlace'
      <3>1. ASSUME NEW u \in Threads
            PROVE  /\ pc'[u] \in Holding <=> block'[u] # None
                   /\ pc'[u] = "push" => block'[u] \in BlocksOf(at'[u])
                   /\ pc'[u] = "growPush" =>
                          node'[Head] # None /\ block'[u] \in BlocksOf(node'[Head])
                   /\ block'[u] # None => block'[u] \notin free' \cup removed'
        BY <1>1, <1>2, <1>3, <2>1, <2>5 DEF BlocksByPlace, Holding
      <3>2. removed' \subseteq stage' \cup used' BY <1>1, <1>2, <2>1, <2>4 DEF BlocksByPlace
      <3>3. rpc' \in Condemned => BlocksOf(rat') \subseteq free'
        BY <1>1, <1>2 DEF BlocksByPlace, Condemned
      <3> QED BY <3>1, <3>2, <3>3 DEF BlocksByPlace, Holding, Condemned
    <2> QED BY <1>4, <2>6, <2>7 DEF BlocksInv
  <1> QED BY <1>5, <1>6

\* The reader moves a block from stage_ to used_, or from used_ to free_.
LEMMA BlocksThroughReading ==
  ASSUME ListInv, TakeStaged \/ Recycle
  PROVE  BlocksInv'
  <1>1. BlocksByPlace /\ RetiredWhole /\ BlocksOnce BY DEF ListInv
  <1>2. /\ UNCHANGED <<node, pool, pc, at, block, rpc, rat>> /\ rpc = "walk"
        /\ free \subseteq free' /\ removed' \subseteq removed
    BY DEF TakeStaged, Recycle, threadVars, readerVars
  <1>3. /\ free' \cup stage' \cup used' = free \cup stage \cup used
        /\ free' \cap stage' = {} /\ free' \cap used' = {} /\ stage' \cap used' = {}
    BY <1>1 DEF TakeStaged, Recycle, StagedIn, UsedIn, BlocksOnce
  <1>4. \A b \in free' : b \in free \/ b \in removed
    BY DEF TakeStaged, Recycle, UsedIn
  <1>5. removed' \subseteq stage' \cup used'
    <2>1. CASE TakeStaged BY <1>1, <2>1 DEF TakeStaged, BlocksByPlace
    <2>2. CASE Recycle
      <3>1. PICK b \in UsedIn(cur) \cap removed : used' = used \ {b} /\ removed' = removed \ {b}
        BY <2>2 DEF Recycle
      <3> QED BY <1>1, <2>2, <3>1 DEF Recycle, BlocksByPlace
    <2> QED BY <2>1, <2>2
  <1>6. InHand' = InHand BY <1>2 DEF InHand
  <1>7. BlocksOnce' BY <1>1, <1>2, <1>3, <1>6 DEF BlocksOnce
  <1>8. RetiredWhole' BY <1>1, <1>2 DEF RetiredWhole
  <1>9. BlocksByPlace'
    <2>1. \A t \in Threads : block[t] # None => block[t] \notin free' \cup removed'
      BY <1>1, <1>2, <1>4 DEF BlocksByPlace
    <2> QED BY <1>1, <1>2, <1>5, <2>1 DEF BlocksByPlace
  <1> QED BY <1>7, <1>8, <1>9 DEF BlocksInv

LEMMA BlocksStep == ListInv /\ [Next]_vars => BlocksInv'
  <1> SUFFICES ASSUME ListInv, [Next]_vars PROVE BlocksInv' OBVIOUS
  <1>1. BlocksByPlace /\ RetiredWhole /\ TypeOK BY DEF ListInv
  <1>2. rpc \in Condemned => BlocksOf(rat) \subseteq free
    BY <1>1 DEF BlocksByPlace, Condemned
  <1>3. \A g \in pool : BlocksOf(g) \subseteq free BY <1>1 DEF RetiredWhole
  <1>4. ASSUME NEW t \in Threads,
               First(t) \/ LockNext(t) \/ Hop(t) \/ Unlock(t) \/ Grow(t) \/ GrowUnlock(t)
        PROVE  BlocksInv'
    <2>1. UNCHANGED <<lists, block, node, pool, rpc, rat>>
      BY <1>4 DEF First, LockNext, Hop, Unlock, Grow, GrowUnlock, readerVars
    <2>2. ASSUME NEW u \in Threads
          PROVE  /\ pc'[u] \in Holding <=> pc[u] \in Holding
                 /\ pc'[u] = "push" <=> pc[u] = "push"
                 /\ pc'[u] = "growPush" <=> pc[u] = "growPush"
                 /\ pc[u] = "push" => at'[u] = at[u]
      BY <1>1, <1>4 DEF First, LockNext, Hop, Unlock, Grow, GrowUnlock, Goto, Holding, TypeOK
    <2> QED BY <1>2, <1>3, <2>1, <2>2, BlocksSame
  <1>5. ASSUME LeaveGroup \/ Locking \/ Deleting \/ Step \/ UNCHANGED vars PROVE BlocksInv'
    <2>1. UNCHANGED <<lists, block, pc, at>>
      BY <1>5 DEF LeaveGroup, Locking, LockFirst, Seek, SeekHop, Deleting, Decide, PassThrough,
                  Unlink, Retire, Step, vars, threadVars
    <2>2. rpc' \in Condemned => BlocksOf(rat') \subseteq free
      <3>1. CASE Decide
        BY <1>1, <3>1, AllFree DEF Decide, Condemned
      <3>2. CASE PassThrough \/ Unlink \/ UNCHANGED vars
        BY <1>2, <3>2 DEF PassThrough, Unlink, vars, readerVars, Condemned
      <3>3. CASE LeaveGroup \/ Locking \/ Retire \/ Step
        BY <3>3 DEF LeaveGroup, Locking, LockFirst, Seek, SeekHop, Retire, Step, Condemned
      <3> QED BY <1>5, <3>1, <3>2, <3>3 DEF Deleting
    <2>3. \A g \in pool' : BlocksOf(g) \subseteq free
      <3>1. CASE Retire BY <1>2, <1>3, <3>1 DEF Retire, Condemned
      <3>2. CASE ~Retire
        BY <1>3, <1>5, <3>2
           DEF LeaveGroup, Locking, LockFirst, Seek, SeekHop, Deleting, Decide, PassThrough,
               Unlink, Step, vars
      <3> QED BY <3>1, <3>2
    <2>4. \A t \in Threads : pc[t] = "growPush" => node'[Head] = node[Head]
      <3>1. CASE Unlink
        <4> SUFFICES ASSUME NEW t \in Threads, pc[t] = "growPush" PROVE node'[Head] = node[Head]
          OBVIOUS
        <4>1. t \in writes[Head] BY DEF ListInv, LocksByPlace, Growing, Pointers
        <4>2. Reader \in writes[rbehind] /\ rbehind \in Pointers
          BY <3>1, Places DEF Unlink, ListInv, LocksByPlace, Removing
        <4>3. rbehind # Head
          BY <4>1, <4>2, GroupListAssumption DEF ListInv, LocksByPlace
        <4> QED BY <3>1, <4>3, UnlinkList DEF Pointers
      <3>2. CASE ~Unlink
        BY <1>5, <3>2
           DEF LeaveGroup, Locking, LockFirst, Seek, SeekHop, Deleting, Decide, PassThrough,
               Retire, Step, vars
      <3> QED BY <3>1, <3>2
    <2> QED BY <2>1, <2>2, <2>3, <2>4, BlocksSame
  <1> QED
    BY <1>4, <1>5, BlocksThroughTaking, BlocksThroughGiving, BlocksThroughReading
       DEF Next, Alloc, Read

-----------------------------------------------------------------------------
(***************************************************************************)
(* The theorems.                                                           *)
(***************************************************************************)

\* The inductive invariant: links, places, locks and blocks fit together in
\* every state of group_list, for any threads, groups and blocks in a group.
THEOREM ListInvariant == Spec => []ListInv
  <1>1. ListInv /\ [Next]_vars => ListInv'
    BY TypeStep, LocksStep, ListStep, WalkersStep, ReaderStep, BlocksStep
       DEF ListInv, BlocksInv
  <1> QED BY <1>1, InitSound, PTL DEF Spec

\* Links, locks and the variables of threads and reader keep their types.
THEOREM ListTypes == Spec => []TypeOK
  <1>1. ListInv => TypeOK BY DEF ListInv
  <1> QED BY <1>1, ListInvariant, PTL

\* The list is never torn by insertions at the head next to deletions, and what
\* rt_try_traverse_to_next_group reads without a lock is right when it is used.
THEOREM ListStaysSound == Spec => []ListIsSound
  <1>1. ListInv => ListIsSound BY DEF ListInv, ListIsSound
  <1> QED BY <1>1, ListInvariant, PTL

\* No block goes with a deleted group, none is in two lists or has two owners.
THEOREM BlocksStay == Spec => []NoBlockIsLost
  <1>1. ListInv => NoBlockIsLost BY DEF ListInv, NoBlockIsLost
  <1> QED BY <1>1, ListInvariant, PTL

\* delete_and_unlock_thread_unsafe lets nobody stay inside a group, nor hold
\* its lock, when the group goes to the pool.
THEOREM RetiredAreLeft == Spec => []NobodyInRetired
  <1>1. ListInv => NobodyInRetired
    <2> SUFFICES ASSUME ListInv, NEW t \in Threads
                 PROVE  /\ at[t] \notin pool /\ behind[t] \notin pool
                        /\ \A g \in pool : t \notin reads[g] /\ t \notin writes[g]
      BY DEF NobodyInRetired
    <2>1. pool \subseteq Groups /\ None \notin pool /\ Head \notin pool
      BY GroupListAssumption DEF ListInv, TypeOK
    <2>2. \A g \in InList : g \notin pool BY DEF ListInv, ListWhole
    <2>3. pc[t] \in Walking => at[t] \notin pool /\ behind[t] \notin pool
      BY <2>1, <2>2, Places
    <2>4. pc[t] \notin Walking => at[t] = None /\ behind[t] = None
      BY DEF ListInv, WalkersInList
    <2>5. \A g \in pool : t \notin reads[g] /\ t \notin writes[g]
      BY <2>1, <2>3 DEF ListInv, LocksByPlace, Pointers, Walking
    <2> QED BY <2>1, <2>3, <2>4, <2>5
  <1> QED BY <1>1, ListInvariant, PTL
=============================================================================
