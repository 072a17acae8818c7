--------------------------- MODULE OversizeProofs ---------------------------
(***************************************************************************)
(* OversizeBuffers for any threads, buffers and room, any range of         *)
(* versions that is less than half of what is counted, any number of       *)
(* records and of deaths: what the reader hands out for a parent is its    *)
(* own data, whole and in order, the data of a parent that is due is never *)
(* missing, and nobody loses the buffer he uses.                           *)
(*                                                                         *)
(* A parent finds its data by version, thread and number.  These three are *)
(* given out again, to records of a later process when the versions have   *)
(* wrapped and to the next record when no buffer could be made; that they  *)
(* still name one record is what RingSound and BuffersSound say together.  *)
(* That the data is still there when the parent is due is the second half, *)
(* DataInv: no number that the ring still needs is passed, so nothing that *)
(* a search or the recycler drops as overdue belongs to a parent.          *)
(***************************************************************************)
EXTENDS OversizeBuffers, WellFoundedInduction, TLAPS

-----------------------------------------------------------------------------
(***************************************************************************)
(* Versions.                                                               *)
(***************************************************************************)

LEMMA Constants ==
  /\ V \in Nat /\ Span \in Nat /\ Span >= 1 /\ V > 2 * Span + 1 /\ V > 3
  BY OversizeAssumption

\* Differences that are counted modulo V.
LEMMA ModDiff ==
  ASSUME NEW v \in Version, NEW u \in Version
  PROVE  (v - u) % V = IF u <= v THEN v - u ELSE v - u + V
  <1>1. v \in Nat /\ u \in Nat /\ v < V /\ u < V /\ V \in Nat \ {0}
    BY Constants DEF Version
  <1>2. CASE u <= v
    <2>1. v - u \in Nat /\ v - u < V BY <1>1, <1>2
    <2> QED BY <1>1, <1>2, <2>1
  <1>3. CASE ~(u <= v)
    <2>1. v - u + V \in Nat /\ v - u + V < V BY <1>1, <1>3
    <2>2. (v - u + V) % V = v - u + V BY <1>1, <2>1
    <2> QED BY <1>1, <1>3, <2>1, <2>2
  <1> QED BY <1>2, <1>3

LEMMA NextVer ==
  ASSUME NEW v \in Version
  PROVE  /\ (v + 1) % V = IF v = V - 1 THEN 0 ELSE v + 1
         /\ (v + 1) % V \in Version
  <1>1. v \in Int /\ 0 <= v /\ v < V /\ V \in Nat \ {0} BY Constants DEF Version
  <1>2. CASE v = V - 1
    <2>1. v + 1 = V BY <1>1, <1>2
    <2>2. V % V = 0 BY <1>1
    <2> QED BY <1>1, <1>2, <2>1, <2>2 DEF Version
  <1>3. CASE v # V - 1
    <2>1. v + 1 \in Nat /\ v + 1 < V BY <1>1, <1>3
    <2>2. (v + 1) % V = v + 1 BY <1>1, <2>1
    <2>3. v + 1 \in Version BY <1>1, <2>1 DEF Version
    <2> QED BY <1>3, <2>2, <2>3
  <1> QED BY <1>2, <1>3

LEMMA PreviousVer ==
  ASSUME NEW v \in Version, NEW u, u = (v - Span) % V
  PROVE  u \in Version /\ (v - u) % V = Span
  <1>1. /\ v \in Int /\ 0 <= v /\ v < V /\ V \in Nat \ {0} /\ Span \in Nat /\ Span < V
    BY Constants DEF Version
  <1>2. Span \in Version BY <1>1 DEF Version
  <1>3. u = IF Span <= v THEN v - Span ELSE v - Span + V BY <1>1, <1>2, ModDiff
  <1>4. u \in Version BY <1>1, <1>3 DEF Version
  <1>5. (v - u) % V = IF u <= v THEN v - u ELSE v - u + V BY <1>4, ModDiff
  <1>6. (v - u) % V = Span BY <1>1, <1>3, <1>5
  <1> QED BY <1>4, <1>6

\* How old u is when the version is v: what Age counts.
Old(v, u) == (v - u) % V

LEMMA OldVersions ==
  ASSUME NEW v \in Version, NEW u \in Version
  PROVE  /\ Old(v, u) \in 0..(V - 1) /\ Old(v, v) = 0 /\ (Old(v, u) = 0 => u = v)
         /\ Old(v, (v + 1) % V) = V - 1 /\ (v + 1) % V # v
  <1>1. v \in Int /\ u \in Int /\ 0 <= v /\ 0 <= u /\ v < V /\ u < V /\ V \in Int /\ V > 3
    BY Constants DEF Version
  <1>2. Old(v, u) = IF u <= v THEN v - u ELSE v - u + V
    BY ModDiff DEF Old
  <1>3. Old(v, u) \in 0..(V - 1) /\ (Old(v, u) = 0 => u = v) BY <1>1, <1>2
  <1>4. Old(v, v) = 0
    <2>1. Old(v, v) = v - v BY <1>1, ModDiff DEF Old
    <2> QED BY <1>1, <2>1
  <1> DEFINE w == (v + 1) % V
  <1>5. w \in Version /\ w = IF v = V - 1 THEN 0 ELSE v + 1 BY NextVer
  <1> HIDE DEF w
  <1>6. Old(v, w) = IF w <= v THEN v - w ELSE v - w + V BY <1>5, ModDiff DEF Old
  <1>7. Old(v, w) = V - 1 /\ w # v BY <1>1, <1>5, <1>6
  <1> QED BY <1>3, <1>4, <1>7 DEF w

\* A version ages by one as the process dies, one that is as old as can be is
\* the new one; and the next one is younger by one.
LEMMA Ageing ==
  ASSUME NEW v \in Version, NEW u \in Version
  PROVE  /\ u # (v + 1) % V => Old((v + 1) % V, u) = Old(v, u) + 1
         /\ Old(v, u) <= Span => u # (v + 1) % V
         /\ u # v => Old(v, (u + 1) % V) = Old(v, u) - 1
  <1>1. v \in Int /\ u \in Int /\ 0 <= v /\ 0 <= u /\ v < V /\ u < V /\ V \in Int /\ V > 3
    BY Constants DEF Version
  <1> DEFINE w == (v + 1) % V
             x == (u + 1) % V
  <1>2. w \in Version /\ w = IF v = V - 1 THEN 0 ELSE v + 1 BY NextVer
  <1>3. x \in Version /\ x = IF u = V - 1 THEN 0 ELSE u + 1 BY NextVer
  <1>4. Old(v, w) = V - 1 BY OldVersions
  <1> HIDE DEF w, x
  <1>5. Old(v, u) = IF u <= v THEN v - u ELSE v - u + V BY ModDiff DEF Old
  <1>6. Old(w, u) = IF u <= w THEN w - u ELSE w - u + V BY <1>2, ModDiff DEF Old
  <1>7. Old(v, x) = IF x <= v THEN v - x ELSE v - x + V BY <1>3, ModDiff DEF Old
  <1>8. u # w => Old(w, u) = Old(v, u) + 1 BY <1>1, <1>2, <1>5, <1>6
  <1>9. u # v => Old(v, x) = Old(v, u) - 1 BY <1>1, <1>3, <1>5, <1>7
  <1>10. Old(v, u) <= Span => u # w BY <1>4, Constants
  <1> QED BY <1>8, <1>9, <1>10 DEF w, x

LEMMA RangeIsOld ==
  ASSUME NEW u
  PROVE  InRange(u) <=> Old(version, u) <= Span
  BY DEF InRange, Age, Old

-----------------------------------------------------------------------------
(***************************************************************************)
(* Sequences that lose their front, or their last.                         *)
(***************************************************************************)

\* A set of numbers that is not empty has a smallest.
LEMMA Smallest ==
  ASSUME NEW S \in SUBSET Nat, S # {}
  PROVE  \E n \in S : \A m \in S : n <= m
  <1>1. IsWellFoundedOn(OpToRel(<, Nat), Nat) BY NatLessThanWellFounded
  <1>2. PICK n \in S : \A m \in Nat : <<m, n>> \in OpToRel(<, Nat) => m \notin S
    BY <1>1, WFMin
  <1>3. ASSUME NEW m \in S PROVE n <= m
    <2>1. CASE m < n
      <3>1. <<m, n>> \in OpToRel(<, Nat) BY <2>1 DEF OpToRel
      <3> QED BY <3>1, <1>2
    <2> QED BY <2>1
  <1> QED BY <1>3

\* What is left of a sequence from its first good place on: what Cut and
\* Purged leave of a buffer.
Kept(cs, good) ==
  IF good = {} THEN <<>> ELSE SubSeq(cs, CHOOSE n \in good : \A m \in good : n <= m, Len(cs))

LEMMA KeptOf ==
  ASSUME NEW S, NEW cs \in Seq(S), NEW good \in SUBSET (DOMAIN cs)
  PROVE  /\ Kept(cs, good) \in Seq(S) /\ Len(Kept(cs, good)) <= Len(cs)
         /\ \A n \in DOMAIN Kept(cs, good) : \E k \in DOMAIN cs : Kept(cs, good)[n] = cs[k]
         /\ (cs # <<>> /\ Len(cs) \in good) =>
              /\ Kept(cs, good) # <<>>
              /\ Kept(cs, good)[Len(Kept(cs, good))] = cs[Len(cs)]
  <1>1. CASE good = {} BY <1>1 DEF Kept
  <1>2. CASE good # {}
    <2> DEFINE n == CHOOSE n \in good : \A m \in good : n <= m
               r == SubSeq(cs, n, Len(cs))
    <2>1. good \in SUBSET Nat OBVIOUS
    <2>2. n \in good /\ \A m \in good : n <= m BY <1>2, <2>1, Smallest
    <2> HIDE DEF n
    <2>3. n \in 1..Len(cs) BY <2>2
    <2>4. r \in Seq(S) /\ Len(r) = Len(cs) - n + 1 BY <2>3
    <2>5. \A i \in 1..Len(r) : r[i] = cs[n + i - 1] BY <2>3
    <2>6. \A i \in DOMAIN r : n + i - 1 \in DOMAIN cs BY <2>3, <2>4
    <2>7. \A i \in DOMAIN r : \E k \in DOMAIN cs : r[i] = cs[k] BY <2>4, <2>5, <2>6
    <2>8. Len(r) >= 1 /\ n + Len(r) - 1 = Len(cs) BY <2>3, <2>4
    <2>9. r[Len(r)] = cs[Len(cs)] /\ r # <<>>
      <3>1. Len(r) \in 1..Len(r) BY <2>3, <2>4, <2>8
      <3>2. r[Len(r)] = cs[n + Len(r) - 1] BY <2>5, <3>1
      <3>3. r[Len(r)] = cs[Len(cs)] BY <2>8, <3>2
      <3>4. r # <<>>
        <4> HIDE DEF r
        <4>1. Len(r) # 0 BY <2>4, <2>8
        <4>2. Len(<<>>) = 0 OBVIOUS
        <4> QED BY <4>1, <4>2
      <3> QED BY <3>3, <3>4
    <2>10. Kept(cs, good) = r BY <1>2 DEF Kept, n
    <2> QED BY <2>3, <2>4, <2>7, <2>9, <2>10
  <1> QED BY <1>1, <1>2

LEMMA FrontOf ==
  ASSUME NEW S, NEW cs \in Seq(S), cs # <<>>
  PROVE  /\ Front(cs) \in Seq(S) /\ Len(Front(cs)) <= Len(cs)
         /\ \A n \in DOMAIN Front(cs) : n \in DOMAIN cs /\ Front(cs)[n] = cs[n]
  BY DEF Front

LEMMA SeqMember ==
  ASSUME NEW S, NEW cs \in Seq(S), NEW i \in DOMAIN cs
  PROVE  cs[i] \in S
  OBVIOUS

LEMMA TailOf ==
  ASSUME NEW S, NEW cs \in Seq(S), cs # <<>>
  PROVE  /\ Tail(cs) \in Seq(S) /\ Len(Tail(cs)) = Len(cs) - 1
         /\ \A n \in DOMAIN Tail(cs) : n + 1 \in DOMAIN cs /\ n + 1 > 1 /\ Tail(cs)[n] = cs[n + 1]
         /\ \A k \in DOMAIN cs : k # 1 => k - 1 \in DOMAIN Tail(cs) /\ Tail(cs)[k - 1] = cs[k]
  OBVIOUS

-----------------------------------------------------------------------------
(***************************************************************************)
(* What the invariant says of a thread inside a call, and of the head.     *)
(***************************************************************************)

LEMMA MineIs ==
  ASSUME OversizeInv, NEW t \in Threads, pc[t] # "idle"
  PROVE  /\ Mine(t) \in DOMAIN ring /\ ring[Mine(t)].t = t /\ ~ring[Mine(t)].done
         /\ ring[Mine(t)].ver = version /\ ring[Mine(t)].seq = writeSeq[t] - 1
         /\ ring[Mine(t)].id \in 1..Len(born) /\ ring[Mine(t)].seq \in Nat
         /\ \A i \in DOMAIN ring : ring[i].t = t /\ ~ring[i].done => i = Mine(t)
  <1>1. \E i \in DOMAIN ring : ring[i].t = t /\ ~ring[i].done BY DEF OversizeInv, RingSound
  <1>2. Mine(t) \in DOMAIN ring /\ ring[Mine(t)].t = t /\ ~ring[Mine(t)].done BY <1>1 DEF Mine
  <1> DEFINE m == Mine(t)
  <1> HIDE DEF m
  <1>3. EntrySound(ring[m]) BY <1>2 DEF OversizeInv, RingSound, m
  <1>4. ring[m] \in Items BY <1>2 DEF OversizeInv, TypeOK, m
  <1>5. /\ ring[m].ver = version /\ ring[m].seq = writeSeq[t] - 1 /\ ring[m].id \in 1..Len(born)
        /\ ring[m].seq \in Nat
    BY <1>2, <1>3, <1>4 DEF EntrySound, Items, m
  <1>6. \A i \in DOMAIN ring : ring[i].t = t /\ ~ring[i].done => i = m
    BY <1>2 DEF OversizeInv, RingSound, m
  <1> QED BY <1>2, <1>5, <1>6 DEF m

\* What a reader accepts is committed.
LEMMA ValidIsWhole ==
  ASSUME OversizeInv, HeadIs("valid")
  PROVE  /\ ring # <<>> /\ 1 \in DOMAIN ring /\ Head(ring) = ring[1] /\ ring[1] \in Items
         /\ ring[1].done /\ ring[1].ver = reading /\ ring[1].id \in whole
         /\ ring[1].id \in 1..Len(born)
  <1>1. ring # <<>> /\ Head(ring).done /\ "valid" \in Verdicts(Head(ring)) BY DEF HeadIs, HasHead
  <1>2. ring \in Seq(Items) BY DEF OversizeInv, TypeOK
  <1>3. 1 \in DOMAIN ring /\ Head(ring) = ring[1] /\ ring[1] \in Items BY <1>1, <1>2
  <1>4. ring[1].ver = reading BY <1>1, <1>3 DEF Verdicts
  <1>5. InRange(ring[1].ver) BY <1>4 DEF OversizeInv, ReaderSound
  <1>6. EntrySound(ring[1]) BY <1>3 DEF OversizeInv, RingSound
  <1> QED BY <1>1, <1>3, <1>4, <1>5, <1>6 DEF EntrySound

-----------------------------------------------------------------------------
(***************************************************************************)
(* What stays true when buffers shrink, the ring loses its head, or more   *)
(* is handed out.                                                          *)
(***************************************************************************)

LEMMA RingKept ==
  ASSUME OversizeInv, UNCHANGED <<version, ring, pc, writeSeq, whole, born>>
  PROVE  RingSound'
  BY DEF OversizeInv, RingSound, EntrySound, InRange, Age

Shrunk(x, y) ==
  /\ x \in Buffers /\ x.ver = y.ver /\ x.t = y.t
  /\ Len(x.chunks) <= Len(y.chunks)
  /\ \A n \in DOMAIN x.chunks : \E k \in DOMAIN y.chunks : x.chunks[n] = y.chunks[k]
  /\ Unfinished(y) => Unfinished(x)
BufsShrink ==
  /\ bufs' \in [Slots -> Buffers \cup {None}]
  /\ \A s \in Slots : bufs'[s] # None => bufs[s] # None /\ Shrunk(bufs'[s], bufs[s])
  /\ \A s \in Live : Unfinished(bufs[s]) => bufs'[s] # None
RingShrinks == \A i \in DOMAIN ring' : \E k \in DOMAIN ring : ring'[i] = ring[k]

LEMMA BuffersShrink ==
  ASSUME OversizeInv, BufsShrink, RingShrinks, UNCHANGED <<version, pc, filling, writeSeq>>
  PROVE  /\ BuffersSound' /\ FillersHold'
         /\ \A s \in Live' : Len(bufs'[s].chunks) <= Room
  <1> DEFINE b(s) == bufs[s]
  <1>1. ASSUME NEW s \in Slots, bufs'[s] # None
        PROVE  s \in Live /\ Shrunk(bufs'[s], bufs[s])
    BY <1>1 DEF BufsShrink, Live
  <1>2. ASSUME NEW s \in Slots, bufs'[s] # None
        PROVE  (InRange(bufs[s].ver))'
    BY <1>1, <1>2 DEF Shrunk, OversizeInv, BuffersSound, InRange, Age
  <1>3. ASSUME NEW s \in Slots, bufs'[s] # None, NEW n \in DOMAIN bufs'[s].chunks
        PROVE  ChunkSound(bufs[s], bufs[s].chunks[n])'
    <2>1. s \in Live /\ Shrunk(bufs'[s], bufs[s]) BY <1>1, <1>3
    <2>2. PICK k \in DOMAIN bufs[s].chunks : bufs'[s].chunks[n] = bufs[s].chunks[k]
      BY <2>1, <1>3 DEF Shrunk
    <2> DEFINE c == bufs[s].chunks[k]
    <2>3. ChunkSound(bufs[s], c) BY <2>1 DEF OversizeInv, BuffersSound
    <2> HIDE DEF c
    <2>4. bufs'[s].chunks[n] = c BY <2>2 DEF c
    <2>5. bufs'[s].ver = bufs[s].ver /\ bufs'[s].t = bufs[s].t BY <2>1 DEF Shrunk
    <2>6. /\ c.ver = bufs'[s].ver /\ c.t = bufs'[s].t
          /\ c.ver = version' => c.seq < writeSeq'[c.t] /\ (pc'[c.t] = "seek" => c.seq < writeSeq'[c.t] - 1)
      BY <2>3, <2>5 DEF ChunkSound
    <2>7. ASSUME NEW i \in DOMAIN ring', ring'[i].ver = c.ver, ring'[i].t = c.t, ring'[i].seq = c.seq
          PROVE  ring'[i].id = c.id
      <3>1. PICK j \in DOMAIN ring : ring'[i] = ring[j] BY DEF RingShrinks
      <3> QED BY <2>3, <2>7, <3>1 DEF ChunkSound
    <2> QED BY <2>4, <2>6, <2>7 DEF ChunkSound
  <1>4. BuffersSound' BY <1>2, <1>3 DEF BuffersSound, Live
  <1>5. FillersHold'
    <2> SUFFICES ASSUME NEW t \in Threads, pc'[t] = "fill"
                 PROVE  filling'[t] \in Live' /\ bufs'[filling'[t]].t = t /\ Unfinished(bufs'[filling'[t]])
      BY DEF FillersHold, Unfinished
    <2> DEFINE s == filling[t]
    <2> HIDE DEF s
    <2>1. s \in Live /\ bufs[s].t = t /\ Unfinished(bufs[s])
      BY DEF OversizeInv, FillersHold, s
    <2>2. s \in Slots /\ bufs'[s] # None BY <2>1 DEF BufsShrink, Live
    <2>3. Shrunk(bufs'[s], bufs[s]) BY <1>1, <2>2
    <2>4. filling'[t] = s BY DEF s
    <2> QED BY <2>1, <2>2, <2>3, <2>4 DEF Shrunk, Live
  <1>6. \A s \in Live' : Len(bufs'[s].chunks) <= Room
    <2> TAKE s \in Live'
    <2>1. s \in Slots /\ bufs'[s] # None BY DEF Live
    <2>2. s \in Live /\ Shrunk(bufs'[s], bufs[s]) BY <1>1, <2>1
    <2>3. Len(bufs[s].chunks) <= Room BY <2>2 DEF OversizeInv, TypeOK
    <2>4. bufs[s] \in Buffers BY <2>2 DEF OversizeInv, TypeOK, Live
    <2>5. Len(bufs[s].chunks) \in Nat BY <2>4 DEF Buffers
    <2>6. Len(bufs'[s].chunks) \in Nat /\ Len(bufs'[s].chunks) <= Len(bufs[s].chunks)
      BY <2>2 DEF Shrunk, Buffers
    <2> QED BY <2>3, <2>5, <2>6, OversizeAssumption
  <1> QED BY <1>4, <1>5, <1>6

LEMMA SameShrinks ==
  ASSUME OversizeInv, UNCHANGED bufs
  PROVE  BufsShrink
  <1>1. bufs \in [Slots -> Buffers \cup {None}] BY DEF OversizeInv, TypeOK
  <1>2. ASSUME NEW s \in Slots, bufs[s] # None PROVE Shrunk(bufs[s], bufs[s])
    <2>1. bufs[s] \in Buffers BY <1>1, <1>2
    <2>2. Len(bufs[s].chunks) \in Nat BY <2>1 DEF Buffers
    <2> QED BY <2>1, <2>2 DEF Shrunk
  <1> QED BY <1>1, <1>2 DEF BufsShrink, Live

LEMMA RingTail ==
  ASSUME OversizeInv, ring # <<>>, Head(ring).done, ring' = Tail(ring),
         UNCHANGED <<version, pc, writeSeq, whole, born>>
  PROVE  RingSound' /\ RingShrinks /\ ring' \in Seq(Items)
  <1>1. ring \in Seq(Items) BY DEF OversizeInv, TypeOK
  <1>2. /\ ring' \in Seq(Items)
        /\ \A i \in DOMAIN ring' : i + 1 \in DOMAIN ring /\ ring'[i] = ring[i + 1] /\ i \in Nat
        /\ \A k \in DOMAIN ring : k # 1 => k - 1 \in DOMAIN ring' /\ ring'[k - 1] = ring[k]
    BY <1>1, TailOf
  <1>3. RingShrinks BY <1>2 DEF RingShrinks
  <1>4. \A i \in DOMAIN ring' : EntrySound(ring[i])'
    <2> TAKE i \in DOMAIN ring'
    <2> DEFINE e == ring[i + 1]
    <2>1. EntrySound(e) BY <1>2 DEF OversizeInv, RingSound
    <2>2. ring'[i] = e BY <1>2
    <2> HIDE DEF e
    <2> QED BY <2>1, <2>2 DEF EntrySound, InRange, Age
  <1>5. \A i, j \in DOMAIN ring' : i < j => ring'[i].id < ring'[j].id
    <2> TAKE i, j \in DOMAIN ring'
    <2> HAVE i < j
    <2>1. i + 1 \in DOMAIN ring /\ j + 1 \in DOMAIN ring /\ i + 1 < j + 1 BY <1>2
    <2>2. ring[i + 1].id < ring[j + 1].id BY <2>1 DEF OversizeInv, RingSound
    <2> QED BY <1>2, <2>2
  <1>6. \A i, j \in DOMAIN ring' :
          ~ring'[i].done /\ ~ring'[j].done /\ ring'[i].t = ring'[j].t => i = j
    <2> TAKE i, j \in DOMAIN ring'
    <2> HAVE ~ring'[i].done /\ ~ring'[j].done /\ ring'[i].t = ring'[j].t
    <2>1. i + 1 \in DOMAIN ring /\ j + 1 \in DOMAIN ring BY <1>2
    <2>2. i + 1 = j + 1 BY <1>2, <2>1 DEF OversizeInv, RingSound
    <2> QED BY <1>2, <2>2
  <1>7. \A t \in Threads : pc'[t] # "idle" => \E i \in DOMAIN ring' : ring'[i].t = t /\ ~ring'[i].done
    <2> TAKE t \in Threads
    <2> HAVE pc'[t] # "idle"
    <2>1. PICK k \in DOMAIN ring : ring[k].t = t /\ ~ring[k].done BY DEF OversizeInv, RingSound
    <2>2. k # 1 BY <1>1, <2>1
    <2>3. k - 1 \in DOMAIN ring' /\ ring'[k - 1] = ring[k] BY <1>2, <2>2
    <2> QED BY <2>1, <2>3
  <1> QED BY <1>2, <1>3, <1>4, <1>5, <1>6, <1>7 DEF RingSound

\* The history, when nothing is handed out and the ring at most loses its head.
LEMMA OutKept ==
  ASSUME OversizeInv, UNCHANGED <<out, whole, born, deaths>>,
         (ring' = ring /\ (HeadInUse => HeadInUse')) \/ (ring # <<>> /\ ring' = Tail(ring))
  PROVE  OutSound'
  <1> SUFFICES ASSUME NEW i \in DOMAIN out, out[i].life = deaths, NEW k \in DOMAIN ring'
               PROVE  out[i].id <= ring'[k].id /\ (out[i].id = ring'[k].id => HeadInUse')
    BY DEF OversizeInv, OutSound
  <1>1. ring \in Seq(Items) BY DEF OversizeInv, TypeOK
  <1>2. CASE ring' = ring /\ (HeadInUse => HeadInUse')
    BY <1>2 DEF OversizeInv, OutSound
  <1>3. CASE ring # <<>> /\ ring' = Tail(ring)
    <2>1. k + 1 \in DOMAIN ring /\ 1 < k + 1 /\ ring'[k] = ring[k + 1] /\ 1 \in DOMAIN ring
      BY <1>1, <1>3, TailOf
    <2>2. ring[1].id < ring[k + 1].id BY <2>1 DEF OversizeInv, RingSound
    <2>3. out[i].id <= ring[1].id BY <2>1 DEF OversizeInv, OutSound
    <2>4. ring[1].id \in Nat /\ ring[k + 1].id \in Nat
      <3>1. ring[1] \in Items /\ ring[k + 1] \in Items BY <1>1, <2>1
      <3> QED BY <3>1 DEF Items
    <2>5. out[i].id \in Nat BY DEF OversizeInv, OutSound
    <2>6. out[i].id < ring'[k].id BY <2>1, <2>2, <2>3, <2>4, <2>5
    <2>7. ring'[k].id \in Nat BY <2>1, <2>4
    <2> QED BY <2>5, <2>6, <2>7
  <1> QED BY <1>2, <1>3

\* The history, when the head is handed out.
LEMMA OutMore ==
  ASSUME OversizeInv, rpc = "ring", HeadIs("valid"), HeadInUse',
         NEW c, c.id = ring[1].id, c.t \in Threads, HandOut(c),
         UNCHANGED <<ring, whole, born, deaths>>
  PROVE  OutSound' /\ out' \in Seq([id : Nat, parent : Nat, t : Threads, life : Nat])
  <1> DEFINE o == [id |-> c.id, parent |-> Head(ring).id, t |-> c.t, life |-> deaths]
             n == Len(out)
  <1>1. /\ Head(ring) = ring[1] /\ 1 \in DOMAIN ring /\ ring[1] \in Items
        /\ ring[1].id \in whole /\ ring[1].id \in 1..Len(born)
    BY ValidIsWhole
  <1>2. out \in Seq([id : Nat, parent : Nat, t : Threads, life : Nat]) /\ deaths \in Nat
    BY DEF OversizeInv, TypeOK
  <1>3. ring[1].id \in Nat BY <1>1 DEF Items
  <1>4. o \in [id : Nat, parent : Nat, t : Threads, life : Nat] BY <1>1, <1>2, <1>3
  <1>5. out' = Append(out, o) BY DEF HandOut
  <1>6. o.id = ring[1].id /\ o.parent = ring[1].id /\ o.life = deaths BY <1>1
  <1> HIDE DEF o
  <1>7. out' \in Seq([id : Nat, parent : Nat, t : Threads, life : Nat]) BY <1>2, <1>4, <1>5
  <1>8. DOMAIN out' = 1..(n + 1) /\ DOMAIN out = 1..n /\ n \in Nat BY <1>2, <1>4, <1>5
  <1>9. out'[n + 1] = o /\ \A i \in 1..n : out'[i] = out[i] BY <1>2, <1>4, <1>5
  <1> HIDE DEF n
  <1>10. \A k \in DOMAIN ring : ring[1].id <= ring[k].id
    <2> TAKE k \in DOMAIN ring
    <2>1. CASE k = 1 BY <1>3, <2>1
    <2>2. CASE k # 1
      <3>1. ring \in Seq(Items) BY DEF OversizeInv, TypeOK
      <3>2. 1 < k /\ ring[k].id \in Nat
        <4>1. 1 < k /\ ring[k] \in Items BY <2>2, <3>1
        <4> QED BY <4>1 DEF Items
      <3>3. ring[1].id < ring[k].id BY <1>1, <3>2 DEF OversizeInv, RingSound
      <3> QED BY <1>3, <3>2, <3>3
    <2> QED BY <2>1, <2>2
  <1>11. \A i \in 1..n : out[i].life = deaths => out[i].id < ring[1].id
    <2> TAKE i \in 1..n
    <2> HAVE out[i].life = deaths
    <2>1. out[i].id <= ring[1].id /\ (out[i].id = ring[1].id => HeadInUse) /\ out[i].id \in Nat
      BY <1>1, <1>8 DEF OversizeInv, OutSound
    <2>2. ~HeadInUse BY DEF HeadInUse
    <2> QED BY <1>3, <2>1, <2>2
  <1>12. ASSUME NEW i \in DOMAIN out'
         PROVE  /\ out'[i].id = out'[i].parent /\ out'[i].id \in whole /\ out'[i].id \in 1..Len(born)
                /\ out'[i].life <= deaths
                /\ out'[i].life = deaths => \A k \in DOMAIN ring :
                     out'[i].id <= ring[k].id /\ (out'[i].id = ring[k].id => HeadInUse')
    <2>1. CASE i = n + 1 BY <1>1, <1>2, <1>6, <1>9, <1>10, <2>1
    <2>2. CASE i # n + 1
      <3>1. i \in DOMAIN out /\ out'[i] = out[i] BY <1>8, <1>9, <2>2
      <3> QED BY <3>1 DEF OversizeInv, OutSound
    <2> QED BY <2>1, <2>2
  <1>13. ASSUME NEW j \in DOMAIN out', NEW i \in 1..(j - 1), out'[i].life = out'[j].life
         PROVE  out'[i].id < out'[j].id
    <2>1. i \in 1..n /\ out'[i] = out[i] BY <1>8, <1>9, <1>13
    <2>2. CASE j = n + 1 BY <1>6, <1>9, <1>11, <1>13, <2>1, <2>2
    <2>3. CASE j # n + 1
      <3>1. j \in DOMAIN out /\ out'[j] = out[j] BY <1>8, <1>9, <2>3
      <3> QED BY <1>13, <2>1, <3>1 DEF OversizeInv, OutSound
    <2> QED BY <2>2, <2>3
  <1> QED BY <1>7, <1>12, <1>13 DEF OutSound

-----------------------------------------------------------------------------
(***************************************************************************)
(* The reader's steps.                                                     *)
(***************************************************************************)

\* The steps that change no more than where the reader is and which version
\* it reads.
LEMMA QuietStep ==
  ASSUME OversizeInv, Begin \/ LeaveRing \/ RecycleLater \/ NextVersion \/ AnswerEmpty
  PROVE  OversizeInv'
  <1>1. UNCHANGED <<version, ring, bufs, threadVars, target, out, deaths>>
    BY DEF Begin, LeaveRing, RecycleLater, NextVersion, AnswerEmpty
  <1>2. ~HeadInUse /\ ~HeadInUse' /\ rpc' \in {"idle", "ring", "recycle", "end"}
    BY DEF Begin, LeaveRing, RecycleLater, NextVersion, AnswerEmpty, HeadInUse
  <1>3. reading' \in Version /\ InRange(reading)'
    <2>1. reading \in Version /\ version \in Version /\ InRange(reading)
      BY DEF OversizeInv, TypeOK, ReaderSound
    <2>2. CASE reading' = reading BY <1>1, <2>1, <2>2 DEF InRange, Age
    <2>3. CASE NextVersion
      <3>1. reading # version /\ reading' = (reading + 1) % V BY <2>3 DEF NextVersion
      <3> DEFINE w == (reading + 1) % V
      <3>2. w \in Version BY <2>1, NextVer
      <3>3. Old(version, w) = Old(version, reading) - 1 BY <2>1, <3>1, Ageing
      <3>4. Old(version, reading) \in 0..(V - 1) BY <2>1, OldVersions
      <3>5. Old(version, reading) <= Span BY <2>1, RangeIsOld
      <3> HIDE DEF w
      <3>6. Old(version, w) <= Span BY <3>3, <3>4, <3>5, Constants
      <3>7. reading' = w /\ version' = version BY <1>1, <3>1 DEF w
      <3> QED BY <3>2, <3>6, <3>7 DEF InRange, Age, Old
    <2> QED BY <2>2, <2>3 DEF Begin, LeaveRing, RecycleLater, AnswerEmpty
  <1>4. TypeOK'
    BY <1>1, <1>2, <1>3 DEF OversizeInv, TypeOK, threadVars, Live
  <1>5. RingSound' BY <1>1, RingKept DEF threadVars
  <1>6. BuffersSound' /\ FillersHold'
    <2>1. RingShrinks BY <1>1 DEF RingShrinks
    <2> QED BY <1>1, <2>1, SameShrinks, BuffersShrink DEF threadVars
  <1>7. ReaderSound' BY <1>2, <1>3 DEF ReaderSound, HeadInUse
  <1>8. OutSound' BY <1>1, <1>2, OutKept DEF threadVars
  <1> QED BY <1>4, <1>5, <1>6, <1>7, <1>8 DEF OversizeInv

LEMMA ReadSmallStep ==
  ASSUME OversizeInv, ReadSmall
  PROVE  OversizeInv'
  <1>1. /\ UNCHANGED <<version, ring, bufs, threadVars, reading, target, deaths>>
        /\ rpc = "ring" /\ rpc' = "small" /\ HeadIs("valid")
    BY DEF ReadSmall
  <1>2. Head(ring) = ring[1] /\ ring[1] \in Items /\ ring # <<>> /\ ring[1].done
    BY <1>1, ValidIsWhole
  <1>3. OutSound' /\ out' \in Seq([id : Nat, parent : Nat, t : Threads, life : Nat])
    <2>1. ring[1].t \in Threads BY <1>2 DEF Items
    <2>2. HandOut(ring[1]) BY <1>2 DEF ReadSmall
    <2>3. HeadInUse' BY <1>1 DEF HeadInUse
    <2> QED BY <1>1, <2>1, <2>2, <2>3, OutMore DEF threadVars
  <1>4. TypeOK' BY <1>1, <1>3 DEF OversizeInv, TypeOK, threadVars, Live
  <1>5. RingSound' BY <1>1, RingKept DEF threadVars
  <1>6. BuffersSound' /\ FillersHold'
    <2>1. RingShrinks BY <1>1 DEF RingShrinks
    <2> QED BY <1>1, <2>1, SameShrinks, BuffersShrink DEF threadVars
  <1>7. ReaderSound' BY <1>1, <1>2 DEF OversizeInv, ReaderSound, HeadInUse, InRange, Age
  <1> QED BY <1>3, <1>4, <1>5, <1>6, <1>7 DEF OversizeInv

\* A buffer without its first chunks.
LEMMA FewerChunks ==
  ASSUME OversizeInv, NEW s \in Live, NEW cs \in Seq(Chunks), Len(cs) <= Len(bufs[s].chunks),
         \A n \in DOMAIN cs : \E k \in DOMAIN bufs[s].chunks : cs[n] = bufs[s].chunks[k],
         Unfinished(bufs[s]) => cs # <<>> /\ ~cs[Len(cs)].done
  PROVE  Shrunk([bufs[s] EXCEPT !.chunks = cs], bufs[s])
  <1> DEFINE x == [bufs[s] EXCEPT !.chunks = cs]
  <1>1. bufs[s] \in Buffers BY DEF OversizeInv, TypeOK, Live
  <1>2. x \in Buffers /\ x.ver = bufs[s].ver /\ x.t = bufs[s].t /\ x.chunks = cs
    BY <1>1 DEF Buffers
  <1> HIDE DEF x
  <1>3. Unfinished(bufs[s]) => Unfinished(x) BY <1>2 DEF Unfinished, Last
  <1>4. Shrunk(x, bufs[s]) BY <1>2, <1>3 DEF Shrunk
  <1> QED BY <1>4 DEF x

CutFrom(parent, s) ==
  \A n \in DOMAIN Cut(parent, s) :
    \E k \in DOMAIN bufs[s].chunks : Cut(parent, s)[n] = bufs[s].chunks[k]

LEMMA CutOf ==
  ASSUME OversizeInv, NEW parent, NEW s \in Live
  PROVE  /\ Cut(parent, s) \in Seq(Chunks) /\ CutFrom(parent, s)
         /\ Shrunk([bufs[s] EXCEPT !.chunks = Cut(parent, s)], bufs[s])
  <1> DEFINE cs == bufs[s].chunks
             good == {n \in DOMAIN cs : ~cs[n].done \/ ~Stale(parent, cs[n])}
             r == Kept(cs, good)
  <1>1. Cut(parent, s) = r BY DEF Cut, Kept
  <1>2. bufs[s] \in Buffers BY DEF OversizeInv, TypeOK, Live
  <1>3. cs \in Seq(Chunks) BY <1>2 DEF Buffers
  <1>4. good \in SUBSET (DOMAIN cs) OBVIOUS
  <1>5. Unfinished(bufs[s]) => cs # <<>> /\ Len(cs) \in good /\ ~cs[Len(cs)].done
    <2> HAVE Unfinished(bufs[s])
    <2>1. cs # <<>> /\ ~cs[Len(cs)].done BY DEF Unfinished, Last
    <2>2. Len(cs) \in DOMAIN cs BY <1>3, <2>1
    <2> QED BY <2>1, <2>2
  <1> HIDE DEF good
  <1>6. /\ r \in Seq(Chunks) /\ Len(r) <= Len(cs)
        /\ \A n \in DOMAIN r : \E k \in DOMAIN cs : r[n] = cs[k]
        /\ (cs # <<>> /\ Len(cs) \in good) => r # <<>> /\ r[Len(r)] = cs[Len(cs)]
    BY <1>3, <1>4, KeptOf
  <1>7. Unfinished(bufs[s]) => r # <<>> /\ ~r[Len(r)].done BY <1>5, <1>6
  <1> HIDE DEF r
  <1>8. Shrunk([bufs[s] EXCEPT !.chunks = r], bufs[s]) BY <1>6, <1>7, FewerChunks
  <1>9. CutFrom(parent, s) BY <1>1, <1>6 DEF CutFrom
  <1> QED BY <1>1, <1>6, <1>8, <1>9

\* A search that goes through the buffers of seen.
LEMMA SearchShrinks ==
  ASSUME OversizeInv, NEW parent, NEW seen \in SUBSET Live,
         bufs' = [z \in Slots |-> IF z \in seen THEN [bufs[z] EXCEPT !.chunks = Cut(parent, z)]
                                  ELSE bufs[z]]
  PROVE  BufsShrink
  <1>1. bufs \in [Slots -> Buffers \cup {None}] /\ Live \subseteq Slots BY DEF OversizeInv, TypeOK, Live
  <1>2. ASSUME NEW z \in seen PROVE bufs'[z] \in Buffers /\ Shrunk(bufs'[z], bufs[z])
    <2>1. z \in Live /\ z \in Slots BY <1>1
    <2>2. bufs'[z] = [bufs[z] EXCEPT !.chunks = Cut(parent, z)] BY <2>1
    <2>3. Shrunk(bufs'[z], bufs[z]) BY <2>1, <2>2, CutOf
    <2> QED BY <2>3 DEF Shrunk
  <1>3. ASSUME NEW z \in Slots, z \notin seen, bufs[z] # None
        PROVE  Shrunk(bufs'[z], bufs[z])
    <2>1. bufs'[z] = bufs[z] /\ bufs[z] \in Buffers BY <1>1, <1>3
    <2>2. Len(bufs[z].chunks) \in Nat BY <2>1 DEF Buffers
    <2>3. Shrunk(bufs[z], bufs[z]) BY <2>1, <2>2 DEF Shrunk
    <2> QED BY <2>1, <2>3
  <1>4. \A z \in Slots : z \notin seen => bufs'[z] = bufs[z] OBVIOUS
  <1>5. bufs' \in [Slots -> Buffers \cup {None}]
    <2>1. \A z \in Slots : bufs'[z] \in Buffers \cup {None} BY <1>1, <1>2, <1>4
    <2>2. DOMAIN bufs' = Slots /\ bufs' = [z \in Slots |-> bufs'[z]] OBVIOUS
    <2> QED BY <2>1, <2>2
  <1>6. ASSUME NEW z \in Slots, bufs'[z] # None PROVE bufs[z] # None /\ Shrunk(bufs'[z], bufs[z])
    <2>1. bufs[z] # None BY <1>4, <1>6 DEF Live
    <2> QED BY <1>2, <1>3, <2>1
  <1>7. ASSUME NEW z \in Live PROVE bufs'[z] # None
    <2>1. CASE z \in seen BY <1>2, <2>1, OversizeAssumption
    <2>2. CASE z \notin seen BY <1>1, <1>4, <2>2 DEF Live
    <2> QED BY <2>1, <2>2
  <1> QED BY <1>5, <1>6, <1>7 DEF BufsShrink

LEMMA ReadBigStep ==
  ASSUME OversizeInv, ReadBig
  PROVE  OversizeInv'
  <1> DEFINE parent == Head(ring)
  <1>1. /\ UNCHANGED <<version, ring, threadVars, reading, deaths>>
        /\ rpc = "ring" /\ rpc' = "big" /\ HeadIs("valid")
    BY DEF ReadBig
  <1>2. parent = ring[1] /\ 1 \in DOMAIN ring /\ ring # <<>> /\ ring[1].done
    BY <1>1, ValidIsWhole
  <1>3. PICK s \in Found(parent), seen \in SUBSET Searched(parent) :
          /\ s \in seen
          /\ bufs' = [z \in Slots |-> IF z \in seen THEN [bufs[z] EXCEPT !.chunks = Cut(parent, z)]
                                      ELSE bufs[z]]
          /\ HandOut(Head(Cut(parent, s)))
          /\ target' = s
    BY DEF ReadBig
  <1> HIDE DEF parent
  <1>4. seen \subseteq Live /\ s \in Live /\ s \in Slots /\ bufs[s].ver = parent.ver /\ bufs[s].t = parent.t
    BY DEF Found, Searched, Live
  <1>5. BufsShrink BY <1>3, <1>4, SearchShrinks
  <1> DEFINE cs == Cut(parent, s)
             c == Head(cs)
  <1>6. cs # <<>> /\ c.done /\ parent.ver = c.ver /\ parent.seq = c.seq BY DEF Found, Matches
  <1>7. /\ cs \in Seq(Chunks)
        /\ \A n \in DOMAIN cs : \E k \in DOMAIN bufs[s].chunks : cs[n] = bufs[s].chunks[k]
    <2>1. Cut(parent, s) \in Seq(Chunks) /\ CutFrom(parent, s) BY <1>4, CutOf
    <2> QED BY <2>1 DEF CutFrom
  <1>8. bufs'[s].chunks = cs /\ bufs'[s] # None
    <2>1. bufs[s] \in Buffers BY <1>4 DEF OversizeInv, TypeOK, Live
    <2>2. bufs'[s] = [bufs[s] EXCEPT !.chunks = cs] BY <1>3, <1>4
    <2>3. bufs'[s].chunks = cs /\ bufs'[s] \in Buffers BY <1>7, <2>1, <2>2 DEF Buffers
    <2> QED BY <2>3, OversizeAssumption
  <1> HIDE DEF cs
  <1>9. 1 \in DOMAIN cs /\ c = cs[1] BY <1>6, <1>7
  <1>10. PICK k \in DOMAIN bufs[s].chunks : c = bufs[s].chunks[k] BY <1>7, <1>9
  <1>11. ChunkSound(bufs[s], c) BY <1>4, <1>10 DEF OversizeInv, BuffersSound
  <1>12. c.id = ring[1].id /\ c.t \in Threads
    <2>1. c.t = ring[1].t BY <1>2, <1>4, <1>11 DEF ChunkSound
    <2>2. ring[1] \in Items BY <1>1, ValidIsWhole
    <2> QED BY <1>2, <1>6, <1>11, <2>1, <2>2 DEF ChunkSound, Items
  <1>13. OutSound' /\ out' \in Seq([id : Nat, parent : Nat, t : Threads, life : Nat])
    <2>1. HandOut(c) BY <1>3 DEF cs
    <2>2. HeadInUse' BY <1>1 DEF HeadInUse
    <2> HIDE DEF c
    <2> QED BY <1>1, <1>12, <2>1, <2>2, OutMore DEF threadVars
  <1>14. RingSound' BY <1>1, RingKept DEF threadVars
  <1>15. BuffersSound' /\ FillersHold' /\ \A z \in Live' : Len(bufs'[z].chunks) <= Room
    <2>1. RingShrinks BY <1>1 DEF RingShrinks
    <2> QED BY <1>1, <1>5, <2>1, BuffersShrink DEF threadVars
  <1>16. TypeOK'
    <2>1. bufs' \in [Slots -> Buffers \cup {None}] BY <1>5 DEF BufsShrink
    <2>2. target' \in Slots BY <1>3, <1>4
    <2> QED BY <1>1, <1>13, <1>15, <2>1, <2>2 DEF OversizeInv, TypeOK, threadVars, Live
  <1>17. ReaderSound'
    <2>1. target' \in Live' /\ bufs'[target'].chunks # <<>> /\ Head(bufs'[target'].chunks).done
      BY <1>3, <1>4, <1>6, <1>8 DEF Live
    <2>2. ring' # <<>> /\ Head(ring').done BY <1>1, <1>2 DEF parent
    <2> QED BY <1>1, <2>1, <2>2 DEF OversizeInv, ReaderSound, InRange, Age
  <1> QED BY <1>13, <1>14, <1>15, <1>16, <1>17 DEF OversizeInv

\* The steps that take the head from the ring.
LEMMA TailStep ==
  ASSUME OversizeInv, BufsShrink, ring # <<>>, Head(ring).done, ring' = Tail(ring),
         UNCHANGED <<version, threadVars, reading, target, out, deaths>>,
         rpc' \in {"idle", "ring"}
  PROVE  OversizeInv'
  <1>1. RingSound' /\ RingShrinks /\ ring' \in Seq(Items) BY RingTail DEF threadVars
  <1>2. BuffersSound' /\ FillersHold' /\ \A z \in Live' : Len(bufs'[z].chunks) <= Room
    BY <1>1, BuffersShrink DEF threadVars
  <1>3. bufs' \in [Slots -> Buffers \cup {None}] BY DEF BufsShrink
  <1>4. TypeOK' BY <1>1, <1>2, <1>3 DEF OversizeInv, TypeOK, threadVars, Live
  <1>5. ReaderSound' BY DEF OversizeInv, ReaderSound, HeadInUse, InRange, Age
  <1>6. OutSound' BY OutKept DEF threadVars
  <1> QED BY <1>1, <1>2, <1>4, <1>5, <1>6 DEF OversizeInv

LEMMA HeadGoes ==
  ASSUME OversizeInv, ReadMissing \/ DropInvalid \/ ReturnSmall \/ ReturnParent
  PROVE  OversizeInv'
  <1>1. ring # <<>> /\ Head(ring).done
    BY DEF ReadMissing, DropInvalid, ReturnSmall, ReturnParent, HeadIs, HasHead,
           OversizeInv, ReaderSound, HeadInUse
  <1>2. CASE ReadMissing
    <2> DEFINE parent == Head(ring)
    <2>1. bufs' = [z \in Slots |-> IF z \in Searched(parent)
                     THEN [bufs[z] EXCEPT !.chunks = Cut(parent, z)] ELSE bufs[z]]
      BY <1>2 DEF ReadMissing
    <2> HIDE DEF parent
    <2>2. Searched(parent) \in SUBSET Live BY DEF Searched
    <2>3. BufsShrink BY <2>1, <2>2, SearchShrinks
    <2>4. /\ ring' = Tail(ring) /\ rpc' \in {"idle", "ring"}
          /\ UNCHANGED <<version, threadVars, reading, target, out, deaths>>
      BY <1>2 DEF ReadMissing
    <2> QED BY <1>1, <2>3, <2>4, TailStep
  <1>3. CASE DropInvalid \/ ReturnSmall \/ ReturnParent
    <2>1. /\ ring' = Tail(ring) /\ rpc' \in {"idle", "ring"} /\ UNCHANGED bufs
          /\ UNCHANGED <<version, threadVars, reading, target, out, deaths>>
      BY <1>3 DEF DropInvalid, ReturnSmall, ReturnParent, readerVars
    <2>2. BufsShrink BY <2>1, SameShrinks
    <2> QED BY <1>1, <2>1, <2>2, TailStep
  <1> QED BY <1>2, <1>3

\* The chunk that was read goes from its buffer.
LEMMA ReturnBigTakes ==
  ASSUME OversizeInv, ReturnBig
  PROVE  /\ BufsShrink /\ target \in Live /\ bufs[target].chunks \in Seq(Chunks)
         /\ bufs[target].chunks # <<>> /\ bufs'[target].chunks = Tail(bufs[target].chunks)
         /\ \A s \in Slots : s # target => bufs'[s] = bufs[s]
         /\ \A s \in Live : s \in Live'
  <1>1. /\ UNCHANGED <<version, ring, threadVars, reading, target, out, deaths>>
        /\ rpc = "big" /\ rpc' = "parent" /\ bufs' = [bufs EXCEPT ![target].chunks = Tail(@)]
    BY DEF ReturnBig
  <1>2. target \in Live /\ target \in Slots /\ bufs[target].chunks # <<>> /\ Head(bufs[target].chunks).done
    BY <1>1 DEF OversizeInv, ReaderSound, Live
  <1>3. bufs \in [Slots -> Buffers \cup {None}] /\ bufs[target] \in Buffers
    BY <1>2 DEF OversizeInv, TypeOK, Live
  <1> DEFINE cs == bufs[target].chunks
  <1>4. cs \in Seq(Chunks) /\ cs # <<>> /\ cs[1].done BY <1>2, <1>3 DEF Buffers
  <1>5. Unfinished(bufs[target]) => cs[Len(cs)].done = FALSE /\ ~cs[Len(cs)].done
    <2> HAVE Unfinished(bufs[target])
    <2>1. ~cs[Len(cs)].done BY DEF Unfinished, Last
    <2>2. cs[Len(cs)] \in Chunks BY <1>4
    <2> QED BY <2>1, <2>2 DEF Chunks
  <1> HIDE DEF cs
  <1>6. /\ Tail(cs) \in Seq(Chunks) /\ Len(Tail(cs)) = Len(cs) - 1
        /\ \A n \in DOMAIN Tail(cs) : n + 1 \in DOMAIN cs /\ Tail(cs)[n] = cs[n + 1]
        /\ \A k \in DOMAIN cs : k # 1 => k - 1 \in DOMAIN Tail(cs) /\ Tail(cs)[k - 1] = cs[k]
    BY <1>4, TailOf
  <1>7. Len(cs) \in Nat /\ Len(cs) \in DOMAIN cs BY <1>4
  <1>8. Unfinished(bufs[target]) => Tail(cs) # <<>> /\ ~Tail(cs)[Len(Tail(cs))].done
    <2> HAVE Unfinished(bufs[target])
    <2>1. Len(cs) # 1 BY <1>4, <1>5
    <2>2. Len(cs) - 1 \in DOMAIN Tail(cs) /\ Tail(cs)[Len(cs) - 1] = cs[Len(cs)] BY <1>6, <1>7, <2>1
    <2>3. Tail(cs) # <<>>
      <3>1. Len(Tail(cs)) # 0 BY <1>6, <1>7, <2>1
      <3>2. Len(<<>>) = 0 OBVIOUS
      <3> QED BY <3>1, <3>2
    <2>4. Tail(cs)[Len(Tail(cs))] = cs[Len(cs)] BY <1>6, <2>2
    <2> QED BY <1>5, <2>3, <2>4
  <1>9. \A n \in DOMAIN Tail(cs) : \E k \in DOMAIN cs : Tail(cs)[n] = cs[k] BY <1>6
  <1>10. Shrunk([bufs[target] EXCEPT !.chunks = Tail(cs)], bufs[target])
    <2>1. Len(Tail(cs)) <= Len(cs) BY <1>6, <1>7
    <2> QED BY <1>2, <1>6, <1>8, <1>9, <2>1, FewerChunks DEF cs
  <1>11. bufs'[target] = [bufs[target] EXCEPT !.chunks = Tail(cs)] BY <1>1, <1>2, <1>3 DEF cs
  <1>12. \A s \in Slots : s # target => bufs'[s] = bufs[s] BY <1>1, <1>3
  <1>13. BufsShrink
    <2>1. bufs'[target] \in Buffers /\ Shrunk(bufs'[target], bufs[target])
      BY <1>10, <1>11 DEF Shrunk
    <2>2. bufs' \in [Slots -> Buffers \cup {None}]
      <3>1. \A s \in Slots : bufs'[s] \in Buffers \cup {None} BY <1>3, <1>12, <2>1
      <3>2. DOMAIN bufs' = Slots /\ bufs' = [s \in Slots |-> bufs'[s]] BY <1>1, <1>3
      <3> QED BY <3>1, <3>2
    <2>3. ASSUME NEW s \in Slots, bufs'[s] # None PROVE bufs[s] # None /\ Shrunk(bufs'[s], bufs[s])
      <3>1. CASE s = target BY <1>2, <2>1, <3>1 DEF Live
      <3>2. CASE s # target
        <4>1. bufs'[s] = bufs[s] /\ bufs[s] \in Buffers BY <1>3, <1>12, <2>3, <3>2
        <4>2. Len(bufs[s].chunks) \in Nat BY <4>1 DEF Buffers
        <4>3. Shrunk(bufs[s], bufs[s]) BY <4>1, <4>2 DEF Shrunk
        <4> QED BY <2>3, <4>1, <4>3
      <3> QED BY <3>1, <3>2
    <2>4. \A s \in Live : bufs'[s] # None BY <1>12, <2>1, OversizeAssumption DEF Live
    <2> QED BY <2>2, <2>3, <2>4 DEF BufsShrink
  <1>14. bufs'[target].chunks = Tail(cs) BY <1>3, <1>6, <1>11 DEF Buffers
  <1>15. \A s \in Live : s \in Live'
    <2>1. bufs'[target] # None BY <1>10, <1>11, OversizeAssumption DEF Shrunk
    <2> QED BY <1>2, <1>12, <2>1 DEF Live
  <1> QED BY <1>2, <1>4, <1>12, <1>13, <1>14, <1>15 DEF cs

LEMMA ReturnBigStep ==
  ASSUME OversizeInv, ReturnBig
  PROVE  OversizeInv'
  <1>1. /\ UNCHANGED <<version, ring, threadVars, reading, target, out, deaths>>
        /\ rpc = "big" /\ rpc' = "parent"
    BY DEF ReturnBig
  <1>2. BufsShrink BY ReturnBigTakes
  <1>3. RingSound' BY <1>1, RingKept DEF threadVars
  <1>4. BuffersSound' /\ FillersHold' /\ \A z \in Live' : Len(bufs'[z].chunks) <= Room
    <2>1. RingShrinks BY <1>1 DEF RingShrinks
    <2> QED BY <1>1, <1>2, <2>1, BuffersShrink DEF threadVars
  <1>5. TypeOK'
    BY <1>1, <1>2, <1>4 DEF BufsShrink, OversizeInv, TypeOK, threadVars, Live
  <1>6. ReaderSound' BY <1>1 DEF OversizeInv, ReaderSound, HeadInUse, InRange, Age
  <1>7. OutSound'
    <2>1. HeadInUse' BY <1>1 DEF HeadInUse
    <2> QED BY <1>1, <2>1, OutKept DEF threadVars
  <1> QED BY <1>3, <1>4, <1>5, <1>6, <1>7 DEF OversizeInv

LEMMA PurgedOf ==
  ASSUME OversizeInv, NEW garbage, NEW s \in Examined
  PROVE  s \in Live /\ s # target /\ ~Unfinished(bufs[s])
         /\ Shrunk([bufs[s] EXCEPT !.chunks = Purged(s, garbage)], bufs[s])
  <1>1. s \in Live /\ s # target /\ ~Unfinished(bufs[s]) BY DEF Examined
  <1> DEFINE cs == bufs[s].chunks
             good == {n \in DOMAIN cs : ~Overdue(cs[n], garbage)}
             r == Kept(cs, good)
  <1>2. Purged(s, garbage) = r BY <1>1 DEF Purged, Finished, Kept
  <1>3. bufs[s] \in Buffers BY <1>1 DEF OversizeInv, TypeOK, Live
  <1>4. cs \in Seq(Chunks) BY <1>3 DEF Buffers
  <1>5. good \in SUBSET (DOMAIN cs) OBVIOUS
  <1> HIDE DEF good
  <1>6. /\ r \in Seq(Chunks) /\ Len(r) <= Len(cs)
        /\ \A n \in DOMAIN r : \E k \in DOMAIN cs : r[n] = cs[k]
    BY <1>4, <1>5, KeptOf
  <1> HIDE DEF r
  <1>7. Shrunk([bufs[s] EXCEPT !.chunks = r], bufs[s]) BY <1>1, <1>6, FewerChunks
  <1> QED BY <1>1, <1>2, <1>7

LEMMA RecycleShrinks ==
  ASSUME OversizeInv, NEW garbage \in BOOLEAN,
         bufs' = [s \in Slots |->
                    IF s \notin Examined THEN bufs[s]
                    ELSE IF Purged(s, garbage) = <<>> THEN None
                    ELSE [bufs[s] EXCEPT !.chunks = Purged(s, garbage)]]
  PROVE  BufsShrink
  <1>1. bufs \in [Slots -> Buffers \cup {None}] BY DEF OversizeInv, TypeOK
  <1>2. \A s \in Slots : s \notin Examined => bufs'[s] = bufs[s] OBVIOUS
  <1>3. ASSUME NEW s \in Slots, s \in Examined, bufs'[s] # None
        PROVE  bufs[s] # None /\ bufs'[s] \in Buffers /\ Shrunk(bufs'[s], bufs[s])
    <2>1. bufs'[s] = [bufs[s] EXCEPT !.chunks = Purged(s, garbage)] BY <1>3
    <2>2. s \in Live /\ Shrunk(bufs'[s], bufs[s]) BY <1>3, <2>1, PurgedOf
    <2> QED BY <2>2 DEF Shrunk, Live
  <1>4. ASSUME NEW s \in Slots, s \notin Examined, bufs'[s] # None
        PROVE  bufs[s] # None /\ bufs'[s] \in Buffers /\ Shrunk(bufs'[s], bufs[s])
    <2>1. bufs'[s] = bufs[s] /\ bufs[s] \in Buffers BY <1>1, <1>2, <1>4
    <2>2. Len(bufs[s].chunks) \in Nat BY <2>1 DEF Buffers
    <2>3. Shrunk(bufs[s], bufs[s]) BY <2>1, <2>2 DEF Shrunk
    <2> QED BY <1>4, <2>1, <2>3
  <1> QED
    <2>1. \A s \in Slots : bufs'[s] \in Buffers \cup {None} BY <1>3, <1>4
    <2>2. DOMAIN bufs' = Slots /\ bufs' = [s \in Slots |-> bufs'[s]] OBVIOUS
    <2>3. bufs' \in [Slots -> Buffers \cup {None}] BY <2>1, <2>2
    <2>4. \A s \in Live : Unfinished(bufs[s]) => bufs'[s] # None
      BY <1>2 DEF Examined, Live
    <2> QED BY <1>3, <1>4, <2>3, <2>4 DEF BufsShrink

LEMMA RecycleStep ==
  ASSUME OversizeInv, Recycle
  PROVE  OversizeInv'
  <1>1. /\ UNCHANGED <<version, ring, threadVars, reading, target, out, deaths>>
        /\ rpc = "recycle" /\ rpc' = "end"
    BY DEF Recycle
  <1>2. BufsShrink BY RecycleShrinks DEF Recycle
  <1>3. RingSound' BY <1>1, RingKept DEF threadVars
  <1>4. BuffersSound' /\ FillersHold' /\ \A z \in Live' : Len(bufs'[z].chunks) <= Room
    <2>1. RingShrinks BY <1>1 DEF RingShrinks
    <2> QED BY <1>1, <1>2, <2>1, BuffersShrink DEF threadVars
  <1>5. TypeOK'
    BY <1>1, <1>2, <1>4 DEF BufsShrink, OversizeInv, TypeOK, threadVars, Live
  <1>6. ReaderSound' BY <1>1 DEF OversizeInv, ReaderSound, HeadInUse, InRange, Age
  <1>7. OutSound'
    <2>1. ~HeadInUse BY <1>1 DEF HeadInUse
    <2> QED BY <1>1, <2>1, OutKept DEF threadVars
  <1> QED BY <1>3, <1>4, <1>5, <1>6, <1>7 DEF OversizeInv

-----------------------------------------------------------------------------
(***************************************************************************)
(* The steps of the threads that log.                                      *)
(***************************************************************************)

LEMMA ReserveStep ==
  ASSUME OversizeInv, NEW t \in Threads, NEW big \in BOOLEAN, Reserve(t, big)
  PROVE  OversizeInv'
  <1>0. PICK n \in Nat : n = Len(ring)
    <2>1. ring \in Seq(Items) BY DEF OversizeInv, TypeOK
    <2> QED BY <2>1
  <1> DEFINE e == [ver |-> version, t |-> t, seq |-> writeSeq[t], ref |-> big,
                   id |-> Len(born) + 1, done |-> FALSE]
  <1>1. /\ pc[t] = "idle" /\ ring' = Append(ring, e) /\ born' = Append(born, deaths)
        /\ writeSeq' = [writeSeq EXCEPT ![t] = @ + 1]
        /\ pc' = [pc EXCEPT ![t] = IF big THEN "seek" ELSE "commit"]
        /\ UNCHANGED <<version, bufs, filling, whole, readSeq, reading, records, target, rpc, out, deaths>>
    BY DEF Reserve, Goto, readerVars
  <1>2. /\ ring \in Seq(Items) /\ born \in Seq(Nat) /\ deaths \in Nat /\ version \in Version
        /\ writeSeq \in [Threads -> Nat] /\ pc \in [Threads -> {"idle", "seek", "fill", "commit"}]
    BY DEF OversizeInv, TypeOK
  <1>3. born' \in Seq(Nat) /\ Len(born') = Len(born) + 1 /\ Len(born) \in Nat BY <1>1, <1>2
  <1>4. writeSeq[t] \in Nat /\ e \in Items BY <1>2, <1>3 DEF Items
  <1>5. e.ver = version /\ e.t = t /\ e.seq = writeSeq[t] /\ e.id = Len(born) + 1 /\ ~e.done OBVIOUS
  <1> HIDE DEF e
  <1>6. /\ ring' \in Seq(Items) /\ DOMAIN ring' = 1..(n + 1) /\ DOMAIN ring = 1..n /\ n \in Nat
        /\ ring'[n + 1] = e /\ \A i \in 1..n : ring'[i] = ring[i]
    BY <1>0, <1>1, <1>2, <1>4
  <1>7. /\ writeSeq' \in [Threads -> Nat] /\ writeSeq'[t] = writeSeq[t] + 1
        /\ \A u \in Threads : u # t => writeSeq'[u] = writeSeq[u]
        /\ pc' \in [Threads -> {"idle", "seek", "fill", "commit"}]
        /\ pc'[t] \in {"seek", "commit"} /\ \A u \in Threads : u # t => pc'[u] = pc[u]
    BY <1>1, <1>2
  <1>8. \A i \in 1..n : EntrySound(ring[i]) /\ ring[i] \in Items
    <2>1. \A i \in 1..n : ring[i] \in Items BY <1>2, <1>6
    <2> QED BY <1>6, <2>1 DEF OversizeInv, RingSound
  <1>9. ASSUME NEW i \in 1..n PROVE EntrySound(ring[i])'
    <2> DEFINE x == ring[i]
    <2>1. EntrySound(x) /\ x \in Items /\ ring'[i] = x BY <1>6, <1>8
    <2> HIDE DEF x
    <2>2. x.id \in Nat /\ x.t \in Threads /\ x.seq \in Nat /\ x.done \in BOOLEAN BY <2>1 DEF Items
    <2>3. x.id \in 1..Len(born') BY <1>3, <2>1, <2>2 DEF EntrySound
    <2>4. CASE x.t = t
      <3>1. x.done BY <1>1, <2>1, <2>4 DEF EntrySound
      <3>2. x.ver = version => x.seq < writeSeq'[t] - 1 BY <1>4, <1>7, <2>1, <2>2, <2>4 DEF EntrySound
      <3>3. x.ver = version => x.seq < writeSeq'[t] BY <1>4, <1>7, <2>2, <3>2
      <3> QED BY <1>1, <2>1, <2>3, <2>4, <3>1, <3>2, <3>3 DEF EntrySound, InRange, Age
    <2>5. CASE x.t # t
      <3>1. writeSeq'[x.t] = writeSeq[x.t] /\ pc'[x.t] = pc[x.t] BY <1>7, <2>2, <2>5
      <3> QED BY <1>1, <2>1, <2>3, <3>1 DEF EntrySound, InRange, Age
    <2> QED BY <2>4, <2>5
  <1>10. EntrySound(ring[n + 1])'
    <2>1. e.id \in 1..Len(born') BY <1>3, <1>5
    <2>2. e.seq = writeSeq'[t] - 1 /\ e.seq < writeSeq'[t] BY <1>4, <1>5, <1>7
    <2> QED BY <1>1, <1>5, <1>6, <1>7, <2>1, <2>2 DEF EntrySound
  <1>11. RingSound'
    <2>1. \A i \in DOMAIN ring' : EntrySound(ring[i])'
      <3> TAKE i \in DOMAIN ring'
      <3>1. i = n + 1 \/ i \in 1..n BY <1>6
      <3> QED BY <1>9, <1>10, <3>1
    <2>2. ASSUME NEW i \in DOMAIN ring', NEW j \in DOMAIN ring', i < j PROVE ring'[i].id < ring'[j].id
      <3>1. i \in 1..n BY <1>6, <2>2
      <3>2. ring[i].id \in 1..Len(born) BY <1>8, <3>1 DEF EntrySound
      <3>3. CASE j = n + 1 BY <1>3, <1>5, <1>6, <3>1, <3>2, <3>3
      <3>4. CASE j # n + 1
        <4>1. j \in 1..n BY <1>6, <3>4
        <4>2. ring[i].id < ring[j].id BY <1>6, <2>2, <3>1, <4>1 DEF OversizeInv, RingSound
        <4> QED BY <1>6, <3>1, <4>1, <4>2
      <3> QED BY <3>3, <3>4
    <2>3. \A i \in 1..n : ring[i].t = t => ring[i].done BY <1>1, <1>8 DEF EntrySound
    <2>4. ASSUME NEW i \in DOMAIN ring', NEW j \in DOMAIN ring',
                 ~ring'[i].done, ~ring'[j].done, ring'[i].t = ring'[j].t
          PROVE  i = j
      <3>1. i = n + 1 \/ i \in 1..n BY <1>6
      <3>2. j = n + 1 \/ j \in 1..n BY <1>6
      <3>3. CASE i \in 1..n /\ j \in 1..n BY <1>6, <2>4, <3>3 DEF OversizeInv, RingSound
      <3>4. CASE i \in 1..n /\ j = n + 1 BY <1>5, <1>6, <2>3, <2>4, <3>4
      <3>5. CASE i = n + 1 /\ j \in 1..n BY <1>5, <1>6, <2>3, <2>4, <3>5
      <3> QED BY <3>1, <3>2, <3>3, <3>4, <3>5
    <2>5. ASSUME NEW u \in Threads, pc'[u] # "idle"
          PROVE  \E i \in DOMAIN ring' : ring'[i].t = u /\ ~ring'[i].done
      <3>1. CASE u = t
        <4>1. n + 1 \in DOMAIN ring' BY <1>6
        <4> QED BY <1>5, <1>6, <3>1, <4>1
      <3>2. CASE u # t
        <4>1. PICK i \in DOMAIN ring : ring[i].t = u /\ ~ring[i].done
          BY <1>7, <2>5, <3>2 DEF OversizeInv, RingSound
        <4>2. i \in DOMAIN ring' /\ ring'[i] = ring[i] BY <1>6
        <4> QED BY <4>1, <4>2
      <3> QED BY <3>1, <3>2
    <2> QED BY <2>1, <2>2, <2>4, <2>5 DEF RingSound
  <1>12. BuffersSound'
    <2>1. Live' = Live /\ bufs' = bufs BY <1>1 DEF Live
    <2>2. ASSUME NEW s \in Live, NEW k \in DOMAIN bufs[s].chunks
          PROVE  ChunkSound(bufs[s], bufs[s].chunks[k])'
      <3> DEFINE c == bufs[s].chunks[k]
      <3>1. ChunkSound(bufs[s], c) BY DEF OversizeInv, BuffersSound
      <3>2. c \in Chunks
        <4>1. bufs[s] \in Buffers BY DEF OversizeInv, TypeOK, Live
        <4> QED BY <4>1 DEF Buffers
      <3> HIDE DEF c
      <3>3. c.t \in Threads /\ c.seq \in Nat BY <3>2 DEF Chunks
      <3>4. c.ver = version => c.seq < writeSeq'[c.t] /\ (pc'[c.t] = "seek" => c.seq < writeSeq'[c.t] - 1)
        <4>1. CASE c.t = t
          <5>1. c.ver = version => c.seq < writeSeq[t] BY <3>1, <4>1 DEF ChunkSound
          <5> QED BY <1>4, <1>7, <3>3, <4>1, <5>1
        <4>2. CASE c.t # t BY <1>7, <3>1, <3>3, <4>2 DEF ChunkSound
        <4> QED BY <4>1, <4>2
      <3>5. ASSUME NEW i \in DOMAIN ring', ring'[i].ver = c.ver, ring'[i].t = c.t, ring'[i].seq = c.seq
            PROVE  ring'[i].id = c.id
        <4>1. i = n + 1 \/ i \in 1..n BY <1>6
        <4>2. CASE i \in 1..n BY <1>6, <3>1, <3>5, <4>2 DEF ChunkSound
        <4>3. CASE i = n + 1
          <5>1. c.ver = version /\ c.t = t /\ c.seq = writeSeq[t] BY <1>5, <1>6, <3>5, <4>3
          <5>2. c.seq < writeSeq[t] BY <3>1, <5>1 DEF ChunkSound
          <5> QED BY <1>4, <5>1, <5>2
        <4> QED BY <4>1, <4>2, <4>3
      <3>6. bufs'[s].chunks[k] = c /\ bufs'[s] = bufs[s] BY <2>1 DEF c
      <3> QED BY <1>1, <3>1, <3>4, <3>5, <3>6 DEF ChunkSound
    <2>3. \A s \in Live : (InRange(bufs[s].ver))'
      BY <1>1 DEF OversizeInv, BuffersSound, InRange, Age
    <2> QED BY <2>1, <2>2, <2>3 DEF BuffersSound
  <1>13. FillersHold'
    <2>1. \A u \in Threads : pc'[u] = "fill" => pc[u] = "fill" BY <1>7
    <2> QED BY <1>1, <2>1 DEF OversizeInv, FillersHold, Live, Unfinished
  <1>14. ReaderSound'
    <2>1. ring # <<>> => ring' # <<>> /\ Head(ring') = Head(ring) BY <1>1, <1>2, <1>4
    <2>2. bufs' = bufs /\ Live' = Live BY <1>1 DEF Live
    <2>3. InRange(reading)' BY <1>1 DEF OversizeInv, ReaderSound, InRange, Age
    <2> QED BY <1>1, <2>1, <2>2, <2>3 DEF OversizeInv, ReaderSound, HeadInUse
  <1>15. OutSound'
    <2>1. \A i \in DOMAIN out : out[i].id \in 1..Len(born) BY DEF OversizeInv, OutSound
    <2>2. \A i \in DOMAIN out : out[i].id \in 1..Len(born') BY <1>3, <2>1
    <2>3. ASSUME NEW i \in DOMAIN out, out[i].life = deaths, NEW k \in DOMAIN ring'
          PROVE  out[i].id <= ring'[k].id /\ (out[i].id = ring'[k].id => HeadInUse')
      <3>1. k = n + 1 \/ k \in 1..n BY <1>6
      <3>2. CASE k \in 1..n BY <1>1, <1>6, <2>3, <3>2 DEF OversizeInv, OutSound, HeadInUse
      <3>3. CASE k = n + 1
        <4>1. ring'[k].id = Len(born) + 1 /\ out[i].id \in 1..Len(born) BY <1>5, <1>6, <2>1, <3>3
        <4> QED BY <1>3, <4>1
      <3> QED BY <3>1, <3>2, <3>3
    <2> QED BY <1>1, <2>2, <2>3 DEF OversizeInv, OutSound
  <1>16. TypeOK'
    BY <1>1, <1>3, <1>6, <1>7 DEF OversizeInv, TypeOK, Live
  <1> QED BY <1>11, <1>12, <1>13, <1>14, <1>15, <1>16 DEF OversizeInv

\* A thread's place in the ring is done: x is what becomes of it.
LEMMA EndStep ==
  ASSUME OversizeInv, NEW t \in Threads, pc[t] \in {"seek", "commit"},
         NEW m, m = Mine(t),
         NEW x \in Items, x.id = ring[m].id, x.t = t, x.done, x.seq = ring[m].seq,
         x.ver = version => x.id \in whole' /\ writeSeq' = writeSeq,
         x.ver # version => ~InRange(x.ver),
         DOMAIN ring' = DOMAIN ring, ring' \in Seq(Items), ring'[m] = x,
         \A i \in DOMAIN ring : i # m => ring'[i] = ring[i],
         pc' = [pc EXCEPT ![t] = "idle"],
         \/ writeSeq' = writeSeq
         \/ pc[t] = "seek" /\ writeSeq' = [writeSeq EXCEPT ![t] = @ - 1],
         whole \subseteq whole',
         UNCHANGED <<version, bufs, filling, born, readerVars, deaths>>
  PROVE  OversizeInv'
  <1>1. /\ m \in DOMAIN ring /\ ring[m].t = t /\ ~ring[m].done /\ ring[m].ver = version
        /\ ring[m].seq = writeSeq[t] - 1 /\ ring[m].seq \in Nat /\ ring[m].id \in 1..Len(born)
        /\ \A i \in DOMAIN ring : ring[i].t = t /\ ~ring[i].done => i = m
    BY MineIs
  <1>2. /\ writeSeq \in [Threads -> Nat] /\ pc \in [Threads -> {"idle", "seek", "fill", "commit"}]
        /\ ring \in Seq(Items)
    BY DEF OversizeInv, TypeOK
  <1>3. /\ pc'[t] = "idle" /\ pc' \in [Threads -> {"idle", "seek", "fill", "commit"}]
        /\ \A u \in Threads : u # t => pc'[u] = pc[u]
    BY <1>2
  <1>4. /\ writeSeq' \in [Threads -> Nat] /\ writeSeq[t] \in Nat /\ writeSeq'[t] \in Nat
        /\ writeSeq'[t] >= writeSeq[t] - 1
        /\ \A u \in Threads : u # t => writeSeq'[u] = writeSeq[u]
        /\ (pc[t] # "seek" => writeSeq'[t] = writeSeq[t])
    BY <1>1, <1>2
  <1>5. \A i \in DOMAIN ring : EntrySound(ring[i]) /\ ring[i] \in Items
    <2>1. \A i \in DOMAIN ring : ring[i] \in Items BY <1>2
    <2> QED BY <2>1 DEF OversizeInv, RingSound
  <1>6. ASSUME NEW i \in DOMAIN ring PROVE EntrySound(ring[i])'
    <2>1. CASE i = m
      <3>1. x.ver = version => x.seq < writeSeq'[t] BY <1>1, <1>4
      <3>2. InRange(x.ver)' => x.id \in whole' BY DEF InRange, Age
      <3> QED BY <1>1, <1>3, <2>1, <3>1, <3>2 DEF EntrySound, InRange, Age
    <2>2. CASE i # m
      <3> DEFINE y == ring[i]
      <3>1. EntrySound(y) /\ y \in Items /\ ring'[i] = y BY <1>5, <2>2
      <3>2. y.t = t => y.done BY <1>1, <2>2
      <3> HIDE DEF y
      <3>3. y.seq \in Nat /\ y.t \in Threads BY <3>1 DEF Items
      <3>4. CASE y.t = t
        <4>1. y.ver = version => y.seq < writeSeq[t] - 1 BY <3>1, <3>2, <3>4 DEF EntrySound
        <4>2. y.ver = version => y.seq < writeSeq'[t] BY <1>4, <3>3, <4>1
        <4> QED BY <1>3, <3>1, <3>2, <3>4, <4>2 DEF EntrySound, InRange, Age
      <3>5. CASE y.t # t
        <4>1. writeSeq'[y.t] = writeSeq[y.t] /\ pc'[y.t] = pc[y.t] BY <1>3, <1>4, <3>3, <3>5
        <4> QED BY <3>1, <4>1 DEF EntrySound, InRange, Age
      <3> QED BY <3>4, <3>5
    <2> QED BY <2>1, <2>2
  <1>7. \A i \in DOMAIN ring : ring'[i].id = ring[i].id /\ ring'[i].t = ring[i].t BY <1>1
  <1>8. RingSound'
    <2>1. \A i, j \in DOMAIN ring' : i < j => ring'[i].id < ring'[j].id
      BY <1>7 DEF OversizeInv, RingSound
    <2>2. \A i \in DOMAIN ring : ~ring'[i].done => i # m /\ ~ring[i].done
      OBVIOUS
    <2>3. \A i, j \in DOMAIN ring' : ~ring'[i].done /\ ~ring'[j].done /\ ring'[i].t = ring'[j].t => i = j
      BY <1>7, <2>2 DEF OversizeInv, RingSound
    <2>4. ASSUME NEW u \in Threads, pc'[u] # "idle"
          PROVE  \E i \in DOMAIN ring' : ring'[i].t = u /\ ~ring'[i].done
      <3>1. u # t /\ pc[u] # "idle" BY <1>3, <2>4
      <3>2. PICK i \in DOMAIN ring : ring[i].t = u /\ ~ring[i].done
        BY <3>1 DEF OversizeInv, RingSound
      <3>3. i # m BY <1>1, <3>1, <3>2
      <3> QED BY <3>2, <3>3
    <2> QED BY <1>6, <2>1, <2>3, <2>4 DEF RingSound
  <1>9. BuffersSound'
    <2>1. Live' = Live BY DEF Live
    <2>2. \A s \in Live : (InRange(bufs[s].ver))' BY DEF OversizeInv, BuffersSound, InRange, Age
    <2>3. ASSUME NEW s \in Live, NEW k \in DOMAIN bufs[s].chunks
          PROVE  ChunkSound(bufs[s], bufs[s].chunks[k])'
      <3> DEFINE c == bufs[s].chunks[k]
      <3>1. ChunkSound(bufs[s], c) /\ InRange(bufs[s].ver) BY DEF OversizeInv, BuffersSound
      <3>2. c \in Chunks
        <4>1. bufs[s] \in Buffers BY DEF OversizeInv, TypeOK, Live
        <4> QED BY <4>1 DEF Buffers
      <3> HIDE DEF c
      <3>3. c.t \in Threads /\ c.seq \in Nat BY <3>2 DEF Chunks
      <3>4. c.ver = version => c.seq < writeSeq'[c.t] /\ (pc'[c.t] = "seek" => c.seq < writeSeq'[c.t] - 1)
        <4>1. CASE c.t = t
          <5>1. CASE pc[t] = "seek"
            <6>1. c.ver = version => c.seq < writeSeq[t] - 1 BY <3>1, <4>1, <5>1 DEF ChunkSound
            <6> QED BY <1>3, <1>4, <3>3, <4>1, <6>1
          <5>2. CASE pc[t] # "seek" BY <1>3, <1>4, <3>1, <4>1, <5>2 DEF ChunkSound
          <5> QED BY <5>1, <5>2
        <4>2. CASE c.t # t BY <1>3, <1>4, <3>1, <3>3, <4>2 DEF ChunkSound
        <4> QED BY <4>1, <4>2
      <3>5. ASSUME NEW i \in DOMAIN ring', ring'[i].ver = c.ver, ring'[i].t = c.t, ring'[i].seq = c.seq
            PROVE  ring'[i].id = c.id
        <4>1. CASE i = m
          <5>1. InRange(x.ver) BY <3>1, <3>5, <4>1 DEF ChunkSound
          <5>2. x.ver = version BY <5>1
          <5>3. ring[m].ver = c.ver /\ ring[m].t = c.t /\ ring[m].seq = c.seq
            BY <1>1, <3>5, <4>1, <5>2
          <5>4. ring[m].id = c.id BY <1>1, <3>1, <5>3 DEF ChunkSound
          <5> QED BY <3>5, <4>1, <5>4
        <4>2. CASE i # m BY <3>1, <3>5, <4>2 DEF ChunkSound
        <4> QED BY <4>1, <4>2
      <3>6. bufs'[s].chunks[k] = c /\ bufs'[s] = bufs[s] BY DEF c
      <3> QED BY <3>1, <3>4, <3>5, <3>6 DEF ChunkSound
    <2> QED BY <2>1, <2>2, <2>3 DEF BuffersSound
  <1>10. FillersHold'
    <2>1. \A u \in Threads : pc'[u] = "fill" => pc[u] = "fill" BY <1>3
    <2> QED BY <2>1 DEF OversizeInv, FillersHold, Live, Unfinished
  <1>11. ReaderSound'
    <2>1. ring # <<>> /\ Head(ring).done => ring' # <<>> /\ Head(ring').done
      <3> HAVE ring # <<>> /\ Head(ring).done
      <3>1. 1 \in DOMAIN ring /\ ring[1].done BY <1>2
      <3>2. 1 # m BY <1>1, <3>1
      <3>3. ring'[1] = ring[1] /\ 1 \in DOMAIN ring' BY <3>1, <3>2
      <3>4. ring' # <<>> BY <3>3
      <3> QED BY <3>1, <3>3, <3>4
    <2>2. InRange(reading)' BY DEF OversizeInv, ReaderSound, InRange, Age, readerVars
    <2> QED BY <2>1, <2>2 DEF OversizeInv, ReaderSound, HeadInUse, Live, readerVars
  <1>12. OutSound'
    <2>1. UNCHANGED <<out, rpc>> BY DEF readerVars
    <2>2. ASSUME NEW i \in DOMAIN out
          PROVE  /\ out[i].id = out[i].parent /\ out[i].id \in whole' /\ out[i].id \in 1..Len(born')
                 /\ out[i].life <= deaths'
                 /\ out[i].life = deaths' => \A k \in DOMAIN ring' :
                      out[i].id <= ring'[k].id /\ (out[i].id = ring'[k].id => HeadInUse')
      BY <1>7, <2>1 DEF OversizeInv, OutSound, HeadInUse
    <2>3. \A j \in DOMAIN out : \A i \in 1..(j - 1) : out[i].life = out[j].life => out[i].id < out[j].id
      BY DEF OversizeInv, OutSound
    <2> QED BY <2>1, <2>2, <2>3 DEF OutSound
  <1>13. TypeOK'
    BY <1>3, <1>4 DEF OversizeInv, TypeOK, Live, readerVars
  <1> QED BY <1>8, <1>9, <1>10, <1>11, <1>12, <1>13 DEF OversizeInv

LEMMA SeekFailsStep ==
  ASSUME OversizeInv, NEW t \in Threads, SeekFails(t)
  PROVE  OversizeInv'
  <1> DEFINE w == (version + 1) % V
  <1>1. PICK m : m = Mine(t) OBVIOUS
  <1>2. /\ pc[t] = "seek" /\ writeSeq' = [writeSeq EXCEPT ![t] = @ - 1]
        /\ ring' = [ring EXCEPT ![m].ver = w, ![m].done = TRUE]
        /\ pc' = [pc EXCEPT ![t] = "idle"]
        /\ UNCHANGED <<version, bufs, filling, whole, born, readerVars, deaths>>
    BY <1>1 DEF SeekFails, Goto
  <1>3. m \in DOMAIN ring /\ ring[m].t = t BY <1>1, <1>2, MineIs
  <1>4. version \in Version /\ ring \in Seq(Items) BY DEF OversizeInv, TypeOK
  <1>5. w \in Version /\ w # version /\ ~InRange(w)
    <2>1. Old(version, w) = V - 1 /\ w # version BY <1>4, OldVersions
    <2>2. w \in Version BY <1>4, NextVer
    <2> HIDE DEF w
    <2>3. ~(Old(version, w) <= Span) BY <2>1, Constants
    <2> QED BY <2>1, <2>2, <2>3, RangeIsOld
  <1> HIDE DEF w
  <1>6. PICK x : x = [ring[m] EXCEPT !.ver = w, !.done = TRUE] OBVIOUS
  <1>7. ring[m] \in Items BY <1>3, <1>4
  <1>8. x \in Items /\ x.ver = w /\ x.done /\ x.id = ring[m].id /\ x.t = t /\ x.seq = ring[m].seq
    BY <1>3, <1>5, <1>6, <1>7 DEF Items
  <1>9. ring' = [ring EXCEPT ![m] = x] BY <1>2, <1>3, <1>4, <1>6
  <1>10. /\ DOMAIN ring' = DOMAIN ring /\ ring' \in Seq(Items) /\ ring'[m] = x
         /\ \A i \in DOMAIN ring : i # m => ring'[i] = ring[i]
    BY <1>3, <1>4, <1>8, <1>9
  <1>11. /\ pc[t] \in {"seek", "commit"} /\ whole \subseteq whole'
         /\ x.ver = version => x.id \in whole' /\ writeSeq' = writeSeq
         /\ x.ver # version => ~InRange(x.ver)
    BY <1>2, <1>5, <1>8
  <1>12. \/ writeSeq' = writeSeq
         \/ pc[t] = "seek" /\ writeSeq' = [writeSeq EXCEPT ![t] = @ - 1]
    BY <1>2
  <1>13. x \in Items /\ x.id = ring[m].id /\ x.t = t /\ x.done /\ x.seq = ring[m].seq BY <1>8
  <1> HIDE DEF w
  <1> QED BY <1>1, <1>2, <1>10, <1>11, <1>12, <1>13, EndStep

LEMMA CommitStep ==
  ASSUME OversizeInv, NEW t \in Threads, Commit(t)
  PROVE  OversizeInv'
  <1>1. PICK m : m = Mine(t) OBVIOUS
  <1>2. /\ pc[t] = "commit" /\ ring' = [ring EXCEPT ![m].done = TRUE]
        /\ whole' = whole \cup {ring[m].id} /\ pc' = [pc EXCEPT ![t] = "idle"]
        /\ UNCHANGED <<version, bufs, filling, writeSeq, born, readerVars, deaths>>
    BY <1>1 DEF Commit, Goto
  <1>3. m \in DOMAIN ring /\ ring[m].t = t /\ ring[m].ver = version BY <1>1, <1>2, MineIs
  <1>4. ring \in Seq(Items) BY DEF OversizeInv, TypeOK
  <1>5. PICK x : x = [ring[m] EXCEPT !.done = TRUE] OBVIOUS
  <1>6. ring[m] \in Items BY <1>3, <1>4
  <1>7. x \in Items /\ x.ver = version /\ x.done /\ x.id = ring[m].id /\ x.t = t /\ x.seq = ring[m].seq
    BY <1>3, <1>5, <1>6 DEF Items
  <1>8. ring' = [ring EXCEPT ![m] = x] BY <1>2, <1>3, <1>4, <1>5
  <1>9. /\ DOMAIN ring' = DOMAIN ring /\ ring' \in Seq(Items) /\ ring'[m] = x
        /\ \A i \in DOMAIN ring : i # m => ring'[i] = ring[i]
    BY <1>3, <1>4, <1>7, <1>8
  <1>10. x.id \in whole' /\ whole \subseteq whole' BY <1>2, <1>7
  <1>11. /\ pc[t] \in {"seek", "commit"} /\ whole \subseteq whole'
         /\ x.ver = version => x.id \in whole' /\ writeSeq' = writeSeq
         /\ x.ver # version => ~InRange(x.ver)
    BY <1>2, <1>7, <1>10
  <1>12. \/ writeSeq' = writeSeq
         \/ pc[t] = "seek" /\ writeSeq' = [writeSeq EXCEPT ![t] = @ - 1]
    BY <1>2
  <1>13. /\ UNCHANGED <<version, bufs, filling, born, readerVars, deaths>>
         /\ pc' = [pc EXCEPT ![t] = "idle"]
    BY <1>2
  <1>14. x \in Items /\ x.id = ring[m].id /\ x.t = t /\ x.done /\ x.seq = ring[m].seq BY <1>7
  <1> QED BY <1>1, <1>9, <1>11, <1>12, <1>13, <1>14, EndStep

\* A thread changes one buffer, its own: nb is what becomes of it.
LEMMA BufferStep ==
  ASSUME OversizeInv, NEW t \in Threads, pc[t] \in {"seek", "fill"},
         NEW s \in Slots, NEW nb \in Buffers,
         nb.t = t, InRange(nb.ver), Len(nb.chunks) <= Room,
         \A k \in DOMAIN nb.chunks : ChunkSound(nb, nb.chunks[k])',
         s \in Live => bufs[s].t = t,
         s \in Live /\ bufs[s].chunks # <<>> /\ Head(bufs[s].chunks).done =>
             nb.chunks # <<>> /\ Head(nb.chunks).done,
         bufs' = [bufs EXCEPT ![s] = nb],
         pc'[t] \in {"fill", "commit"}, pc' = [pc EXCEPT ![t] = pc'[t]],
         filling' \in [Threads -> Slots \cup {None}],
         \A u \in Threads : u # t => filling'[u] = filling[u],
         pc'[t] = "fill" => filling'[t] = s /\ Unfinished(nb),
         UNCHANGED <<version, ring, writeSeq, whole, born, readerVars, deaths>>
  PROVE  OversizeInv'
  <1>1. /\ bufs \in [Slots -> Buffers \cup {None}] /\ ring \in Seq(Items)
        /\ pc \in [Threads -> {"idle", "seek", "fill", "commit"}]
    BY DEF OversizeInv, TypeOK
  <1>2. /\ bufs' \in [Slots -> Buffers \cup {None}] /\ bufs'[s] = nb
        /\ \A z \in Slots : z # s => bufs'[z] = bufs[z]
    BY <1>1
  <1>3. /\ pc' \in [Threads -> {"idle", "seek", "fill", "commit"}]
        /\ \A u \in Threads : u # t => pc'[u] = pc[u]
        /\ \A u \in Threads : pc'[u] # "idle" <=> pc[u] # "idle"
        /\ \A u \in Threads : pc'[u] = "seek" => pc[u] = "seek"
    BY <1>1
  <1>4. nb # None BY OversizeAssumption
  <1>5. s \in Live' /\ \A z \in Slots : z # s => (z \in Live' <=> z \in Live)
    BY <1>2, <1>4 DEF Live
  <1>6. RingSound'
    <2>1. ASSUME NEW i \in DOMAIN ring PROVE EntrySound(ring[i])'
      <3>1. ring[i].t \in Threads
        <4>1. ring[i] \in Items BY <1>1
        <4> QED BY <4>1 DEF Items
      <3>2. pc'[ring[i].t] # "idle" <=> pc[ring[i].t] # "idle" BY <1>3, <3>1
      <3>3. EntrySound(ring[i]) BY DEF OversizeInv, RingSound
      <3> QED BY <3>2, <3>3 DEF EntrySound, InRange, Age
    <2> QED BY <1>3, <2>1 DEF OversizeInv, RingSound
  <1>7. BuffersSound'
    <2>1. ASSUME NEW z \in Live', z # s
          PROVE  (InRange(bufs[z].ver))' /\ \A k \in DOMAIN bufs'[z].chunks : ChunkSound(bufs[z], bufs[z].chunks[k])'
      <3>1. z \in Slots /\ z \in Live /\ bufs'[z] = bufs[z] BY <1>2, <1>5, <2>1 DEF Live
      <3>2. bufs[z] \in Buffers BY <1>1, <3>1 DEF Live
      <3>3. InRange(bufs[z].ver) BY <3>1 DEF OversizeInv, BuffersSound
      <3>4. ASSUME NEW k \in DOMAIN bufs'[z].chunks PROVE ChunkSound(bufs[z], bufs[z].chunks[k])'
        <4> DEFINE c == bufs[z].chunks[k]
        <4>1. ChunkSound(bufs[z], c) BY <3>1, <3>4 DEF OversizeInv, BuffersSound
        <4>2. c \in Chunks BY <3>1, <3>2, <3>4 DEF Buffers
        <4>3. bufs'[z].chunks[k] = c /\ bufs'[z] = bufs[z] BY <3>1
        <4> HIDE DEF c
        <4>4. c.t \in Threads BY <4>2 DEF Chunks
        <4>5. pc'[c.t] = "seek" => pc[c.t] = "seek" BY <1>3, <4>4
        <4> QED BY <4>1, <4>3, <4>5 DEF ChunkSound
      <3> QED BY <3>1, <3>3, <3>4 DEF InRange, Age
    <2>2. (InRange(bufs[s].ver))' /\ \A k \in DOMAIN bufs'[s].chunks : ChunkSound(bufs[s], bufs[s].chunks[k])'
      <3>1. \A k \in DOMAIN nb.chunks : ChunkSound(bufs[s], bufs[s].chunks[k])'
        BY <1>2 DEF ChunkSound
      <3> QED BY <1>2, <3>1 DEF InRange, Age
    <2> QED BY <2>1, <2>2 DEF BuffersSound
  <1>8. FillersHold'
    <2> SUFFICES ASSUME NEW u \in Threads, pc'[u] = "fill"
                 PROVE  filling'[u] \in Live' /\ bufs'[filling'[u]].t = u /\ Unfinished(bufs'[filling'[u]])
      BY DEF FillersHold, Unfinished
    <2>1. CASE u = t BY <1>2, <1>5, <2>1
    <2>2. CASE u # t
      <3> DEFINE z == filling[u]
      <3>1. pc[u] = "fill" /\ filling'[u] = z BY <1>3, <2>2
      <3>2. z \in Live /\ bufs[z].t = u /\ Unfinished(bufs[z]) BY <3>1 DEF OversizeInv, FillersHold
      <3> HIDE DEF z
      <3>3. z # s /\ z \in Slots BY <2>2, <3>2 DEF Live
      <3>4. z \in Live' /\ bufs'[z] = bufs[z] BY <1>2, <1>5, <3>2, <3>3
      <3> QED BY <3>1, <3>2, <3>4
    <2> QED BY <2>1, <2>2
  <1>9. ReaderSound'
    <2>1. UNCHANGED <<reading, rpc, target>> BY DEF readerVars
    <2>2. InRange(reading)' BY <2>1 DEF OversizeInv, ReaderSound, InRange, Age
    <2>3. ASSUME rpc = "big"
          PROVE  target \in Live' /\ bufs'[target].chunks # <<>> /\ Head(bufs'[target].chunks).done
      <3>1. target \in Live /\ bufs[target].chunks # <<>> /\ Head(bufs[target].chunks).done
        BY <2>3 DEF OversizeInv, ReaderSound
      <3>2. CASE target = s BY <1>2, <1>5, <3>1, <3>2
      <3>3. CASE target # s BY <1>2, <1>5, <3>1, <3>3 DEF Live
      <3> QED BY <3>2, <3>3
    <2> QED BY <2>1, <2>2, <2>3 DEF OversizeInv, ReaderSound, HeadInUse
  <1>10. OutSound'
    <2>1. UNCHANGED <<out, whole, born, deaths, ring>> /\ (HeadInUse => HeadInUse')
      BY DEF readerVars, HeadInUse
    <2> QED BY <2>1, OutKept
  <1>11. \A z \in Live' : Len(bufs'[z].chunks) <= Room
    <2> TAKE z \in Live'
    <2>1. CASE z = s BY <1>2, <2>1
    <2>2. CASE z # s
      <3>1. z \in Slots BY DEF Live
      <3>2. z \in Live /\ bufs'[z] = bufs[z] BY <1>2, <1>5, <2>2, <3>1
      <3> QED BY <3>2 DEF OversizeInv, TypeOK
    <2> QED BY <2>1, <2>2
  <1>12. TypeOK'
    BY <1>2, <1>3, <1>11 DEF OversizeInv, TypeOK, readerVars
  <1> QED BY <1>6, <1>7, <1>8, <1>9, <1>10, <1>12 DEF OversizeInv

\* What Seek puts where: c at the end of b, which gives nb.
SeekPuts(t, s, b, c, nb) ==
  /\ b.ver = version /\ b.t = t /\ Len(b.chunks) < Room
  /\ s \in Live => b = bufs[s]
  /\ \A k \in DOMAIN b.chunks : s \in Live
  /\ c.ver = version /\ c.t = t /\ c.seq = writeSeq[t] - 1 /\ c.id = ring[Mine(t)].id /\ ~c.done
  /\ nb.ver = version /\ nb.t = t /\ nb.chunks = Append(b.chunks, c)
  /\ bufs' = [bufs EXCEPT ![s] = nb] /\ filling' = [filling EXCEPT ![t] = s]

LEMMA SeekPlaces ==
  ASSUME OversizeInv, NEW t \in Threads, Seek(t)
  PROVE  \E s \in Slots, b \in Buffers, c \in Chunks, nb \in Buffers : SeekPuts(t, s, b, c, nb)
  <1>1. /\ pc[t] = "seek" /\ pc' = [pc EXCEPT ![t] = "fill"]
        /\ UNCHANGED <<version, ring, writeSeq, whole, born, readerVars, deaths>>
    BY DEF Seek, Goto
  <1>2. PICK m : m = Mine(t) OBVIOUS
  <1>3. PICK c : c = [ver |-> version, t |-> t, seq |-> ring[m].seq, id |-> ring[m].id, done |-> FALSE]
    OBVIOUS
  <1>4. PICK s, b :
          /\ s \in Slots
          /\ \/ s \in OwnWithRoom(t) /\ b = bufs[s]
             \/ OwnWithRoom(t) = {} /\ s \notin Live /\ b = Buffer(t)
          /\ Place(t, s, b)
    BY DEF Seek, OwnWithRoom, Live
  <1>5. /\ m \in DOMAIN ring /\ ring[m].t = t /\ ~ring[m].done /\ ring[m].ver = version
        /\ ring[m].seq = writeSeq[t] - 1 /\ ring[m].seq \in Nat /\ ring[m].id \in 1..Len(born)
        /\ \A i \in DOMAIN ring : ring[i].t = t /\ ~ring[i].done => i = m
    BY <1>1, <1>2, MineIs
  <1>6. /\ version \in Version /\ writeSeq \in [Threads -> Nat] /\ ring \in Seq(Items)
        /\ pc \in [Threads -> {"idle", "seek", "fill", "commit"}]
        /\ bufs \in [Slots -> Buffers \cup {None}]
        /\ filling \in [Threads -> Slots \cup {None}]
        /\ born \in Seq(Nat)
    BY DEF OversizeInv, TypeOK
  <1>7. /\ c \in Chunks /\ c.ver = version /\ c.t = t /\ c.seq = writeSeq[t] - 1
        /\ c.id = ring[m].id /\ ~c.done
    <2>1. ring[m] \in Items BY <1>5, <1>6
    <2>2. ring[m].id \in Nat BY <2>1 DEF Items
    <2> QED BY <1>3, <1>5, <1>6, <2>2 DEF Chunks
  <1>8. /\ b \in Buffers /\ b.ver = version /\ b.t = t /\ Len(b.chunks) < Room
        /\ s \in Live => b = bufs[s]
        /\ \A k \in DOMAIN b.chunks : s \in Live
    <2>1. CASE s \in OwnWithRoom(t) /\ b = bufs[s]
      <3>1. s \in Live /\ b.ver = version /\ b.t = t /\ Len(b.chunks) < Room BY <2>1 DEF OwnWithRoom
      <3>2. b \in Buffers BY <1>6, <2>1, <3>1 DEF Live
      <3> QED BY <2>1, <3>1, <3>2
    <2>2. CASE s \notin Live /\ b = Buffer(t)
      <3>1. b = [ver |-> version, t |-> t, chunks |-> <<>>] BY <2>2 DEF Buffer
      <3>2. b \in Buffers /\ b.chunks = <<>> /\ b.ver = version /\ b.t = t
        BY <1>6, <3>1 DEF Buffers
      <3>3. Len(b.chunks) < Room BY <3>2, OversizeAssumption
      <3> QED BY <2>2, <3>2, <3>3
    <2> QED BY <1>4, <2>1, <2>2
  <1>9. b.chunks \in Seq(Chunks) BY <1>8 DEF Buffers
  <1>10. PICK n \in Nat : n = Len(b.chunks) BY <1>9
  <1>11. PICK cs : cs = Append(b.chunks, c) OBVIOUS
  <1>12. /\ cs \in Seq(Chunks) /\ Len(cs) = n + 1 /\ DOMAIN cs = 1..(n + 1) /\ DOMAIN b.chunks = 1..n
         /\ cs[n + 1] = c /\ \A k \in 1..n : cs[k] = b.chunks[k]
    BY <1>7, <1>9, <1>10, <1>11
  <1>13. PICK nb : nb = [b EXCEPT !.chunks = cs] OBVIOUS
  <1>14. nb \in Buffers /\ nb.ver = version /\ nb.t = t /\ nb.chunks = cs
    BY <1>8, <1>12, <1>13 DEF Buffers
  <1>15. /\ bufs' = [bufs EXCEPT ![s] = nb] /\ filling' = [filling EXCEPT ![t] = s]
    <2>1. /\ bufs' = [bufs EXCEPT ![s] = [b EXCEPT !.chunks = Append(@, c)]]
          /\ filling' = [filling EXCEPT ![t] = s]
      BY <1>2, <1>3, <1>4 DEF Place
    <2>2. nb = [b EXCEPT !.chunks = Append(@, c)] BY <1>11, <1>13
    <2> QED BY <2>1, <2>2
  <1> QED BY <1>2, <1>4, <1>7, <1>8, <1>11, <1>14, <1>15 DEF SeekPuts

LEMMA SeekStep ==
  ASSUME OversizeInv, NEW t \in Threads, Seek(t)
  PROVE  OversizeInv'
  <1>1. /\ pc[t] = "seek" /\ pc' = [pc EXCEPT ![t] = "fill"]
        /\ UNCHANGED <<version, ring, writeSeq, whole, born, readerVars, deaths>>
    BY DEF Seek, Goto
  <1>2. PICK m : m = Mine(t) OBVIOUS
  <1>3. /\ m \in DOMAIN ring /\ ring[m].t = t /\ ~ring[m].done /\ ring[m].ver = version
        /\ ring[m].seq = writeSeq[t] - 1 /\ ring[m].seq \in Nat /\ ring[m].id \in 1..Len(born)
        /\ \A i \in DOMAIN ring : ring[i].t = t /\ ~ring[i].done => i = m
    BY <1>1, <1>2, MineIs
  <1>4. /\ version \in Version /\ writeSeq \in [Threads -> Nat] /\ ring \in Seq(Items)
        /\ pc \in [Threads -> {"idle", "seek", "fill", "commit"}]
        /\ bufs \in [Slots -> Buffers \cup {None}]
        /\ filling \in [Threads -> Slots \cup {None}]
        /\ born \in Seq(Nat)
    BY DEF OversizeInv, TypeOK
  <1>5. PICK s \in Slots, b \in Buffers, c \in Chunks, nb \in Buffers : SeekPuts(t, s, b, c, nb)
    BY SeekPlaces
  <1>6. c.ver = version /\ c.t = t /\ c.seq = writeSeq[t] - 1 /\ c.id = ring[m].id /\ ~c.done
    BY <1>2, <1>5 DEF SeekPuts
  <1>7. /\ b.ver = version /\ b.t = t /\ Len(b.chunks) < Room
        /\ s \in Live => b = bufs[s]
        /\ \A k \in DOMAIN b.chunks : s \in Live
    BY <1>5 DEF SeekPuts
  <1>8. b.chunks \in Seq(Chunks) BY DEF Buffers
  <1>9. PICK n \in Nat : n = Len(b.chunks) BY <1>8
  <1>10. PICK cs : cs = Append(b.chunks, c) OBVIOUS
  <1>11. /\ cs \in Seq(Chunks) /\ Len(cs) = n + 1 /\ DOMAIN cs = 1..(n + 1) /\ DOMAIN b.chunks = 1..n
         /\ cs[n + 1] = c /\ \A k \in 1..n : cs[k] = b.chunks[k]
    BY <1>8, <1>9, <1>10
  <1>12. nb.ver = version /\ nb.t = t /\ nb.chunks = cs BY <1>5, <1>10 DEF SeekPuts
  <1>13. bufs' = [bufs EXCEPT ![s] = nb] /\ filling' = [filling EXCEPT ![t] = s] BY <1>5 DEF SeekPuts
  <1>14. Len(nb.chunks) <= Room BY <1>7, <1>9, <1>11, <1>12, OversizeAssumption
  <1>15. Unfinished(nb)
    <2>1. cs # <<>>
      <3>1. Len(cs) # 0 BY <1>11
      <3>2. Len(<<>>) = 0 OBVIOUS
      <3> QED BY <3>1, <3>2
    <2> QED BY <1>6, <1>11, <1>12, <2>1 DEF Unfinished, Last
  <1>16. InRange(nb.ver)
    <2>1. Old(version, version) = 0 BY <1>4, OldVersions
    <2>2. InRange(version) BY <2>1, RangeIsOld, Constants
    <2> QED BY <1>12, <2>2
  <1>17. pc'[t] = "fill" /\ \A u \in Threads : u # t => pc'[u] = pc[u] BY <1>1, <1>4
  <1>18. ASSUME NEW k \in DOMAIN nb.chunks PROVE ChunkSound(nb, nb.chunks[k])'
    <2>1. k = n + 1 \/ k \in 1..n BY <1>11, <1>12
    <2>2. CASE k = n + 1
      <3>1. nb.chunks[k] = c BY <1>11, <1>12, <2>2
      <3>2. writeSeq'[t] = writeSeq[t] /\ writeSeq[t] \in Nat /\ version' = version BY <1>1, <1>4
      <3>3. c.seq < writeSeq'[t] BY <1>6, <3>2
      <3>4. ASSUME NEW i \in DOMAIN ring, ring[i].ver = c.ver, ring[i].t = c.t, ring[i].seq = c.seq
            PROVE  ring[i].id = c.id
        <4>1. EntrySound(ring[i]) BY DEF OversizeInv, RingSound
        <4>2. ring[i] \in Items BY <1>4
        <4>3. CASE ring[i].done
          <5>1. ring[i].seq < writeSeq[t] - 1 BY <1>1, <1>6, <3>4, <4>1, <4>3 DEF EntrySound
          <5> QED BY <1>6, <3>2, <3>4, <5>1
        <4>4. CASE ~ring[i].done
          <5>1. i = m BY <1>3, <1>6, <3>4, <4>4
          <5> QED BY <1>6, <5>1
        <4> QED BY <4>3, <4>4
      <3>5. \A i \in DOMAIN ring' : ring'[i].ver = c.ver /\ ring'[i].t = c.t /\ ring'[i].seq = c.seq =>
              ring'[i].id = c.id
        BY <1>1, <3>4
      <3> QED BY <1>6, <1>12, <1>17, <3>1, <3>2, <3>3, <3>5 DEF ChunkSound
    <2>3. CASE k \in 1..n
      <3>1. nb.chunks[k] = b.chunks[k] /\ k \in DOMAIN b.chunks BY <1>11, <1>12, <2>3
      <3>2. s \in Live /\ b = bufs[s] BY <1>7, <3>1
      <3> DEFINE y == b.chunks[k]
      <3>3. ChunkSound(b, y) BY <3>1, <3>2 DEF OversizeInv, BuffersSound
      <3> HIDE DEF y
      <3>4. y.t = t /\ y.ver = version BY <1>7, <3>3 DEF ChunkSound
      <3>5. nb.chunks[k] = y BY <3>1 DEF y
      <3> QED BY <1>1, <1>12, <1>17, <3>3, <3>4, <3>5 DEF ChunkSound
    <2> QED BY <2>1, <2>2, <2>3
  <1>19. s \in Live /\ bufs[s].chunks # <<>> /\ Head(bufs[s].chunks).done =>
           nb.chunks # <<>> /\ Head(nb.chunks).done
    <2> HAVE s \in Live /\ bufs[s].chunks # <<>> /\ Head(bufs[s].chunks).done
    <2>1. b.chunks # <<>> /\ b.chunks[1].done BY <1>7, <1>8
    <2>2. n >= 1 BY <1>8, <1>9, <2>1
    <2>3. cs # <<>> /\ Head(cs) = cs[1] /\ cs[1] = b.chunks[1] BY <1>11, <2>2
    <2> QED BY <1>12, <2>1, <2>3
  <1>20. /\ filling' \in [Threads -> Slots \cup {None}] /\ filling'[t] = s
         /\ \A u \in Threads : u # t => filling'[u] = filling[u]
    BY <1>5, <1>4, <1>13
  <1>21. s \in Live => bufs[s].t = t BY <1>7
  <1>22. pc' = [pc EXCEPT ![t] = pc'[t]] BY <1>1, <1>17
  <1>23. s \in Slots BY <1>5
  <1> QED
    BY <1>23, <1>1, <1>12, <1>13, <1>14, <1>15, <1>16, <1>17, <1>18, <1>19, <1>20, <1>21, <1>22, BufferStep

\* What CommitChunk changes: the last of the n chunks of b becomes c, which gives nb.
ChunkEnds(t, s, b, n, c, nb) ==
  /\ s = filling[t] /\ s \in Live /\ b = bufs[s] /\ b.t = t /\ Unfinished(b)
  /\ b.chunks \in Seq(Chunks) /\ n = Len(b.chunks) /\ n \in DOMAIN b.chunks /\ DOMAIN b.chunks = 1..n
  /\ c.ver = b.chunks[n].ver /\ c.t = b.chunks[n].t /\ c.seq = b.chunks[n].seq
  /\ c.id = b.chunks[n].id /\ c.done
  /\ nb.ver = b.ver /\ nb.t = t
  /\ Len(nb.chunks) = n /\ DOMAIN nb.chunks = 1..n /\ nb.chunks[n] = c
  /\ \A k \in 1..n : k # n => nb.chunks[k] = b.chunks[k]
  /\ bufs' = [bufs EXCEPT ![s] = nb]

LEMMA CommitChunkEnds ==
  ASSUME OversizeInv, NEW t \in Threads, CommitChunk(t)
  PROVE  \E s \in Slots, b \in Buffers, n \in Nat, c \in Chunks, nb \in Buffers :
           ChunkEnds(t, s, b, n, c, nb)
  <1>1. PICK s : s = filling[t] OBVIOUS
  <1>2. PICK b : b = bufs[s] OBVIOUS
  <1>3. /\ pc[t] = "fill" /\ pc' = [pc EXCEPT ![t] = "commit"]
        /\ bufs' = [bufs EXCEPT ![s].chunks[Len(b.chunks)].done = TRUE]
        /\ filling' = [filling EXCEPT ![t] = None]
        /\ UNCHANGED <<version, ring, writeSeq, whole, born, readerVars, deaths>>
    BY <1>1, <1>2 DEF CommitChunk, Goto
  <1>4. s \in Live /\ s \in Slots /\ b.t = t /\ Unfinished(b)
    BY <1>1, <1>2, <1>3 DEF OversizeInv, FillersHold, Live
  <1>5. /\ bufs \in [Slots -> Buffers \cup {None}] /\ filling \in [Threads -> Slots \cup {None}]
        /\ pc \in [Threads -> {"idle", "seek", "fill", "commit"}]
    BY DEF OversizeInv, TypeOK
  <1>6. b \in Buffers /\ b.chunks \in Seq(Chunks) /\ b.chunks # <<>>
    <2>1. b \in Buffers BY <1>2, <1>4, <1>5 DEF Live
    <2> QED BY <1>4, <2>1 DEF Buffers, Unfinished
  <1>7. PICK n \in Nat : n = Len(b.chunks) BY <1>6
  <1>8. n \in DOMAIN b.chunks /\ DOMAIN b.chunks = 1..n BY <1>6, <1>7
  <1>9. PICK c : c = [b.chunks[n] EXCEPT !.done = TRUE] OBVIOUS
  <1>10. /\ c \in Chunks /\ c.ver = b.chunks[n].ver /\ c.t = b.chunks[n].t /\ c.seq = b.chunks[n].seq
         /\ c.id = b.chunks[n].id /\ c.done
    <2>1. b.chunks[n] \in Chunks BY <1>6, <1>8
    <2> QED BY <1>9, <2>1 DEF Chunks
  <1>11. PICK cs : cs = [b.chunks EXCEPT ![n] = c] OBVIOUS
  <1>12. /\ cs \in Seq(Chunks) /\ Len(cs) = n /\ DOMAIN cs = 1..n /\ cs[n] = c
         /\ \A k \in 1..n : k # n => cs[k] = b.chunks[k]
    BY <1>6, <1>7, <1>8, <1>10, <1>11
  <1>13. PICK nb : nb = [b EXCEPT !.chunks = cs] OBVIOUS
  <1>14. nb \in Buffers /\ nb.ver = b.ver /\ nb.t = t /\ nb.chunks = cs
    BY <1>4, <1>6, <1>12, <1>13 DEF Buffers
  <1>15. bufs' = [bufs EXCEPT ![s] = nb]
    <2>1. bufs' = [bufs EXCEPT ![s].chunks[n].done = TRUE] BY <1>3, <1>7
    <2>2. nb = [b EXCEPT !.chunks[n].done = TRUE] BY <1>6, <1>9, <1>11, <1>13
    <2> QED BY <1>2, <2>1, <2>2
  <1>16. /\ Len(nb.chunks) = n /\ DOMAIN nb.chunks = 1..n /\ nb.chunks[n] = c
         /\ \A k \in 1..n : k # n => nb.chunks[k] = b.chunks[k]
    BY <1>12, <1>14
  <1>17. ChunkEnds(t, s, b, n, c, nb)
    BY <1>1, <1>2, <1>4, <1>6, <1>7, <1>8, <1>10, <1>14, <1>15, <1>16 DEF ChunkEnds
  <1> QED BY <1>4, <1>6, <1>10, <1>14, <1>17

LEMMA CommitChunkStep ==
  ASSUME OversizeInv, NEW t \in Threads, CommitChunk(t)
  PROVE  OversizeInv'
  <1>1. PICK s \in Slots, b \in Buffers, n \in Nat, c \in Chunks, nb \in Buffers :
          ChunkEnds(t, s, b, n, c, nb)
    BY CommitChunkEnds
  <1>2. /\ pc[t] = "fill" /\ pc' = [pc EXCEPT ![t] = "commit"]
        /\ filling' = [filling EXCEPT ![t] = None]
        /\ UNCHANGED <<version, ring, writeSeq, whole, born, readerVars, deaths>>
    BY DEF CommitChunk, Goto
  <1>3. s \in Live /\ b = bufs[s] /\ b.t = t /\ Unfinished(b) BY <1>1 DEF ChunkEnds
  <1>4. /\ bufs \in [Slots -> Buffers \cup {None}] /\ filling \in [Threads -> Slots \cup {None}]
        /\ pc \in [Threads -> {"idle", "seek", "fill", "commit"}]
    BY DEF OversizeInv, TypeOK
  <1>5. b.chunks \in Seq(Chunks) /\ b.chunks # <<>> BY <1>1 DEF ChunkEnds, Unfinished
  <1>6. n = Len(b.chunks) /\ n \in DOMAIN b.chunks /\ DOMAIN b.chunks = 1..n BY <1>1 DEF ChunkEnds
  <1>7. /\ c.ver = b.chunks[n].ver /\ c.t = b.chunks[n].t /\ c.seq = b.chunks[n].seq
         /\ c.id = b.chunks[n].id /\ c.done
    BY <1>1 DEF ChunkEnds
  <1>8. /\ nb.ver = b.ver /\ nb.t = t
         /\ Len(nb.chunks) = n /\ DOMAIN nb.chunks = 1..n /\ nb.chunks[n] = c
         /\ \A k \in 1..n : k # n => nb.chunks[k] = b.chunks[k]
    BY <1>1 DEF ChunkEnds
  <1>9. bufs' = [bufs EXCEPT ![s] = nb] BY <1>1 DEF ChunkEnds
  <1>10. Len(nb.chunks) <= Room
    BY <1>3, <1>6, <1>8 DEF OversizeInv, TypeOK
  <1>11. InRange(nb.ver) BY <1>1, <1>3, <1>8 DEF OversizeInv, BuffersSound
  <1>12. pc'[t] = "commit" BY <1>2, <1>4
  <1>13. ASSUME NEW k \in DOMAIN nb.chunks PROVE ChunkSound(nb, nb.chunks[k])'
    <2> DEFINE y == b.chunks[k]
               z == nb.chunks[k]
    <2>1. k \in DOMAIN b.chunks BY <1>6, <1>8
    <2>2. ChunkSound(b, y) BY <1>1, <1>3, <2>1 DEF OversizeInv, BuffersSound
    <2>3. y.t = t BY <1>3, <2>2 DEF ChunkSound
    <2>4. z.ver = y.ver /\ z.t = y.t /\ z.seq = y.seq /\ z.id = y.id
      <3>1. CASE k = n BY <1>7, <1>8, <3>1
      <3>2. CASE k # n BY <1>6, <1>8, <2>1, <3>2
      <3> QED BY <3>1, <3>2
    <2> HIDE DEF y, z
    <2>5. ChunkSound(nb, z)' BY <1>2, <1>3, <1>8, <1>12, <2>2, <2>3, <2>4 DEF ChunkSound
    <2> QED BY <2>5 DEF z
  <1>14. bufs[s].chunks # <<>> /\ Head(bufs[s].chunks).done =>
           nb.chunks # <<>> /\ Head(nb.chunks).done
    <2> HAVE bufs[s].chunks # <<>> /\ Head(bufs[s].chunks).done
    <2>1. b.chunks[1].done /\ n >= 1 BY <1>3, <1>5, <1>6
    <2>2. nb.chunks # <<>> /\ Head(nb.chunks) = nb.chunks[1]
      <3>1. Len(nb.chunks) # 0 BY <1>8, <2>1
      <3>2. Len(<<>>) = 0 OBVIOUS
      <3> QED BY <1>8, <3>1, <3>2
    <2>3. nb.chunks[1].done
      <3>1. 1 \in 1..n BY <2>1
      <3>2. CASE n = 1 BY <1>7, <1>8, <3>2
      <3>3. CASE n # 1 BY <1>8, <2>1, <3>1, <3>3
      <3> QED BY <3>2, <3>3
    <2> QED BY <1>8, <2>2, <2>3
  <1>15. /\ filling' \in [Threads -> Slots \cup {None}]
         /\ \A u \in Threads : u # t => filling'[u] = filling[u]
    BY <1>2, <1>4
  <1>16. pc' = [pc EXCEPT ![t] = pc'[t]] BY <1>2, <1>12
  <1>17. bufs[s].t = t BY <1>1, <1>3
  <1> QED
    BY <1>2, <1>3, <1>8, <1>9, <1>10, <1>11, <1>12, <1>13, <1>14, <1>15, <1>16, <1>17, BufferStep

-----------------------------------------------------------------------------
(***************************************************************************)
(* The process dies.                                                       *)
(***************************************************************************)

LEMMA ReadyOf ==
  ASSUME OversizeInv
  PROVE  /\ Ready \in Seq(Items)
         /\ \A i \in DOMAIN Ready : i \in DOMAIN ring /\ Ready[i] = ring[i] /\ ring[i].done
  <1> DEFINE open == {i \in DOMAIN ring : ~ring[i].done}
             o == CHOOSE i \in open : \A j \in open : i <= j
  <1>1. ring \in Seq(Items) BY DEF OversizeInv, TypeOK
  <1>2. CASE open = {}
    <2>1. Ready = ring BY <1>2 DEF Ready
    <2> QED BY <1>1, <1>2, <2>1
  <1>3. CASE open # {}
    <2>1. open \in SUBSET Nat BY <1>1
    <2>2. o \in open /\ \A j \in open : o <= j BY <1>3, <2>1, Smallest
    <2>3. Ready = SubSeq(ring, 1, o - 1) BY <1>3 DEF Ready
    <2> HIDE DEF o
    <2>4. o \in 1..Len(ring) BY <1>1, <2>2
    <2>5. /\ Ready \in Seq(Items) /\ DOMAIN Ready = 1..(o - 1)
          /\ \A i \in 1..(o - 1) : Ready[i] = ring[i]
      BY <1>1, <2>3, <2>4
    <2>6. ASSUME NEW i \in 1..(o - 1) PROVE i \in DOMAIN ring /\ ring[i].done
      <3>1. i \in DOMAIN ring BY <1>1, <2>4
      <3>2. i \notin open BY <2>2, <2>4
      <3> QED BY <3>1, <3>2
    <2> QED BY <2>5, <2>6
  <1> QED BY <1>2, <1>3

LEMMA FixedOf ==
  ASSUME OversizeInv, NEW v \in Version
  PROVE  /\ Fixed(v) \in Seq(Items)
         /\ \A i \in DOMAIN Fixed(v) :
              /\ i \in DOMAIN ring /\ ring[i] \in Items /\ ring[i].done
              /\ Fixed(v)[i].id = ring[i].id /\ Fixed(v)[i].done /\ Fixed(v)[i].t = ring[i].t
              /\ Fixed(v)[i].seq = ring[i].seq /\ Fixed(v)[i].ref = ring[i].ref
              /\ \/ Fixed(v)[i].ver = ring[i].ver /\ ring[i].ver # v
                 \/ Fixed(v)[i].ver = (v + 1) % V /\ ring[i].ver = v
  <1> DEFINE w == (v + 1) % V
             f == Fixed(v)
  <1>1. w \in Version BY NextVer
  <1>2. f = [i \in DOMAIN Ready |-> IF Ready[i].ver = v THEN [Ready[i] EXCEPT !.ver = w] ELSE Ready[i]]
    BY DEF Fixed
  <1>3. /\ Ready \in Seq(Items)
        /\ \A i \in DOMAIN Ready : i \in DOMAIN ring /\ Ready[i] = ring[i] /\ ring[i].done
    BY ReadyOf
  <1>4. DOMAIN f = DOMAIN Ready BY <1>2
  <1> HIDE DEF w, f
  <1>5. ASSUME NEW i \in DOMAIN f
        PROVE  /\ f[i] \in Items /\ i \in DOMAIN ring /\ ring[i] \in Items /\ ring[i].done
               /\ f[i].id = ring[i].id /\ f[i].done /\ f[i].t = ring[i].t /\ f[i].seq = ring[i].seq
               /\ f[i].ref = ring[i].ref
               /\ \/ f[i].ver = ring[i].ver /\ ring[i].ver # v
                  \/ f[i].ver = w /\ ring[i].ver = v
    <2>1. i \in DOMAIN ring /\ Ready[i] = ring[i] /\ ring[i].done BY <1>3, <1>4, <1>5
    <2>2. Ready[i] \in Items BY <1>3, <1>4, <1>5
    <2>3. CASE ring[i].ver = v
      <3>1. f[i] = [ring[i] EXCEPT !.ver = w] BY <1>2, <1>4, <1>5, <2>1, <2>3
      <3> QED BY <1>1, <2>1, <2>2, <2>3, <3>1 DEF Items
    <2>4. CASE ring[i].ver # v
      <3>1. f[i] = ring[i] BY <1>2, <1>4, <1>5, <2>1, <2>4
      <3> QED BY <2>1, <2>2, <2>4, <3>1
    <2> QED BY <2>3, <2>4
  <1>6. f \in Seq(Items)
    <2>1. PICK n \in Nat : DOMAIN f = 1..n
      <3>1. DOMAIN Ready = 1..Len(Ready) /\ Len(Ready) \in Nat BY <1>3
      <3> QED BY <1>4, <3>1
    <2>2. f \in [1..n -> Items]
      <3>1. \A i \in 1..n : f[i] \in Items BY <1>5, <2>1
      <3>2. f = [i \in 1..n |-> f[i]] BY <1>2, <1>4, <2>1
      <3> QED BY <3>1, <3>2
    <2> QED BY <2>2
  <1> QED BY <1>5, <1>6 DEF f, w

\* What a process that dies leaves in a buffer is in it, and finished.
LEMMA RecoveredOf ==
  ASSUME OversizeInv, NEW v \in Version, NEW s \in Slots, Recovered(s, v) # None
  PROVE  /\ s \in Live /\ Old(v, bufs[s].ver) <= Span /\ Recovered(s, v) \in Buffers
         /\ Recovered(s, v).ver = bufs[s].ver /\ Recovered(s, v).t = bufs[s].t
         /\ Len(Recovered(s, v).chunks) <= Room
         /\ \A n \in DOMAIN Recovered(s, v).chunks :
              n \in DOMAIN bufs[s].chunks /\ Recovered(s, v).chunks[n] = bufs[s].chunks[n]
  <1> DEFINE cs == bufs[s].chunks
             fs == Finished(bufs[s])
  <1>1. /\ bufs[s] # None /\ ~((v - bufs[s].ver) % V > Span)
        /\ Recovered(s, v) = [bufs[s] EXCEPT !.chunks = fs]
    BY DEF Recovered
  <1>2. s \in Live /\ bufs[s] \in Buffers BY <1>1 DEF OversizeInv, TypeOK, Live
  <1>3. cs \in Seq(Chunks) /\ bufs[s].ver \in Version BY <1>2 DEF Buffers
  <1>4. /\ fs \in Seq(Chunks) /\ Len(fs) <= Len(cs)
        /\ \A n \in DOMAIN fs : n \in DOMAIN cs /\ fs[n] = cs[n]
    <2>1. CASE Unfinished(bufs[s])
      <3>1. cs # <<>> /\ fs = Front(cs) BY <2>1 DEF Finished, Unfinished
      <3> HIDE DEF cs, fs
      <3> QED BY <1>3, <3>1, FrontOf
    <2>2. CASE ~Unfinished(bufs[s])
      <3>1. fs = cs BY <2>2 DEF Finished
      <3> QED BY <1>3, <3>1
    <2> QED BY <2>1, <2>2
  <1> HIDE DEF fs
  <1>5. /\ Recovered(s, v) \in Buffers /\ Recovered(s, v).chunks = fs
        /\ Recovered(s, v).ver = bufs[s].ver /\ Recovered(s, v).t = bufs[s].t
    BY <1>1, <1>2, <1>4 DEF Buffers
  <1>6. Old(v, bufs[s].ver) <= Span
    <2>1. Old(v, bufs[s].ver) \in 0..(V - 1) BY <1>3, OldVersions
    <2> QED BY <1>1, <2>1, Constants DEF Old
  <1>7. Len(fs) <= Room
    <2>1. Len(cs) <= Room BY <1>2 DEF OversizeInv, TypeOK
    <2>2. Len(cs) \in Nat /\ Len(fs) \in Nat BY <1>3, <1>4
    <2> QED BY <1>4, <2>1, <2>2, OversizeAssumption
  <1> QED BY <1>2, <1>4, <1>5, <1>6, <1>7

LEMMA DieStep ==
  ASSUME OversizeInv, Die
  PROVE  OversizeInv'
  <1>1. PICK v : v = (version + 1) % V OBVIOUS
  <1>2. /\ deaths' = deaths + 1 /\ version' = v /\ ring' = Fixed(v) /\ reading' = (v - Span) % V
        /\ bufs' = [s \in Slots |-> Recovered(s, v)]
        /\ pc' = [t \in Threads |-> "idle"] /\ filling' = [t \in Threads |-> None]
        /\ writeSeq' = [t \in Threads |-> 0] /\ target' = None /\ rpc' = "idle"
        /\ UNCHANGED <<out, whole, born>>
    BY <1>1 DEF Die
  <1>3. version \in Version /\ deaths \in Nat /\ born \in Seq(Nat) BY DEF OversizeInv, TypeOK
  <1>4. v \in Version BY <1>1, <1>3, NextVer
  <1>5. PICK w : w = (v + 1) % V OBVIOUS
  <1>6. w \in Version /\ w # v /\ Old(v, w) = V - 1 BY <1>4, <1>5, NextVer, OldVersions
  <1>7. \A u \in Version : /\ u # v => Old(v, u) = Old(version, u) + 1
                           /\ Old(version, u) <= Span => u # v
                           /\ Old(version, u) \in 0..(V - 1) /\ Old(v, u) \in 0..(V - 1)
    BY <1>1, <1>3, <1>4, Ageing, OldVersions
  <1>8. reading' \in Version /\ Old(v, reading') = Span
    <2>1. PICK u : u = (v - Span) % V OBVIOUS
    <2>2. u \in Version /\ Old(v, u) = Span BY <1>4, <2>1, PreviousVer DEF Old
    <2> QED BY <1>2, <2>1, <2>2
  <1>9. PICK f : f = Fixed(v) OBVIOUS
  <1>10. /\ f \in Seq(Items)
         /\ \A i \in DOMAIN f :
              /\ i \in DOMAIN ring /\ ring[i] \in Items /\ ring[i].done
              /\ f[i].id = ring[i].id /\ f[i].done /\ f[i].t = ring[i].t /\ f[i].seq = ring[i].seq
              /\ \/ f[i].ver = ring[i].ver /\ ring[i].ver # v
                 \/ f[i].ver = w /\ ring[i].ver = v
    BY <1>4, <1>5, <1>9, FixedOf
  <1>11. ring' = f BY <1>2, <1>9
  <1>12. ASSUME NEW i \in DOMAIN f
         PROVE  /\ f[i].id \in 1..Len(born) /\ f[i].ver # v
                /\ Old(v, f[i].ver) <= Span => f[i].ver = ring[i].ver /\ f[i].id \in whole
    <2>1. EntrySound(ring[i]) BY <1>10 DEF OversizeInv, RingSound
    <2>2. ring[i].ver \in Version BY <1>10 DEF Items
    <2>3. f[i].id \in 1..Len(born) BY <1>10, <2>1 DEF EntrySound
    <2>4. CASE f[i].ver = ring[i].ver /\ ring[i].ver # v
      <3>1. Old(v, f[i].ver) <= Span => Old(version, ring[i].ver) <= Span
        BY <1>7, <2>2, <2>4, Constants
      <3>2. Old(version, ring[i].ver) <= Span => ring[i].id \in whole
        BY <1>10, <2>1, RangeIsOld DEF EntrySound
      <3> QED BY <1>10, <2>3, <2>4, <3>1, <3>2
    <2>5. CASE f[i].ver = w
      <3>1. ~(Old(v, f[i].ver) <= Span) BY <1>6, <2>5, Constants
      <3> QED BY <1>6, <2>3, <2>5, <3>1
    <2> QED BY <1>10, <2>4, <2>5
  <1>13. RingSound'
    <2>1. \A i \in DOMAIN ring' : EntrySound(ring[i])'
      <3> TAKE i \in DOMAIN ring'
      <3>1. i \in DOMAIN f /\ ring'[i] = f[i] /\ f[i].done BY <1>10, <1>11
      <3>2. InRange(f[i].ver)' => f[i].id \in whole BY <1>2, <1>12, <3>1 DEF InRange, Age, Old
      <3> QED BY <1>2, <1>12, <3>1, <3>2 DEF EntrySound, InRange, Age
    <2>2. \A i, j \in DOMAIN ring' : i < j => ring'[i].id < ring'[j].id
      BY <1>10, <1>11 DEF OversizeInv, RingSound
    <2>3. \A i \in DOMAIN ring' : ring'[i].done BY <1>10, <1>11
    <2>4. \A t \in Threads : pc'[t] = "idle" BY <1>2
    <2> QED BY <2>1, <2>2, <2>3, <2>4 DEF RingSound
  <1>14. ASSUME NEW s \in Live'
         PROVE  /\ s \in Slots /\ s \in Live /\ Old(v, bufs[s].ver) <= Span /\ bufs'[s] \in Buffers
                /\ bufs'[s].ver = bufs[s].ver /\ bufs'[s].t = bufs[s].t
                /\ Len(bufs'[s].chunks) <= Room
                /\ \A n \in DOMAIN bufs'[s].chunks :
                     n \in DOMAIN bufs[s].chunks /\ bufs'[s].chunks[n] = bufs[s].chunks[n]
    <2>1. s \in Slots /\ bufs'[s] # None BY DEF Live
    <2>2. bufs'[s] = Recovered(s, v) BY <1>2, <2>1
    <2> QED BY <1>4, <2>1, <2>2, RecoveredOf
  <1>15. BuffersSound'
    <2>1. ASSUME NEW s \in Live' PROVE (InRange(bufs[s].ver))'
      <3>1. Old(v, bufs'[s].ver) <= Span BY <1>14
      <3> QED BY <1>2, <3>1 DEF InRange, Age, Old
    <2>2. ASSUME NEW s \in Live', NEW n \in DOMAIN bufs'[s].chunks
          PROVE  ChunkSound(bufs[s], bufs[s].chunks[n])'
      <3> DEFINE c == bufs[s].chunks[n]
      <3>1. s \in Live /\ n \in DOMAIN bufs[s].chunks /\ bufs'[s].chunks[n] = c BY <1>14
      <3>2. ChunkSound(bufs[s], c) /\ InRange(bufs[s].ver) BY <3>1 DEF OversizeInv, BuffersSound
      <3> HIDE DEF c
      <3>3. c.ver = bufs[s].ver /\ c.t = bufs[s].t BY <3>2 DEF ChunkSound
      <3>4. bufs[s].ver \in Version
        <4>1. bufs[s] \in Buffers BY <3>1 DEF OversizeInv, TypeOK, Live
        <4> QED BY <4>1 DEF Buffers
      <3>5. c.ver # v BY <1>7, <3>2, <3>3, <3>4, RangeIsOld
      <3>6. ASSUME NEW i \in DOMAIN f, f[i].ver = c.ver, f[i].t = c.t, f[i].seq = c.seq
            PROVE  f[i].id = c.id
        <4>1. Old(v, f[i].ver) <= Span BY <1>14, <3>3, <3>6
        <4>2. f[i].ver = ring[i].ver BY <1>12, <4>1
        <4>3. i \in DOMAIN ring /\ ring[i].ver = c.ver /\ ring[i].t = c.t /\ ring[i].seq = c.seq
              /\ f[i].id = ring[i].id
          BY <1>10, <3>6, <4>2
        <4> QED BY <3>2, <4>3 DEF ChunkSound
      <3>7. bufs'[s].ver = bufs[s].ver /\ bufs'[s].t = bufs[s].t BY <1>14
      <3> QED BY <1>2, <1>11, <3>1, <3>3, <3>5, <3>6, <3>7 DEF ChunkSound
    <2> QED BY <2>1, <2>2 DEF BuffersSound
  <1>16. FillersHold'
    <2>1. \A t \in Threads : pc'[t] # "fill" BY <1>2
    <2> QED BY <2>1 DEF FillersHold
  <1>17. ReaderSound'
    <2>1. InRange(reading)'
      <3>1. Old(version', reading') <= Span BY <1>2, <1>8, Constants
      <3> QED BY <3>1 DEF InRange, Age, Old
    <2> QED BY <1>2, <2>1 DEF ReaderSound, HeadInUse
  <1>18. OutSound'
    <2>1. ASSUME NEW i \in DOMAIN out
          PROVE  /\ out[i].id = out[i].parent /\ out[i].id \in whole /\ out[i].id \in 1..Len(born)
                 /\ out[i].life <= deaths' /\ out[i].life # deaths'
      <3>1. out[i].life \in Nat
        <4>1. out \in Seq([id : Nat, parent : Nat, t : Threads, life : Nat])
          BY DEF OversizeInv, TypeOK
        <4>2. out[i] \in [id : Nat, parent : Nat, t : Threads, life : Nat] BY <4>1, SeqMember
        <4> QED BY <4>2
      <3>2. /\ out[i].id = out[i].parent /\ out[i].id \in whole /\ out[i].id \in 1..Len(born)
            /\ out[i].life <= deaths
        BY DEF OversizeInv, OutSound
      <3> QED BY <1>2, <1>3, <3>1, <3>2
    <2>2. \A j \in DOMAIN out : \A i \in 1..(j - 1) : out[i].life = out[j].life => out[i].id < out[j].id
      BY DEF OversizeInv, OutSound
    <2> QED BY <1>2, <2>1, <2>2 DEF OutSound
  <1>19. TypeOK'
    <2>1. bufs' \in [Slots -> Buffers \cup {None}]
      <3>1. ASSUME NEW s \in Slots PROVE bufs'[s] \in Buffers \cup {None}
        <4>1. CASE bufs'[s] = None BY <4>1
        <4>2. CASE bufs'[s] # None
          <5>1. s \in Live' BY <4>2 DEF Live
          <5> QED BY <1>14, <5>1
        <4> QED BY <4>1, <4>2
      <3>2. bufs' = [s \in Slots |-> bufs'[s]] BY <1>2
      <3> QED BY <3>1, <3>2
    <2>2. \A s \in Live' : Len(bufs'[s].chunks) <= Room BY <1>14
    <2>3. /\ pc' \in [Threads -> {"idle", "seek", "fill", "commit"}]
          /\ filling' \in [Threads -> Slots \cup {None}] /\ writeSeq' \in [Threads -> Nat]
          /\ target' \in Slots \cup {None} /\ deaths' \in Nat
          /\ rpc' \in {"idle", "ring", "small", "big", "parent", "recycle", "end"}
      BY <1>2, <1>3
    <2>4. out' \in Seq([id : Nat, parent : Nat, t : Threads, life : Nat]) /\ born' \in Seq(Nat)
      BY <1>2 DEF OversizeInv, TypeOK
    <2> QED BY <1>2, <1>4, <1>8, <1>10, <1>11, <2>1, <2>2, <2>3, <2>4 DEF TypeOK
  <1> QED BY <1>13, <1>15, <1>16, <1>17, <1>18, <1>19 DEF OversizeInv

-----------------------------------------------------------------------------
(***************************************************************************)
(* The invariant, and what follows from it.                                *)
(***************************************************************************)

LEMMA OversizeInit ==
  ASSUME Init
  PROVE  OversizeInv
  <1>1. /\ version = V - 1 /\ ring = <<>> /\ bufs = [s \in Slots |-> None]
        /\ pc = [t \in Threads |-> "idle"] /\ filling = [t \in Threads |-> None]
        /\ writeSeq = [t \in Threads |-> 0] /\ reading = V - 1 - Span /\ target = None
        /\ rpc = "idle" /\ out = <<>> /\ born = <<>> /\ deaths = 0
    BY DEF Init
  <1>2. version \in Version /\ reading \in Version /\ Old(version, reading) = Span
    <2>1. version \in Version /\ reading \in Version BY <1>1, Constants DEF Version
    <2>2. Old(version, reading) = IF reading <= version THEN version - reading ELSE version - reading + V
      BY <2>1, ModDiff DEF Old
    <2> QED BY <1>1, <2>1, <2>2, Constants
  <1>3. Live = {} BY <1>1 DEF Live
  <1>4. TypeOK BY <1>1, <1>2, <1>3 DEF TypeOK
  <1>5. RingSound BY <1>1 DEF RingSound
  <1>6. BuffersSound /\ FillersHold BY <1>1, <1>3 DEF BuffersSound, FillersHold
  <1>7. ReaderSound
    <2>1. InRange(reading) BY <1>2, Constants, RangeIsOld
    <2> QED BY <1>1, <2>1 DEF ReaderSound, HeadInUse
  <1>8. OutSound BY <1>1 DEF OutSound
  <1> QED BY <1>4, <1>5, <1>6, <1>7, <1>8 DEF OversizeInv

LEMMA OversizeNext ==
  ASSUME OversizeInv, [Next]_vars
  PROVE  OversizeInv'
  <1>1. ASSUME NEW t \in Threads, NEW big \in BOOLEAN, Reserve(t, big) PROVE OversizeInv'
    BY <1>1, ReserveStep
  <1>2. ASSUME NEW t \in Threads, Proceed(t) PROVE OversizeInv'
    BY <1>2, SeekStep, CommitChunkStep, CommitStep DEF Proceed
  <1>3. ASSUME NEW t \in Threads, SeekFails(t) PROVE OversizeInv'
    BY <1>3, SeekFailsStep
  <1>4. CASE Reader
    BY <1>4, QuietStep, ReadSmallStep, ReadBigStep, HeadGoes, ReturnBigStep, RecycleStep DEF Reader
  <1>5. CASE Die BY <1>5, DieStep
  <1>6. CASE UNCHANGED vars
    <2>1. UNCHANGED <<version, ring, bufs, pc, filling, writeSeq, whole, born, reading, target, rpc, out, deaths>>
      BY <1>6 DEF vars, threadVars, readerVars
    <2>2. RingSound' BY <2>1, RingKept
    <2>3. BuffersSound' /\ FillersHold'
      <3>1. RingShrinks BY <2>1 DEF RingShrinks
      <3> QED BY <2>1, <3>1, SameShrinks, BuffersShrink
    <2>4. TypeOK' BY <2>1 DEF OversizeInv, TypeOK, Live
    <2>5. ReaderSound' BY <2>1 DEF OversizeInv, ReaderSound, HeadInUse, InRange, Age, Live
    <2>6. OutSound'
      <3>1. HeadInUse => HeadInUse' BY <2>1 DEF HeadInUse
      <3> QED BY <2>1, <3>1, OutKept
    <2> QED BY <2>2, <2>3, <2>4, <2>5, <2>6 DEF OversizeInv
  <1> QED BY <1>1, <1>2, <1>3, <1>4, <1>5, <1>6 DEF Next

\* The inductive invariant holds in every state: through deaths and wraps of
\* the version, a version, thread and number that a reader may still come to
\* name one record.
THEOREM OversizeInvariant == Spec => []OversizeInv
  BY OversizeInit, OversizeNext, PTL DEF Spec

\* What rt_read_oversize_chunk hands out for a parent is the data that was
\* logged with it, committed, and per thread and process in order.
THEOREM DataIsRight == Spec => []RightData
  <1>1. OversizeInv => RightData BY DEF OversizeInv, OutSound, RightData
  <1> QED BY <1>1, OversizeInvariant, PTL

\* rt_recycle_oversize_buffers never takes a buffer that a thread fills, nor
\* the one from which the reader has handed out.
THEOREM BuffersStayInUse == Spec => []NobodyLosesABuffer
  <1>1. OversizeInv => NobodyLosesABuffer
    BY DEF OversizeInv, FillersHold, ReaderSound, NobodyLosesABuffer
  <1> QED BY <1>1, OversizeInvariant, PTL

\* The types, and that no buffer holds more chunks than there is room for.
THEOREM OversizeTypes == Spec => []TypeOK
  <1>1. OversizeInv => TypeOK BY DEF OversizeInv
  <1> QED BY <1>1, OversizeInvariant, PTL

-----------------------------------------------------------------------------
(***************************************************************************)
(* The inductive invariant about what is due: the numbers in the ring and  *)
(* those that are expected, the numbers in the buffers, and the data of    *)
(* the parents.                                                            *)
(***************************************************************************)

\* Of one thread of one process.
SameKey(e, f) == e.ver = f.ver /\ e.t = f.t

\* The versions in the ring are in the order in which the reader comes to
\* them, none that it has left is in it, and each one has its number.
VersionsInOrder ==
    \A i, j \in DOMAIN ring :
        i < j /\ InRange(ring[i].ver) /\ InRange(ring[j].ver) =>
            Age(ring[j].ver) <= Age(ring[i].ver)
NotPassed ==
    /\ \A i \in DOMAIN ring : InRange(ring[i].ver) =>
          Age(ring[i].ver) <= Age(reading) /\ (ring[i].ver # version => Known(ring[i]))
    /\ rpc \in {"recycle", "end"} /\ reading # version =>
          \A i \in DOMAIN ring : ring[i].ver # reading

\* The number the reader gives each entry when all in front of it is gone:
\* the first of its thread and version is expected now, the others follow
\* without a gap.  The chunk of a large record goes before its parent.
Returned(i) == i = 1 /\ rpc = "parent"
Turn(i) == IF Returned(i) THEN ring[i].seq + 1 ELSE ring[i].seq
First(i) == \A j \in 1..(i - 1) : ~SameKey(ring[j], ring[i])
NumbersInOrder ==
    /\ \A i, j \in DOMAIN ring :
        i < j /\ InRange(ring[i].ver) /\ SameKey(ring[i], ring[j]) => ring[i].seq < ring[j].seq
    /\ \A i \in DOMAIN ring : InRange(ring[i].ver) =>
          /\ Expected(ring[i]) <= Turn(i)
          /\ IF First(i) THEN Expected(ring[i]) = Turn(i)
             ELSE \E j \in 1..(i - 1) : SameKey(ring[j], ring[i]) /\ ring[i].seq = ring[j].seq + 1
Own(i, t) == ring[i].ver = version /\ ring[i].t = t
\* A thread's next number follows the last one in the ring.
LastNumber ==
    \A t \in Threads :
        IF \E i \in DOMAIN ring : Own(i, t)
        THEN \E i \in DOMAIN ring : Own(i, t) /\ ring[i].seq + 1 = writeSeq[t]
        ELSE readSeq[t] = writeSeq[t]

\* A buffer is filled by its own thread, in order.
ChunksInOrder ==
    \A s \in Live : \A m, n \in DOMAIN bufs[s].chunks :
        m < n => bufs[s].chunks[m].done /\ bufs[s].chunks[m].seq < bufs[s].chunks[n].seq
FillersKnown ==
    /\ \A s \in Live : Unfinished(bufs[s]) => pc[bufs[s].t] = "fill" /\ filling[bufs[s].t] = s
    /\ \A t \in Threads : pc[t] = "fill" =>
        bufs[filling[t]].ver = version /\ Last(bufs[filling[t]].chunks).seq + 1 = writeSeq[t]

\* The data of a committed parent that is still to come to its turn is in a
\* buffer, or a process that died has handed it out.
IsFor(c, e) == SameKey(c, e) /\ c.seq = e.seq
HasData(e) == \E s \in Live : \E n \in DOMAIN bufs[s].chunks :
                bufs[s].chunks[n].done /\ IsFor(bufs[s].chunks[n], e)
DataThere ==
    \A i \in DOMAIN ring :
        ring[i].ref /\ InRange(ring[i].ver) /\ (ring[i].done \/ pc[ring[i].t] = "commit") =>
            \/ HasData(ring[i])
            \/ ring[i].id \in HandedOut /\ (ring[i].ver # version \/ Returned(i))
HeadRead ==
    /\ HeadInUse => Head(ring).ver = reading
    /\ rpc = "big" => IsFor(Head(bufs[target].chunks), Head(ring)) /\ Head(ring).id \in HandedOut

RecordTypes ==
    /\ readSeq \in [Threads -> Nat]
    /\ DOMAIN records \subseteq Version \X Threads /\ records \in [DOMAIN records -> Nat]

DataInv ==
    /\ RecordTypes /\ VersionsInOrder /\ NotPassed /\ NumbersInOrder /\ LastNumber
    /\ ChunksInOrder /\ FillersKnown /\ DataThere /\ HeadRead

\* What the types say of an entry, a chunk and the ages of their versions.
LEMMA EntryTypes ==
  ASSUME OversizeInv
  PROVE  /\ ring \in Seq(Items) /\ version \in Version /\ reading \in Version
         /\ \A v \in Version : Age(v) \in Nat /\ (Age(v) = 0 <=> v = version)
         /\ Age(version) = 0 /\ InRange(version) /\ InRange(reading)
         /\ \A i \in DOMAIN ring :
              /\ ring[i] \in Items /\ ring[i].ver \in Version /\ ring[i].t \in Threads
              /\ ring[i].seq \in Nat /\ i \in Nat /\ i >= 1
  <1>1. ring \in Seq(Items) /\ version \in Version /\ reading \in Version
    BY DEF OversizeInv, TypeOK
  <1>2. \A v \in Version : Age(v) \in Nat /\ (Age(v) = 0 <=> v = version)
    <2> TAKE v \in Version
    <2>1. Old(version, v) \in 0..(V - 1) /\ (Old(version, v) = 0 => v = version)
          /\ Old(version, version) = 0
      BY <1>1, OldVersions
    <2>2. V \in Nat BY Constants
    <2> QED BY <2>1, <2>2 DEF Age, Old
  <1>3. Age(version) = 0 /\ InRange(version) BY <1>1, <1>2, Constants DEF InRange
  <1>4. InRange(reading) BY DEF OversizeInv, ReaderSound
  <1>5. \A i \in DOMAIN ring :
          /\ ring[i] \in Items /\ ring[i].ver \in Version /\ ring[i].t \in Threads
          /\ ring[i].seq \in Nat /\ i \in Nat /\ i >= 1
    <2> TAKE i \in DOMAIN ring
    <2>1. ring[i] \in Items /\ i \in Nat /\ i >= 1 BY <1>1
    <2> QED BY <2>1 DEF Items
  <1> QED BY <1>1, <1>2, <1>3, <1>4, <1>5

LEMMA ChunkTypes ==
  ASSUME OversizeInv, NEW s \in Live
  PROVE  /\ s \in Slots /\ bufs[s] \in Buffers /\ bufs[s].chunks \in Seq(Chunks)
         /\ \A n \in DOMAIN bufs[s].chunks :
              /\ bufs[s].chunks[n] \in Chunks
              /\ bufs[s].chunks[n].ver = bufs[s].ver /\ bufs[s].chunks[n].t = bufs[s].t
              /\ bufs[s].chunks[n].ver \in Version /\ bufs[s].chunks[n].t \in Threads
              /\ bufs[s].chunks[n].seq \in Nat /\ n \in Nat
         /\ InRange(bufs[s].ver)
  <1>1. s \in Slots /\ bufs[s] \in Buffers BY DEF OversizeInv, TypeOK, Live
  <1>2. bufs[s].chunks \in Seq(Chunks) BY <1>1 DEF Buffers
  <1>3. InRange(bufs[s].ver) /\ \A n \in DOMAIN bufs[s].chunks : ChunkSound(bufs[s], bufs[s].chunks[n])
    BY DEF OversizeInv, BuffersSound
  <1>4. \A n \in DOMAIN bufs[s].chunks : bufs[s].chunks[n] \in Chunks /\ n \in Nat BY <1>2
  <1> QED BY <1>1, <1>2, <1>3, <1>4 DEF ChunkSound, Chunks

\* A number is known for each thread of this version and of those recorded.
Counted(e) == e.ver \in Version /\ e.t \in Threads /\ (e.ver # version => Known(e))

LEMMA ExpectedIsNumber ==
  ASSUME RecordTypes, NEW e, Counted(e)
  PROVE  Expected(e) \in Nat
  BY DEF RecordTypes, Counted, Known, Expected

LEMMA RingCounted ==
  ASSUME OversizeInv, DataInv, NEW i \in DOMAIN ring, InRange(ring[i].ver)
  PROVE  Counted(ring[i]) /\ Expected(ring[i]) \in Nat
  <1>1. Counted(ring[i]) BY EntryTypes DEF Counted, DataInv, NotPassed
  <1> QED BY <1>1, ExpectedIsNumber DEF DataInv

\* deregister_seq: the number of one thread of one version goes up by one.
LEMMA DeregisterIs ==
  ASSUME RecordTypes, NEW c, Counted(c), Deregister(c), version' = version
  PROVE  /\ RecordTypes' /\ DOMAIN records' = DOMAIN records
         /\ \A e : Counted(e) =>
              Expected(e)' = IF SameKey(c, e) THEN Expected(c) + 1 ELSE Expected(e)
         /\ \A t \in Threads : readSeq'[t] = IF c.ver = version /\ c.t = t THEN readSeq[t] + 1
                                             ELSE readSeq[t]
  <1>1. CASE c.ver = version
    <2>1. /\ readSeq' = [readSeq EXCEPT ![c.t] = @ + 1] /\ records' = records
          /\ readSeq \in [Threads -> Nat] /\ c.t \in Threads
      BY <1>1 DEF Deregister, RecordTypes, Counted
    <2>2. RecordTypes' BY <2>1 DEF RecordTypes
    <2>3. ASSUME NEW e, Counted(e)
          PROVE  Expected(e)' = IF SameKey(c, e) THEN Expected(c) + 1 ELSE Expected(e)
      <3>1. e.t \in Threads BY <2>3 DEF Counted
      <3>2. CASE e.ver = version /\ e.t = c.t BY <1>1, <2>1, <3>1, <3>2 DEF Expected, SameKey
      <3>3. CASE e.ver = version /\ e.t # c.t BY <1>1, <2>1, <3>1, <3>3 DEF Expected, SameKey
      <3>4. CASE e.ver # version BY <1>1, <2>1, <3>1, <3>4 DEF Expected, SameKey
      <3> QED BY <3>2, <3>3, <3>4
    <2>4. \A t \in Threads : readSeq'[t] = IF c.ver = version /\ c.t = t THEN readSeq[t] + 1
                                           ELSE readSeq[t]
      BY <1>1, <2>1
    <2> QED BY <2>1, <2>2, <2>3, <2>4
  <1>2. CASE c.ver # version
    <2>1. PICK k : k = <<c.ver, c.t>> OBVIOUS
    <2>2. /\ records' = [records EXCEPT ![k] = @ + 1] /\ readSeq' = readSeq
          /\ k \in DOMAIN records /\ records \in [DOMAIN records -> Nat]
      BY <1>2, <2>1 DEF Deregister, RecordTypes, Counted, Known
    <2>3. /\ DOMAIN records' = DOMAIN records /\ records'[k] = records[k] + 1 /\ records[k] \in Nat
          /\ \A m \in DOMAIN records : m # k => records'[m] = records[m]
          /\ records' \in [DOMAIN records -> Nat]
      BY <2>2
    <2>4. RecordTypes' BY <2>2, <2>3 DEF RecordTypes
    <2>5. ASSUME NEW e, Counted(e)
          PROVE  Expected(e)' = IF SameKey(c, e) THEN Expected(c) + 1 ELSE Expected(e)
      <3>1. CASE e.ver = version BY <1>2, <2>2, <3>1 DEF Expected, SameKey
      <3>2. CASE e.ver # version
        <4>1. PICK m : m = <<e.ver, e.t>> OBVIOUS
        <4>2. m \in DOMAIN records BY <2>5, <3>2, <4>1 DEF Counted, Known
        <4>3. m = k <=> SameKey(c, e) BY <2>1, <4>1 DEF SameKey
        <4>4. Expected(e)' = records'[m] /\ Expected(e) = records[m] BY <3>2, <4>1 DEF Expected
        <4>5. Expected(c) = records[k] BY <1>2, <2>1 DEF Expected
        <4> QED BY <2>3, <4>2, <4>3, <4>4, <4>5
      <3> QED BY <3>1, <3>2
    <2>6. \A t \in Threads : readSeq'[t] = IF c.ver = version /\ c.t = t THEN readSeq[t] + 1
                                           ELSE readSeq[t]
      BY <1>2, <2>2
    <2> QED BY <2>3, <2>4, <2>5, <2>6
  <1> QED BY <1>1, <1>2

LEMMA SameAge ==
  ASSUME version \in Version, NEW u \in Version, NEW v \in Version, Age(u) = Age(v)
  PROVE  u = v
  <1>1. PICK w : w = version OBVIOUS
  <1>2. /\ w \in Int /\ u \in Int /\ v \in Int /\ V \in Int /\ 0 <= u /\ 0 <= v
        /\ u < V /\ v < V /\ 0 <= w /\ w < V
    BY <1>1, Constants DEF Version
  <1>3. /\ Age(u) = IF u <= w THEN w - u ELSE w - u + V
        /\ Age(v) = IF v <= w THEN w - v ELSE w - v + V
    BY <1>1, ModDiff DEF Age
  <1>4. (IF u <= w THEN w - u ELSE w - u + V) = (IF v <= w THEN w - v ELSE w - v + V) BY <1>3
  <1> QED BY <1>2, <1>4

-----------------------------------------------------------------------------
(***************************************************************************)
(* The numbers in the ring.                                                *)
(***************************************************************************)

NumbersInv == RecordTypes /\ VersionsInOrder /\ NotPassed /\ NumbersInOrder /\ LastNumber

\* They stay as they are while no number of the ring changes.
LEMMA NumbersStay ==
  ASSUME OversizeInv, DataInv, DOMAIN ring' = DOMAIN ring,
         \A i \in DOMAIN ring : ring'[i].ver = ring[i].ver /\ ring'[i].t = ring[i].t
                                /\ ring'[i].seq = ring[i].seq,
         rpc' = "parent" <=> rpc = "parent",
         rpc' \in {"recycle", "end"} /\ reading # version =>
             \A i \in DOMAIN ring : ring[i].ver # reading,
         UNCHANGED <<version, writeSeq, readSeq, reading, records>>
  PROVE  NumbersInv'
  <1>1. RecordTypes /\ VersionsInOrder /\ NotPassed /\ NumbersInOrder /\ LastNumber BY DEF DataInv
  <1>2. \A i \in DOMAIN ring : i \in Nat /\ 1..(i - 1) \subseteq DOMAIN ring BY EntryTypes
  <1>3. RecordTypes' BY <1>1 DEF RecordTypes
  <1>4. VersionsInOrder' BY <1>1 DEF VersionsInOrder, InRange, Age
  <1>5. NotPassed' BY <1>1 DEF NotPassed, InRange, Age, Known
  <1>6. LastNumber' BY <1>1 DEF LastNumber, Own
  <1>7. ASSUME NEW i \in DOMAIN ring
        PROVE  /\ InRange(ring[i].ver)' <=> InRange(ring[i].ver)
               /\ Turn(i)' = Turn(i) /\ Expected(ring[i])' = Expected(ring[i])
               /\ \A j \in DOMAIN ring : SameKey(ring[j], ring[i])' <=> SameKey(ring[j], ring[i])
               /\ First(i)' <=> First(i)
    <2>1. InRange(ring[i].ver)' <=> InRange(ring[i].ver) BY DEF InRange, Age
    <2>2. Turn(i)' = Turn(i) BY DEF Turn, Returned
    <2>3. Expected(ring[i])' = Expected(ring[i]) BY DEF Expected
    <2>4. \A j \in DOMAIN ring : SameKey(ring[j], ring[i])' <=> SameKey(ring[j], ring[i])
      BY DEF SameKey
    <2>5. First(i)' <=> First(i) BY <1>2 DEF First, SameKey
    <2> QED BY <2>1, <2>2, <2>3, <2>4, <2>5
  <1>8. NumbersInOrder'
    <2>1. ASSUME NEW i \in DOMAIN ring', NEW j \in DOMAIN ring', i < j, InRange(ring[i].ver)',
                 SameKey(ring[i], ring[j])'
          PROVE  ring'[i].seq < ring'[j].seq
      BY <1>1, <1>7, <2>1 DEF NumbersInOrder
    <2>2. ASSUME NEW i \in DOMAIN ring', InRange(ring[i].ver)'
          PROVE  /\ Expected(ring[i])' <= Turn(i)'
                 /\ IF First(i)' THEN Expected(ring[i])' = Turn(i)'
                    ELSE \E j \in 1..(i - 1) : SameKey(ring[j], ring[i])' /\ ring'[i].seq = ring'[j].seq + 1
      <3>1. InRange(ring[i].ver) BY <1>7, <2>2
      <3>2. Expected(ring[i]) <= Turn(i) BY <1>1, <3>1 DEF NumbersInOrder
      <3>3. IF First(i) THEN Expected(ring[i]) = Turn(i)
            ELSE \E j \in 1..(i - 1) : SameKey(ring[j], ring[i]) /\ ring[i].seq = ring[j].seq + 1
        BY <1>1, <3>1 DEF NumbersInOrder
      <3> QED BY <1>2, <1>7, <3>2, <3>3
    <2> QED BY <2>1, <2>2 DEF NumbersInOrder
  <1> QED BY <1>3, <1>4, <1>5, <1>6, <1>8 DEF NumbersInv

\* The reader has nothing left to read of a version when it leaves the ring.
LEMMA VerdictOfHead ==
  ASSUME OversizeInv, DataInv, ring # <<>>, InRange(ring[1].ver), rpc # "parent"
  PROVE  /\ Verdicts(ring[1]) = IF ring[1].ver = reading THEN {"valid"} ELSE {"pending"}
         /\ Expected(ring[1]) = ring[1].seq
  <1>1. 1 \in DOMAIN ring BY EntryTypes
  <1>2. First(1) BY DEF First
  <1>3. Expected(ring[1]) = ring[1].seq
    BY <1>1, <1>2 DEF DataInv, NumbersInOrder, Turn, Returned
  <1>4. ring[1].ver # version => Known(ring[1]) BY <1>1 DEF DataInv, NotPassed
  <1>5. VersionValid(ring[1].ver) BY <1>1 DEF DataInv, NotPassed, VersionValid
  <1> QED BY <1>3, <1>4, <1>5 DEF Verdicts

LEMMA VersionIsRead ==
  ASSUME OversizeInv, DataInv, LeaveRing, reading # version
  PROVE  \A i \in DOMAIN ring : ring[i].ver # reading
  <1>1. SUFFICES ASSUME NEW i \in DOMAIN ring, ring[i].ver = reading PROVE FALSE OBVIOUS
  <1>2. /\ rpc = "ring" /\ (~HasHead \/ HeadIs("pending")) BY DEF LeaveRing
  <1>3. /\ 1 \in DOMAIN ring /\ ring # <<>> /\ Head(ring) = ring[1] /\ InRange(reading)
        /\ Age(version) = 0 /\ i \in Nat /\ i >= 1
        /\ \A v \in Version : Age(v) \in Nat /\ (Age(v) = 0 <=> v = version)
        /\ reading \in Version /\ ring[1].ver \in Version
    BY <1>1, EntryTypes
  <1>4. InRange(ring[1].ver) /\ ring[1].ver # reading
    <2>1. CASE ~ring[1].done
      <3>1. EntrySound(ring[1]) BY <1>3 DEF OversizeInv, RingSound
      <3>2. ring[1].ver = version BY <2>1, <3>1 DEF EntrySound
      <3> QED BY <3>2, EntryTypes
    <2>2. CASE ring[1].done
      <3>1. "pending" \in Verdicts(ring[1]) BY <1>2, <1>3, <2>2 DEF HasHead, HeadIs
      <3>2. ring[1].ver = reading => InRange(ring[1].ver) BY <1>3
      <3>3. ring[1].ver # reading
        <4>1. CASE ring[1].ver = reading
          <5>1. Verdicts(ring[1]) = {"valid"} BY <1>2, <1>3, <3>2, <4>1, VerdictOfHead
          <5> QED BY <3>1, <5>1
        <4> QED BY <4>1
      <3>4. VersionValid(ring[1].ver) BY <3>1, <3>3 DEF Verdicts
      <3>5. Age(ring[1].ver) <= Age(reading) /\ Age(reading) <= Span
        BY <1>3, <3>4 DEF VersionValid, InRange
      <3> QED BY <1>3, <3>3, <3>5, Constants DEF InRange
    <2> QED BY <2>1, <2>2
  <1>5. Age(ring[1].ver) <= Age(reading) BY <1>3, <1>4 DEF DataInv, NotPassed
  <1>6. i # 1 BY <1>1, <1>4
  <1>7. Age(reading) <= Age(ring[1].ver)
    <2>1. 1 < i BY <1>3, <1>6
    <2> QED BY <1>1, <1>3, <1>4, <2>1 DEF DataInv, VersionsInOrder
  <1>8. Age(ring[1].ver) = Age(reading) BY <1>3, <1>5, <1>7
  <1>9. ring[1].ver = reading BY <1>3, <1>8, EntryTypes, SameAge
  <1> QED BY <1>4, <1>9

\* The head goes, with its number if it had one.
LEMMA HeadGone ==
  ASSUME OversizeInv, DataInv, ring # <<>>, ring' = Tail(ring), RecordTypes',
         DOMAIN records' = DOMAIN records,
         \A e \in ToSet(ring) : InRange(e.ver) =>
             Expected(e)' = IF SameKey(ring[1], e) THEN ring[1].seq + 1 ELSE Expected(e),
         \A t \in Threads : ~Own(1, t) => readSeq'[t] = readSeq[t],
         rpc' \in {"ring", "idle"},
         UNCHANGED <<version, writeSeq, reading>>
  PROVE  NumbersInv'
  <1>1. RecordTypes /\ VersionsInOrder /\ NotPassed /\ NumbersInOrder /\ LastNumber BY DEF DataInv
  <1>2. /\ ring \in Seq(Items) /\ 1 \in DOMAIN ring
        /\ \A i \in DOMAIN ring : /\ i \in Nat /\ i >= 1 /\ ring[i].ver \in Version
                                  /\ ring[i].t \in Threads /\ ring[i].seq \in Nat
        /\ version \in Version /\ InRange(version)
    BY EntryTypes
  <1>3. /\ \A i \in DOMAIN ring' : /\ i \in Nat /\ i >= 1 /\ i + 1 \in DOMAIN ring
                                   /\ i + 1 > 1 /\ ring'[i] = ring[i + 1]
        /\ \A k \in DOMAIN ring : k # 1 => k - 1 \in DOMAIN ring' /\ ring'[k - 1] = ring[k]
        /\ \A i \in DOMAIN ring' : \A j \in 1..(i - 1) : j \in DOMAIN ring'
    <2>1. ring' \in Seq(Items) BY <1>2, TailOf
    <2> QED BY <1>2, <2>1, TailOf
  <1>4. VersionsInOrder'
    <2>1. ASSUME NEW i \in DOMAIN ring', NEW j \in DOMAIN ring', i < j,
                 InRange(ring[i].ver)', InRange(ring[j].ver)'
          PROVE  Age(ring[j].ver)' <= Age(ring[i].ver)'
      <3>1. /\ i + 1 \in DOMAIN ring /\ j + 1 \in DOMAIN ring /\ i + 1 < j + 1
            /\ ring'[i] = ring[i + 1] /\ ring'[j] = ring[j + 1]
        BY <1>3, <2>1
      <3>2. InRange(ring[i + 1].ver) /\ InRange(ring[j + 1].ver) BY <2>1, <3>1 DEF InRange, Age
      <3>3. Age(ring[j + 1].ver) <= Age(ring[i + 1].ver) BY <1>1, <3>1, <3>2 DEF VersionsInOrder
      <3> QED BY <3>1, <3>3 DEF Age
    <2> QED BY <2>1 DEF VersionsInOrder
  <1>5. NotPassed'
    <2>1. ASSUME NEW i \in DOMAIN ring', InRange(ring[i].ver)'
          PROVE  Age(ring[i].ver)' <= Age(reading)' /\ (ring'[i].ver # version' => Known(ring[i])')
      <3>1. i + 1 \in DOMAIN ring /\ ring'[i] = ring[i + 1] BY <1>3
      <3>2. InRange(ring[i + 1].ver) BY <2>1, <3>1 DEF InRange, Age
      <3>3. /\ Age(ring[i + 1].ver) <= Age(reading)
            /\ ring[i + 1].ver # version => Known(ring[i + 1])
        BY <1>1, <3>1, <3>2 DEF NotPassed
      <3> QED BY <3>1, <3>3 DEF Age, Known
    <2> QED BY <2>1 DEF NotPassed
  <1>6. \A i, j \in DOMAIN ring : i < j /\ InRange(ring[i].ver) /\ SameKey(ring[i], ring[j]) =>
          ring[i].seq < ring[j].seq
    BY <1>1 DEF NumbersInOrder
  <1>7. ASSUME NEW i \in DOMAIN ring', InRange(ring[i].ver)'
        PROVE  /\ Expected(ring[i])' <= Turn(i)'
               /\ IF First(i)' THEN Expected(ring[i])' = Turn(i)'
                  ELSE \E j \in 1..(i - 1) : SameKey(ring[j], ring[i])' /\ ring'[i].seq = ring'[j].seq + 1
    <2>1. PICK k \in DOMAIN ring : k = i + 1 /\ ring'[i] = ring[k] /\ k > 1 /\ k - 1 = i
      BY <1>3
    <2>2. InRange(ring[k].ver) BY <1>7, <2>1 DEF InRange, Age
    <2>3. Turn(i)' = ring[k].seq /\ Turn(k) = ring[k].seq
      BY <2>1 DEF Turn, Returned
    <2>4. Expected(ring[i])' = IF SameKey(ring[1], ring[k]) THEN ring[1].seq + 1
                               ELSE Expected(ring[k])
      <3>1. PICK e : e = ring[k] OBVIOUS
      <3>2. e \in ToSet(ring) BY <3>1 DEF ToSet
      <3>3. Expected(e)' = IF SameKey(ring[1], e) THEN ring[1].seq + 1 ELSE Expected(e)
        BY <2>2, <3>1, <3>2
      <3>4. Expected(ring[i])' = Expected(e)' BY <2>1, <3>1 DEF Expected
      <3> QED BY <3>1, <3>3, <3>4
    <2>5. /\ Expected(ring[k]) <= ring[k].seq
          /\ IF First(k) THEN Expected(ring[k]) = ring[k].seq
             ELSE \E j \in 1..(k - 1) : SameKey(ring[j], ring[k]) /\ ring[k].seq = ring[j].seq + 1
      BY <1>1, <2>2, <2>3 DEF NumbersInOrder
    <2>6. SameKey(ring[1], ring[k]) => ring[1].seq < ring[k].seq
      <3>1. HAVE SameKey(ring[1], ring[k])
      <3>2. InRange(ring[1].ver) BY <2>2, <3>1 DEF SameKey
      <3> QED BY <1>2, <1>6, <2>1, <3>1, <3>2
    <2>7. Expected(ring[i])' <= Turn(i)'
      <3>1. ring[1].seq \in Nat /\ ring[k].seq \in Nat BY <1>2
      <3> QED BY <2>3, <2>4, <2>5, <2>6, <3>1
    <2>8. ASSUME NEW j \in 1..(k - 1), j # 1
          PROVE  /\ j - 1 \in 1..(i - 1) /\ ring'[j - 1] = ring[j]
                 /\ SameKey(ring[j - 1], ring[i])' <=> SameKey(ring[j], ring[k])
      <3>1. j \in DOMAIN ring BY <1>2, <2>1
      <3>2. j - 1 \in 1..(i - 1) /\ ring'[j - 1] = ring[j] BY <1>3, <2>1, <2>8, <3>1
      <3> QED BY <2>1, <3>2 DEF SameKey
    <2>9. ASSUME NEW j \in 1..(i - 1)
          PROVE  j + 1 \in 1..(k - 1) /\ ring'[j] = ring[j + 1]
      <3>1. j \in DOMAIN ring' BY <1>3
      <3> QED BY <1>3, <2>1, <3>1
    <2>10. CASE SameKey(ring[1], ring[k]) /\ ring[k].seq = ring[1].seq + 1
      <3>1. First(i)'
        <4>1. SUFFICES ASSUME NEW j \in 1..(i - 1), SameKey(ring[j], ring[i])' PROVE FALSE
          BY DEF First
        <4>2. /\ j + 1 \in 1..(k - 1) /\ ring'[j] = ring[j + 1] /\ j + 1 \in DOMAIN ring
              /\ j + 1 > 1 /\ j + 1 < k
          <5>1. j + 1 \in 1..(k - 1) /\ ring'[j] = ring[j + 1] BY <2>9
          <5>2. j \in DOMAIN ring' BY <1>3
          <5>3. j + 1 \in DOMAIN ring /\ j + 1 > 1 BY <1>3, <5>2
          <5>4. k \in Nat BY <1>2
          <5> QED BY <5>1, <5>3, <5>4
        <4>3. SameKey(ring[j + 1], ring[k]) BY <2>1, <4>1, <4>2 DEF SameKey
        <4>4. SameKey(ring[1], ring[j + 1]) /\ InRange(ring[1].ver) /\ InRange(ring[j + 1].ver)
          BY <2>2, <2>10, <4>3 DEF SameKey
        <4>5. ring[1].seq < ring[j + 1].seq /\ ring[j + 1].seq < ring[k].seq
          BY <1>2, <1>6, <4>2, <4>3, <4>4
        <4>6. PICK a \in Nat, b \in Nat, c \in Nat :
                 a = ring[1].seq /\ b = ring[j + 1].seq /\ c = ring[k].seq
          BY <1>2, <4>2
        <4>7. a < b /\ b < c /\ c = a + 1 BY <2>10, <4>5, <4>6
        <4> QED BY <4>7
      <3>2. Expected(ring[i])' = Turn(i)' BY <2>3, <2>4, <2>10
      <3> QED BY <2>7, <3>1, <3>2
    <2>11. CASE ~(SameKey(ring[1], ring[k]) /\ ring[k].seq = ring[1].seq + 1)
      <3>1. CASE First(k)
        <4>1. ~SameKey(ring[1], ring[k]) BY <2>1, <3>1 DEF First
        <4>2. First(i)'
          <5>1. SUFFICES ASSUME NEW j \in 1..(i - 1), SameKey(ring[j], ring[i])' PROVE FALSE
            BY DEF First
          <5>2. j + 1 \in 1..(k - 1) /\ ring'[j] = ring[j + 1] BY <2>9
          <5>3. SameKey(ring[j + 1], ring[k]) BY <2>1, <5>1, <5>2 DEF SameKey
          <5> QED BY <3>1, <5>2, <5>3 DEF First
        <4>3. Expected(ring[i])' = Turn(i)' BY <2>3, <2>4, <2>5, <3>1, <4>1
        <4> QED BY <2>7, <4>2, <4>3
      <3>2. CASE ~First(k)
        <4>1. PICK j \in 1..(k - 1) : SameKey(ring[j], ring[k]) /\ ring[k].seq = ring[j].seq + 1
          BY <2>5, <3>2
        <4>2. j # 1 BY <2>11, <4>1
        <4>3. /\ j - 1 \in 1..(i - 1) /\ ring'[j - 1] = ring[j] /\ SameKey(ring[j - 1], ring[i])'
          BY <2>8, <4>1, <4>2
        <4>4. ring'[i].seq = ring'[j - 1].seq + 1 BY <2>1, <4>1, <4>3
        <4>5. ~First(i)' BY <4>3 DEF First
        <4> QED BY <2>7, <4>3, <4>4, <4>5
      <3> QED BY <3>1, <3>2
    <2> QED BY <2>10, <2>11
  <1>8. NumbersInOrder'
    <2>1. ASSUME NEW i \in DOMAIN ring', NEW j \in DOMAIN ring', i < j, InRange(ring[i].ver)',
                 SameKey(ring[i], ring[j])'
          PROVE  ring'[i].seq < ring'[j].seq
      <3>1. /\ i + 1 \in DOMAIN ring /\ j + 1 \in DOMAIN ring /\ i + 1 < j + 1
            /\ ring'[i] = ring[i + 1] /\ ring'[j] = ring[j + 1]
        BY <1>3, <2>1
      <3>2. InRange(ring[i + 1].ver) /\ SameKey(ring[i + 1], ring[j + 1])
        BY <2>1, <3>1 DEF InRange, Age, SameKey
      <3> QED BY <1>6, <3>1, <3>2
    <2> QED BY <1>7, <2>1 DEF NumbersInOrder
  <1>9. ASSUME NEW t \in Threads
        PROVE  IF \E i \in DOMAIN ring' : Own(i, t)'
               THEN \E i \in DOMAIN ring' : Own(i, t)' /\ ring'[i].seq + 1 = writeSeq'[t]
               ELSE readSeq'[t] = writeSeq'[t]
    <2>1. \A k \in DOMAIN ring : k # 1 /\ Own(k, t) => k - 1 \in DOMAIN ring' /\ Own(k - 1, t)'
      BY <1>3 DEF Own
    <2>2. \A i \in DOMAIN ring' : Own(i, t)' => i + 1 \in DOMAIN ring /\ i + 1 # 1 /\ Own(i + 1, t)
      BY <1>3 DEF Own
    <2>3. CASE \E i \in DOMAIN ring' : Own(i, t)'
      <3>1. PICK i \in DOMAIN ring' : Own(i, t)' BY <2>3
      <3>2. i + 1 \in DOMAIN ring /\ i + 1 > 1 /\ Own(i + 1, t) BY <1>3, <2>2, <3>1
      <3>3. PICK k \in DOMAIN ring : Own(k, t) /\ ring[k].seq + 1 = writeSeq[t]
        BY <1>1, <3>2 DEF LastNumber
      <3>4. k # 1
        <4>1. SUFFICES ASSUME k = 1 PROVE FALSE OBVIOUS
        <4>2. SameKey(ring[1], ring[i + 1]) /\ InRange(ring[1].ver)
          BY <1>2, <3>2, <3>3, <4>1 DEF Own, SameKey
        <4>3. ring[1].seq < ring[i + 1].seq BY <1>2, <1>6, <3>2, <4>2
        <4>4. EntrySound(ring[i + 1]) BY <3>2 DEF OversizeInv, RingSound
        <4>5. ring[i + 1].seq < writeSeq[t] BY <3>2, <4>4 DEF EntrySound, Own
        <4>6. ring[1].seq \in Nat /\ ring[i + 1].seq \in Nat BY <1>2, <3>2
        <4>7. writeSeq[t] \in Nat BY DEF OversizeInv, TypeOK
        <4> QED BY <3>3, <4>1, <4>3, <4>5, <4>6, <4>7
      <3>5. k - 1 \in DOMAIN ring' /\ Own(k - 1, t)' /\ ring'[k - 1] = ring[k]
        BY <1>3, <2>1, <3>3, <3>4
      <3> QED BY <2>3, <3>3, <3>5
    <2>4. CASE ~\E i \in DOMAIN ring' : Own(i, t)'
      <3>1. \A k \in DOMAIN ring : Own(k, t) => k = 1 BY <2>1, <2>4
      <3>2. CASE Own(1, t)
        <4>1. ring[1].seq + 1 = writeSeq[t]
          <5>1. PICK k \in DOMAIN ring : Own(k, t) /\ ring[k].seq + 1 = writeSeq[t]
            BY <1>1, <1>2, <3>2 DEF LastNumber
          <5> QED BY <3>1, <5>1
        <4>2. SameKey(ring[1], ring[1]) /\ InRange(ring[1].ver) BY <1>2, <3>2 DEF SameKey, Own
        <4>3. PICK e : e = ring[1] OBVIOUS
        <4>4. e \in ToSet(ring) BY <1>2, <4>3 DEF ToSet
        <4>5. Expected(e)' = ring[1].seq + 1 BY <4>2, <4>3, <4>4
        <4>6. Expected(e)' = readSeq'[t] BY <3>2, <4>3 DEF Expected, Own
        <4> QED BY <2>4, <4>1, <4>5, <4>6
      <3>3. CASE ~Own(1, t)
        <4>1. ~\E k \in DOMAIN ring : Own(k, t) BY <3>1, <3>3
        <4>2. readSeq[t] = writeSeq[t] BY <1>1, <4>1 DEF LastNumber
        <4> QED BY <2>4, <3>3, <4>2
      <3> QED BY <3>2, <3>3
    <2> QED BY <2>3, <2>4
  <1>10. LastNumber' BY <1>9 DEF LastNumber
  <1> QED BY <1>4, <1>5, <1>8, <1>10 DEF NumbersInv

LEMMA HeadIsFirst ==
  ASSUME OversizeInv, DataInv, ring # <<>>, InRange(ring[1].ver)
  PROVE  /\ Expected(ring[1]) = IF rpc = "parent" THEN ring[1].seq + 1 ELSE ring[1].seq
         /\ Counted(ring[1]) /\ ring[1].seq \in Nat
         /\ \A e \in ToSet(ring) : InRange(e.ver) => Counted(e)
         /\ \A t \in Threads : Own(1, t) => ring[1].ver = version /\ ring[1].t = t
         /\ \A e : SameKey(ring[1], e) => Expected(e) = Expected(ring[1])
  <1>1. 1 \in DOMAIN ring /\ ring[1].seq \in Nat /\ ring \in Seq(Items) BY EntryTypes
  <1>2. First(1) BY DEF First
  <1>3. Expected(ring[1]) = Turn(1) BY <1>1, <1>2 DEF DataInv, NumbersInOrder
  <1>4. Counted(ring[1]) BY <1>1, RingCounted
  <1>5. \A e \in ToSet(ring) : InRange(e.ver) => Counted(e)
    <2> TAKE e \in ToSet(ring)
    <2>1. PICK i \in DOMAIN ring : ring[i] = e BY DEF ToSet
    <2> QED BY <2>1, RingCounted
  <1>6. \A e : SameKey(ring[1], e) => Expected(e) = Expected(ring[1]) BY DEF SameKey, Expected
  <1> QED BY <1>1, <1>3, <1>4, <1>5, <1>6 DEF Turn, Returned, Own

\* An entry the reader drops has a version that is out of range.
LEMMA InvalidIsOld ==
  ASSUME OversizeInv, DataInv, DropInvalid
  PROVE  ring # <<>> /\ ~InRange(ring[1].ver)
  <1>1. rpc = "ring" /\ ring # <<>> /\ "invalid" \in Verdicts(Head(ring))
    BY DEF DropInvalid, HeadIs, HasHead
  <1>2. Head(ring) = ring[1] BY <1>1, EntryTypes
  <1>3. CASE InRange(ring[1].ver)
    <2>1. Verdicts(ring[1]) \in {{"valid"}, {"pending"}} BY <1>1, <1>3, VerdictOfHead
    <2> QED BY <1>1, <1>2, <2>1
  <1> QED BY <1>1, <1>3

LEMMA HeadGoesNumbers ==
  ASSUME OversizeInv, DataInv, ReadMissing \/ DropInvalid \/ ReturnSmall \/ ReturnParent
  PROVE  NumbersInv'
  <1>1. /\ ring # <<>> /\ ring' = Tail(ring) /\ UNCHANGED <<version, writeSeq, reading>>
    BY DEF ReadMissing, DropInvalid, ReturnSmall, ReturnParent, HeadIs, HasHead, threadVars,
           readerVars, OversizeInv, ReaderSound, HeadInUse
  <1>2. ring[1] = Head(ring) /\ RecordTypes BY <1>1, EntryTypes DEF DataInv
  <1>3. CASE ReadMissing \/ ReturnSmall
    <2>1. /\ rpc \in {"ring", "small"} /\ rpc' \in {"ring", "idle"} /\ Deregister(ring[1])
      BY <1>2, <1>3 DEF ReadMissing, ReturnSmall
    <2>2. ring[1].ver = reading
      BY <1>2, <1>3 DEF ReadMissing, ReturnSmall, HeadIs, Verdicts, DataInv, HeadRead, HeadInUse
    <2>3. InRange(ring[1].ver) BY <2>2, EntryTypes
    <2>4. Expected(ring[1]) = ring[1].seq /\ Counted(ring[1]) BY <1>1, <2>1, <2>3, HeadIsFirst
    <2>5. PICK c : c = ring[1] OBVIOUS
    <2>6. /\ RecordTypes' /\ DOMAIN records' = DOMAIN records
          /\ \A e : Counted(e) =>
               Expected(e)' = IF SameKey(c, e) THEN Expected(c) + 1 ELSE Expected(e)
          /\ \A t \in Threads : readSeq'[t] = IF c.ver = version /\ c.t = t THEN readSeq[t] + 1
                                              ELSE readSeq[t]
      BY <1>1, <1>2, <2>1, <2>4, <2>5, DeregisterIs
    <2>7. \A e \in ToSet(ring) : InRange(e.ver) =>
             Expected(e)' = IF SameKey(ring[1], e) THEN ring[1].seq + 1 ELSE Expected(e)
      BY <1>1, <2>3, <2>4, <2>5, <2>6, HeadIsFirst
    <2>8. \A t \in Threads : ~Own(1, t) => readSeq'[t] = readSeq[t] BY <2>5, <2>6 DEF Own
    <2> QED BY <1>1, <2>1, <2>6, <2>7, <2>8, HeadGone
  <1>4. CASE ReturnParent
    <2>1. rpc = "parent" /\ rpc' = "idle" /\ UNCHANGED <<readSeq, records>>
      BY <1>4 DEF ReturnParent
    <2>2. InRange(ring[1].ver)
      <3>1. ring[1].ver = reading BY <1>2, <2>1 DEF DataInv, HeadRead, HeadInUse
      <3> QED BY <3>1, EntryTypes
    <2>3. /\ Expected(ring[1]) = ring[1].seq + 1
          /\ \A e : SameKey(ring[1], e) => Expected(e) = Expected(ring[1])
      BY <1>1, <2>1, <2>2, HeadIsFirst
    <2>4. RecordTypes' BY <1>2, <2>1 DEF RecordTypes
    <2>5. \A e : Expected(e)' = Expected(e) BY <1>1, <2>1 DEF Expected
    <2>6. \A e \in ToSet(ring) : InRange(e.ver) =>
             Expected(e)' = IF SameKey(ring[1], e) THEN ring[1].seq + 1 ELSE Expected(e)
      BY <2>3, <2>5
    <2> QED BY <1>1, <2>1, <2>4, <2>6, HeadGone
  <1>5. CASE DropInvalid
    <2>1. rpc' = rpc /\ rpc = "ring" /\ UNCHANGED <<readSeq, records>>
      BY <1>5 DEF DropInvalid, readerVars
    <2>2. ~InRange(ring[1].ver) BY <1>5, InvalidIsOld
    <2>3. RecordTypes' BY <1>2, <2>1 DEF RecordTypes
    <2>4. \A e : Expected(e)' = Expected(e) BY <1>1, <2>1 DEF Expected
    <2>5. \A e \in ToSet(ring) : InRange(e.ver) =>
             Expected(e)' = IF SameKey(ring[1], e) THEN ring[1].seq + 1 ELSE Expected(e)
      BY <2>2, <2>4 DEF SameKey
    <2> QED BY <1>1, <2>1, <2>3, <2>5, HeadGone
  <1> QED BY <1>3, <1>4, <1>5

\* The chunk goes before its parent does.
LEMMA ReturnBigNumbers ==
  ASSUME OversizeInv, DataInv, ReturnBig
  PROVE  NumbersInv'
  <1>1. /\ rpc = "big" /\ rpc' = "parent" /\ Deregister(Head(bufs[target].chunks))
        /\ UNCHANGED <<version, ring, writeSeq, reading>>
    BY DEF ReturnBig, threadVars
  <1>2. ring # <<>> BY <1>1 DEF OversizeInv, ReaderSound, HeadInUse
  <1>3. /\ Head(ring) = ring[1] /\ 1 \in DOMAIN ring /\ ring[1].ver = reading /\ InRange(ring[1].ver)
    BY <1>1, <1>2, EntryTypes DEF DataInv, HeadRead, HeadInUse
  <1>4. PICK c : c = Head(bufs[target].chunks) OBVIOUS
  <1>5. SameKey(c, ring[1]) /\ c.seq = ring[1].seq
    BY <1>1, <1>3, <1>4 DEF DataInv, HeadRead, IsFor
  <1>6. /\ Expected(ring[1]) = ring[1].seq /\ Counted(ring[1]) /\ Counted(c)
        /\ Expected(c) = Expected(ring[1]) /\ ring[1].seq \in Nat
        /\ \A e \in ToSet(ring) : InRange(e.ver) => Counted(e)
    <2>1. /\ Expected(ring[1]) = ring[1].seq /\ Counted(ring[1]) /\ ring[1].seq \in Nat
          /\ \A e \in ToSet(ring) : InRange(e.ver) => Counted(e)
      BY <1>1, <1>2, <1>3, HeadIsFirst
    <2> QED BY <1>5, <2>1 DEF Counted, SameKey, Known, Expected
  <1>7. RecordTypes /\ VersionsInOrder /\ NotPassed /\ NumbersInOrder /\ LastNumber BY DEF DataInv
  <1>8. /\ RecordTypes' /\ DOMAIN records' = DOMAIN records
        /\ \A e : Counted(e) =>
             Expected(e)' = IF SameKey(c, e) THEN Expected(c) + 1 ELSE Expected(e)
        /\ \A t \in Threads : readSeq'[t] = IF c.ver = version /\ c.t = t THEN readSeq[t] + 1
                                            ELSE readSeq[t]
    BY <1>1, <1>4, <1>6, <1>7, DeregisterIs
  <1>9. VersionsInOrder' BY <1>1, <1>7 DEF VersionsInOrder, InRange, Age
  <1>10. NotPassed' BY <1>1, <1>7, <1>8 DEF NotPassed, InRange, Age, Known
  <1>11. ASSUME NEW t \in Threads, ~\E i \in DOMAIN ring : Own(i, t)
         PROVE  readSeq'[t] = writeSeq[t]
    <2>1. ~(c.ver = version /\ c.t = t) BY <1>3, <1>5, <1>11 DEF SameKey, Own
    <2> QED BY <1>7, <1>8, <1>11, <2>1 DEF LastNumber
  <1>12. LastNumber'
    <2>1. \A t \in Threads, i \in DOMAIN ring : Own(i, t)' <=> Own(i, t) BY <1>1 DEF Own
    <2> QED BY <1>1, <1>7, <1>11, <2>1 DEF LastNumber
  <1>13. \A i, j \in DOMAIN ring : i < j /\ InRange(ring[i].ver) /\ SameKey(ring[i], ring[j]) =>
          ring[i].seq < ring[j].seq
    BY <1>7 DEF NumbersInOrder
  <1>14. ASSUME NEW i \in DOMAIN ring, InRange(ring[i].ver)
         PROVE  /\ Expected(ring[i])' <= Turn(i)'
                /\ IF First(i) THEN Expected(ring[i])' = Turn(i)'
                   ELSE \E j \in 1..(i - 1) : SameKey(ring[j], ring[i]) /\ ring[i].seq = ring[j].seq + 1
    <2>1. PICK e : e = ring[i] OBVIOUS
    <2>2. e \in ToSet(ring) BY <2>1 DEF ToSet
    <2>3. Expected(ring[i])' = Expected(e)' BY <1>1, <2>1 DEF Expected
    <2>4. Expected(e)' = IF SameKey(c, e) THEN Expected(c) + 1 ELSE Expected(e)
      BY <1>6, <1>8, <1>14, <2>1, <2>2
    <2>5. SameKey(c, e) <=> SameKey(ring[1], ring[i]) BY <1>5, <2>1 DEF SameKey
    <2>6. /\ Expected(ring[i]) <= Turn(i) /\ Turn(i) = ring[i].seq
          /\ IF First(i) THEN Expected(ring[i]) = Turn(i)
             ELSE \E j \in 1..(i - 1) : SameKey(ring[j], ring[i]) /\ ring[i].seq = ring[j].seq + 1
      BY <1>1, <1>7, <1>14 DEF NumbersInOrder, Turn, Returned
    <2>7. Expected(ring[i])' = IF SameKey(ring[1], ring[i]) THEN ring[1].seq + 1 ELSE Expected(ring[i])
      BY <1>6, <2>1, <2>3, <2>4, <2>5
    <2>8. CASE i = 1
      <3>1. SameKey(ring[1], ring[i]) BY <2>8 DEF SameKey
      <3>2. Turn(i)' = ring[i].seq + 1 BY <1>1, <2>8 DEF Turn, Returned
      <3>3. First(i) BY <2>8 DEF First
      <3> QED BY <1>6, <2>7, <2>8, <3>1, <3>2, <3>3
    <2>9. CASE i # 1
      <3>1. Turn(i)' = ring[i].seq BY <1>1, <2>9 DEF Turn, Returned
      <3>2. i \in Nat /\ i > 1 /\ ring[i].seq \in Nat
        <4>1. i \in Nat /\ i >= 1 /\ ring[i].seq \in Nat BY EntryTypes
        <4> QED BY <2>9, <4>1
      <3>3. SameKey(ring[1], ring[i]) => ring[1].seq < ring[i].seq /\ ~First(i)
        BY <1>3, <1>13, <3>2 DEF First
      <3>4. Expected(ring[i])' <= Turn(i)' BY <1>6, <2>6, <2>7, <3>1, <3>2, <3>3
      <3>5. First(i) => Expected(ring[i])' = Turn(i)' BY <2>6, <2>7, <3>1, <3>3
      <3> QED BY <2>6, <3>4, <3>5
    <2> QED BY <2>8, <2>9
  <1>15. NumbersInOrder'
    <2>1. \A i \in DOMAIN ring : InRange(ring[i].ver)' <=> InRange(ring[i].ver)
      BY <1>1 DEF InRange, Age
    <2>2. \A i, j \in DOMAIN ring : SameKey(ring[i], ring[j])' <=> SameKey(ring[i], ring[j])
      BY <1>1 DEF SameKey
    <2>3. \A i : First(i)' <=> First(i) BY <1>1 DEF First, SameKey
    <2>4. \A i \in DOMAIN ring : \A j \in 1..(i - 1) : j \in DOMAIN ring BY EntryTypes
    <2>5. ASSUME NEW i \in DOMAIN ring', InRange(ring[i].ver)'
          PROVE  /\ Expected(ring[i])' <= Turn(i)'
                 /\ IF First(i)' THEN Expected(ring[i])' = Turn(i)'
                    ELSE \E j \in 1..(i - 1) : SameKey(ring[j], ring[i])' /\ ring'[i].seq = ring'[j].seq + 1
      <3>1. i \in DOMAIN ring /\ InRange(ring[i].ver) /\ ring' = ring BY <1>1, <2>1, <2>5
      <3> QED BY <1>14, <2>2, <2>3, <2>4, <3>1
    <2> QED BY <1>1, <1>13, <2>1, <2>2, <2>5 DEF NumbersInOrder
  <1> QED BY <1>8, <1>9, <1>10, <1>12, <1>15 DEF NumbersInv

\* Nothing in the ring is of the version the reader leaves.
LEMMA NextVersionNumbers ==
  ASSUME OversizeInv, DataInv, NextVersion
  PROVE  NumbersInv'
  <1>1. /\ rpc = "end" /\ reading # version /\ reading' = (reading + 1) % V /\ rpc' = "ring"
        /\ records' = Restrict(records, {k \in DOMAIN records : k[1] # reading})
        /\ UNCHANGED <<version, ring, writeSeq, readSeq>>
    BY DEF NextVersion, threadVars
  <1>2. RecordTypes /\ VersionsInOrder /\ NotPassed /\ NumbersInOrder /\ LastNumber BY DEF DataInv
  <1>3. /\ version \in Version /\ reading \in Version
        /\ \A v \in Version : Age(v) \in Nat /\ (Age(v) = 0 <=> v = version)
        /\ \A i \in DOMAIN ring : ring[i].ver \in Version /\ ring[i].ver # reading
                                  /\ \A j \in 1..(i - 1) : j \in DOMAIN ring
    BY <1>1, <1>2, EntryTypes DEF NotPassed
  <1>4. PICK K : K = {k \in DOMAIN records : k[1] # reading} OBVIOUS
  <1>5. /\ K \subseteq DOMAIN records /\ records' = [k \in K |-> records[k]]
        /\ \A k \in DOMAIN records : k \in K <=> k[1] # reading
    BY <1>1, <1>4 DEF Restrict
  <1>6. RecordTypes'
    <2>1. DOMAIN records' = K /\ records' \in [K -> Nat] BY <1>2, <1>5 DEF RecordTypes
    <2> QED BY <1>1, <1>2, <1>5, <2>1 DEF RecordTypes
  <1>7. VersionsInOrder' BY <1>1, <1>2 DEF VersionsInOrder, InRange, Age
  <1>8. LastNumber' BY <1>1, <1>2 DEF LastNumber, Own
  <1>9. Age(reading)' = Age(reading) - 1
    <2>1. Old(version, (reading + 1) % V) = Old(version, reading) - 1 BY <1>1, <1>3, Ageing
    <2> QED BY <1>1, <2>1 DEF Age, Old
  <1>10. ASSUME NEW i \in DOMAIN ring, InRange(ring[i].ver)
         PROVE  /\ Age(ring[i].ver) <= Age(reading)'
                /\ ring[i].ver # version => Known(ring[i])'
                /\ Expected(ring[i])' = Expected(ring[i])
    <2>1. Age(ring[i].ver) <= Age(reading) /\ (ring[i].ver # version => Known(ring[i]))
      BY <1>2, <1>10 DEF NotPassed
    <2>2. ring[i].ver \in Version /\ ring[i].ver # reading BY <1>3
    <2>3. Age(ring[i].ver) # Age(reading) BY <1>3, <2>2, SameAge
    <2>4. Age(ring[i].ver) \in Nat /\ Age(reading) \in Nat BY <1>3, <2>2
    <2>5. Age(ring[i].ver) <= Age(reading)' BY <1>9, <2>1, <2>3, <2>4
    <2>6. CASE ring[i].ver = version BY <1>1, <2>5, <2>6 DEF Expected
    <2>7. CASE ring[i].ver # version
      <3>1. PICK k : k = <<ring[i].ver, ring[i].t>> OBVIOUS
      <3>2. k \in DOMAIN records /\ k[1] = ring[i].ver BY <2>1, <2>7, <3>1 DEF Known
      <3>3. k \in K BY <1>5, <2>2, <3>2
      <3>4. k \in DOMAIN records' /\ records'[k] = records[k] BY <1>5, <3>3
      <3>5. Known(ring[i])' BY <1>1, <3>1, <3>4 DEF Known
      <3>6. Expected(ring[i])' = Expected(ring[i])
        BY <1>1, <2>7, <3>1, <3>4 DEF Expected
      <3> QED BY <2>5, <3>5, <3>6
    <2> QED BY <2>6, <2>7
  <1>11. /\ \A i \in DOMAIN ring : InRange(ring[i].ver)' <=> InRange(ring[i].ver)
         /\ \A i \in DOMAIN ring : Age(ring[i].ver)' = Age(ring[i].ver)
         /\ \A i \in DOMAIN ring : Turn(i)' = Turn(i) /\ (First(i)' <=> First(i))
         /\ \A i, j \in DOMAIN ring : SameKey(ring[i], ring[j])' <=> SameKey(ring[i], ring[j])
    BY <1>1 DEF InRange, Age, Turn, Returned, First, SameKey
  <1>12. NotPassed' BY <1>1, <1>10, <1>11 DEF NotPassed
  <1>13. NumbersInOrder'
    <2>1. ASSUME NEW i \in DOMAIN ring', InRange(ring[i].ver)'
          PROVE  /\ Expected(ring[i])' <= Turn(i)'
                 /\ IF First(i)' THEN Expected(ring[i])' = Turn(i)'
                    ELSE \E j \in 1..(i - 1) : SameKey(ring[j], ring[i])' /\ ring'[i].seq = ring'[j].seq + 1
      <3>1. i \in DOMAIN ring /\ InRange(ring[i].ver) /\ ring' = ring BY <1>1, <1>11, <2>1
      <3>2. /\ Expected(ring[i]) <= Turn(i)
            /\ IF First(i) THEN Expected(ring[i]) = Turn(i)
               ELSE \E j \in 1..(i - 1) : SameKey(ring[j], ring[i]) /\ ring[i].seq = ring[j].seq + 1
        BY <1>2, <3>1 DEF NumbersInOrder
      <3> QED BY <1>3, <1>10, <1>11, <3>1, <3>2
    <2> QED BY <1>1, <1>2, <1>11, <2>1 DEF NumbersInOrder
  <1> QED BY <1>6, <1>7, <1>8, <1>12, <1>13 DEF NumbersInv

\* A thread's new entry has the number after its last, or the one that is expected.
LEMMA ReserveNumbers ==
  ASSUME OversizeInv, DataInv, NEW t \in Threads, NEW big \in BOOLEAN, Reserve(t, big)
  PROVE  NumbersInv'
  <1>1. PICK x : x = [ver |-> version, t |-> t, seq |-> writeSeq[t], ref |-> big,
                      id |-> Len(born) + 1, done |-> FALSE] OBVIOUS
  <1>2. /\ ring' = Append(ring, x) /\ writeSeq' = [writeSeq EXCEPT ![t] = @ + 1]
        /\ UNCHANGED <<version, readSeq, reading, records, rpc>>
    BY <1>1 DEF Reserve, readerVars
  <1>3. RecordTypes /\ VersionsInOrder /\ NotPassed /\ NumbersInOrder /\ LastNumber BY DEF DataInv
  <1>4. /\ ring \in Seq(Items) /\ version \in Version /\ reading \in Version
        /\ Age(version) = 0 /\ InRange(version)
        /\ \A v \in Version : Age(v) \in Nat
        /\ \A i \in DOMAIN ring : ring[i].ver \in Version /\ ring[i].t \in Threads
                                  /\ ring[i].seq \in Nat
    BY EntryTypes
  <1>5. writeSeq \in [Threads -> Nat] /\ writeSeq[t] \in Nat /\ writeSeq'[t] = writeSeq[t] + 1
    BY <1>2 DEF OversizeInv, TypeOK
  <1>6. PICK n \in Nat : n = Len(ring) BY <1>4
  <1>7. /\ DOMAIN ring = 1..n /\ DOMAIN ring' = 1..(n + 1) /\ ring'[n + 1] = x
        /\ \A i \in 1..n : ring'[i] = ring[i]
    BY <1>2, <1>4, <1>6
  <1>8. \A v : (InRange(v)' <=> InRange(v)) /\ Age(v)' = Age(v) BY <1>2 DEF InRange, Age
  <1>9. x.ver = version /\ x.t = t /\ x.seq = writeSeq[t] BY <1>1
  <1>10. \A i \in 1..n : Own(i, t) => ring[i].seq < writeSeq[t]
    <2> TAKE i \in 1..n
    <2>1. EntrySound(ring[i]) BY <1>7 DEF OversizeInv, RingSound
    <2> QED BY <2>1 DEF EntrySound, Own
  <1>11. RecordTypes' BY <1>2, <1>3 DEF RecordTypes
  <1>12. VersionsInOrder'
    <2>1. ASSUME NEW i \in 1..(n + 1), NEW j \in 1..(n + 1), i < j,
                 InRange(ring'[i].ver), InRange(ring'[j].ver)
          PROVE  Age(ring'[j].ver) <= Age(ring'[i].ver)
      <3>1. i \in 1..n BY <1>6, <2>1
      <3>2. CASE j \in 1..n BY <1>3, <1>7, <2>1, <3>1, <3>2 DEF VersionsInOrder
      <3>3. CASE j = n + 1
        <4>1. Age(ring'[j].ver) = 0 BY <1>4, <1>7, <1>9, <3>3
        <4>2. Age(ring'[i].ver) \in Nat BY <1>4, <1>7, <3>1
        <4> QED BY <4>1, <4>2
      <3> QED BY <3>2, <3>3
    <2> QED BY <1>2, <1>7, <2>1 DEF VersionsInOrder, InRange, Age
  <1>13. NotPassed'
    <2>1. ASSUME NEW i \in 1..(n + 1), InRange(ring'[i].ver)
          PROVE  Age(ring'[i].ver) <= Age(reading) /\ (ring'[i].ver # version => Known(ring'[i]))
      <3>1. CASE i \in 1..n BY <1>3, <1>7, <2>1, <3>1 DEF NotPassed
      <3>2. CASE i = n + 1
        <4>1. ring'[i].ver = version BY <1>7, <1>9, <3>2
        <4>2. Age(reading) \in Nat BY <1>4
        <4> QED BY <1>4, <4>1, <4>2
      <3> QED BY <3>1, <3>2
    <2>2. rpc \in {"recycle", "end"} /\ reading # version => \A i \in 1..(n + 1) : ring'[i].ver # reading
      BY <1>3, <1>7, <1>9 DEF NotPassed
    <2> QED BY <1>2, <1>7, <2>1, <2>2 DEF NotPassed, InRange, Age, Known
  <1>14. LastNumber'
    <2>1. ASSUME NEW u \in Threads
          PROVE  IF \E i \in 1..(n + 1) : Own(i, u)'
                 THEN \E i \in 1..(n + 1) : Own(i, u)' /\ ring'[i].seq + 1 = writeSeq'[u]
                 ELSE readSeq'[u] = writeSeq'[u]
      <3>1. CASE u = t
        <4>1. Own(n + 1, t)' /\ ring'[n + 1].seq + 1 = writeSeq'[t] BY <1>2, <1>5, <1>7, <1>9 DEF Own
        <4> QED BY <1>6, <3>1, <4>1
      <3>2. CASE u # t
        <4>1. ~Own(n + 1, u)' BY <1>7, <1>9, <3>2 DEF Own
        <4>2. \A i \in 1..n : Own(i, u)' <=> Own(i, u) BY <1>2, <1>7 DEF Own
        <4>3. writeSeq'[u] = writeSeq[u] BY <1>2, <1>5, <3>2
        <4>4. IF \E i \in 1..n : Own(i, u)
              THEN \E i \in 1..n : Own(i, u) /\ ring[i].seq + 1 = writeSeq[u]
              ELSE readSeq[u] = writeSeq[u]
          BY <1>3, <1>7 DEF LastNumber
        <4>5. \A i \in 1..(n + 1) : i \in 1..n \/ i = n + 1 OBVIOUS
        <4> QED BY <1>2, <1>6, <1>7, <4>1, <4>2, <4>3, <4>4, <4>5
      <3> QED BY <3>1, <3>2
    <2> QED BY <1>7, <2>1 DEF LastNumber
  <1>15. ASSUME NEW i \in 1..n, InRange(ring[i].ver)
         PROVE  /\ Expected(ring[i])' = Expected(ring[i]) /\ Turn(i)' = Turn(i)
                /\ First(i)' <=> First(i)
                /\ \A j \in 1..(i - 1) : SameKey(ring[j], ring[i])' <=> SameKey(ring[j], ring[i])
    <2>1. Expected(ring[i])' = Expected(ring[i]) BY <1>2, <1>7 DEF Expected
    <2>2. Turn(i)' = Turn(i) BY <1>2, <1>7 DEF Turn, Returned
    <2>3. \A j \in 1..(i - 1) : SameKey(ring[j], ring[i])' <=> SameKey(ring[j], ring[i])
      <3>1. \A j \in 1..(i - 1) : j \in 1..n /\ ring'[j] = ring[j] BY <1>7
      <3> QED BY <1>7, <3>1 DEF SameKey
    <2>4. First(i)' <=> First(i) BY <2>3 DEF First
    <2> QED BY <2>1, <2>2, <2>3, <2>4
  <1>16. /\ Expected(x) <= x.seq
         /\ IF \A i \in 1..n : ~Own(i, t) THEN Expected(x) = x.seq
            ELSE \E i \in 1..n : Own(i, t) /\ x.seq = ring[i].seq + 1
    <2>1. Expected(x) = readSeq[t] BY <1>9 DEF Expected
    <2>2. CASE \A i \in 1..n : ~Own(i, t)
      <3>1. readSeq[t] = writeSeq[t] BY <1>3, <1>7, <2>2 DEF LastNumber
      <3> QED BY <1>5, <1>9, <2>1, <2>2, <3>1
    <2>3. CASE ~\A i \in 1..n : ~Own(i, t)
      <3>1. PICK i \in 1..n : Own(i, t) /\ ring[i].seq + 1 = writeSeq[t]
        BY <1>3, <1>7, <2>3 DEF LastNumber
      <3>2. InRange(ring[i].ver) /\ Expected(ring[i]) = readSeq[t]
        BY <1>4, <3>1 DEF Own, Expected
      <3>3. Expected(ring[i]) <= Turn(i) /\ Expected(ring[i]) \in Nat
        BY <1>3, <1>7, <3>2, RingCounted DEF NumbersInOrder
      <3>4. Turn(i) <= ring[i].seq + 1 /\ ring[i].seq \in Nat BY <1>4, <1>7 DEF Turn
      <3>5. Turn(i) \in Nat BY <3>4 DEF Turn
      <3>6. readSeq[t] <= writeSeq[t] BY <1>5, <3>1, <3>2, <3>3, <3>4, <3>5
      <3> QED BY <1>9, <2>1, <2>3, <3>1, <3>6
    <2> QED BY <2>2, <2>3
  <1>17. /\ Turn(n + 1)' = x.seq /\ Expected(ring[n + 1])' = Expected(x)
         /\ \A j \in 1..n : SameKey(ring[j], ring[n + 1])' <=> Own(j, t)
    <2>1. rpc = "parent" => n # 0
      <3>1. rpc = "parent" => ring # <<>> BY DEF OversizeInv, ReaderSound, HeadInUse
      <3> QED BY <1>4, <1>6, <3>1
    <2>2. ~Returned(n + 1)' BY <1>2, <1>6, <2>1 DEF Returned
    <2> QED BY <1>2, <1>7, <1>9, <2>2 DEF Turn, Expected, SameKey, Own
  <1>18. NumbersInOrder'
    <2>1. ASSUME NEW i \in 1..(n + 1), NEW j \in 1..(n + 1), i < j, InRange(ring[i].ver)',
                 SameKey(ring[i], ring[j])'
          PROVE  ring'[i].seq < ring'[j].seq
      <3>1. i \in 1..n BY <1>6, <2>1
      <3>2. CASE j \in 1..n
        <4>1. InRange(ring[i].ver) /\ SameKey(ring[i], ring[j])
          BY <1>2, <1>7, <2>1, <3>1, <3>2 DEF InRange, Age, SameKey
        <4> QED BY <1>3, <1>7, <2>1, <3>1, <3>2, <4>1 DEF NumbersInOrder
      <3>3. CASE j = n + 1
        <4>1. Own(i, t) BY <1>17, <2>1, <3>1, <3>3
        <4> QED BY <1>7, <1>9, <1>10, <3>1, <3>3, <4>1
      <3> QED BY <3>2, <3>3
    <2>2. ASSUME NEW i \in 1..(n + 1), InRange(ring[i].ver)'
          PROVE  /\ Expected(ring[i])' <= Turn(i)'
                 /\ IF First(i)' THEN Expected(ring[i])' = Turn(i)'
                    ELSE \E j \in 1..(i - 1) : SameKey(ring[j], ring[i])' /\ ring'[i].seq = ring'[j].seq + 1
      <3>1. CASE i \in 1..n
        <4>1. InRange(ring[i].ver) BY <1>2, <1>7, <2>2, <3>1 DEF InRange, Age
        <4>2. /\ Expected(ring[i]) <= Turn(i)
              /\ IF First(i) THEN Expected(ring[i]) = Turn(i)
                 ELSE \E j \in 1..(i - 1) : SameKey(ring[j], ring[i]) /\ ring[i].seq = ring[j].seq + 1
          BY <1>3, <1>7, <3>1, <4>1 DEF NumbersInOrder
        <4>3. \A j \in 1..(i - 1) : j \in 1..n BY <3>1
        <4> QED BY <1>7, <1>15, <3>1, <4>1, <4>2, <4>3
      <3>2. CASE i = n + 1
        <4>1. i - 1 = n BY <1>6, <3>2
        <4>2. First(i)' <=> \A j \in 1..n : ~Own(j, t) BY <1>17, <3>2, <4>1 DEF First
        <4> QED BY <1>7, <1>16, <1>17, <3>2, <4>1, <4>2
      <3> QED BY <3>1, <3>2
    <2> QED BY <1>7, <2>1, <2>2 DEF NumbersInOrder
  <1> QED BY <1>11, <1>12, <1>13, <1>14, <1>18 DEF NumbersInv

\* The number that is taken back was the last one.
LEMMA SeekFailsNumbers ==
  ASSUME OversizeInv, DataInv, NEW t \in Threads, SeekFails(t)
  PROVE  /\ NumbersInv' /\ DOMAIN ring' = DOMAIN ring
         /\ Mine(t) \in DOMAIN ring /\ ~ring[Mine(t)].done /\ ~InRange(ring'[Mine(t)].ver)
         /\ \A i \in DOMAIN ring : i # Mine(t) => ring'[i] = ring[i]
         /\ ring' \in Seq(Items)
  <1> DEFINE w == (version + 1) % V
  <1>1. PICK m : m = Mine(t) OBVIOUS
  <1>2. /\ pc[t] = "seek" /\ writeSeq' = [writeSeq EXCEPT ![t] = @ - 1]
        /\ ring' = [ring EXCEPT ![m].ver = w, ![m].done = TRUE]
        /\ UNCHANGED <<version, readSeq, reading, records, rpc>>
    BY <1>1 DEF SeekFails, readerVars
  <1>3. /\ m \in DOMAIN ring /\ ring[m].t = t /\ ~ring[m].done /\ ring[m].ver = version
        /\ ring[m].seq = writeSeq[t] - 1 /\ ring[m].seq \in Nat
    BY <1>1, <1>2, MineIs
  <1>4. /\ ring \in Seq(Items) /\ version \in Version /\ reading \in Version
        /\ Age(version) = 0 /\ InRange(version)
        /\ \A i \in DOMAIN ring : /\ ring[i].ver \in Version /\ ring[i].t \in Threads
                                  /\ ring[i].seq \in Nat /\ i \in Nat /\ i >= 1
    BY EntryTypes
  <1>5. w \in Version /\ w # version /\ ~InRange(w)
    <2>1. w \in Version /\ w # version /\ Old(version, w) = V - 1 BY <1>4, NextVer, OldVersions
    <2> QED BY <2>1, Constants, RangeIsOld
  <1> HIDE DEF w
  <1>6. writeSeq \in [Threads -> Nat] /\ writeSeq'[t] = writeSeq[t] - 1
        /\ \A u \in Threads : u # t => writeSeq'[u] = writeSeq[u]
    BY <1>2 DEF OversizeInv, TypeOK
  <1>7. /\ DOMAIN ring' = DOMAIN ring /\ ring'[m].ver = w /\ ring'[m].t = t /\ ring'[m].done
        /\ \A i \in DOMAIN ring : i # m => ring'[i] = ring[i]
    <2>1. ring[m] \in Items BY <1>3, <1>4
    <2>2. ring'[m] = [ring[m] EXCEPT !.ver = w, !.done = TRUE] BY <1>2, <1>3
    <2>3. ring'[m].ver = w /\ ring'[m].t = t /\ ring'[m].done BY <1>3, <2>1, <2>2 DEF Items
    <2>4. DOMAIN ring' = DOMAIN ring /\ \A i \in DOMAIN ring : i # m => ring'[i] = ring[i]
      BY <1>2, <1>3
    <2> QED BY <2>3, <2>4
  <1>8. ring' \in Seq(Items)
    <2>1. ring'[m] \in Items
      <3>1. ring'[m] = [ring[m] EXCEPT !.ver = w, !.done = TRUE] BY <1>2, <1>3
      <3>2. ring[m] \in Items BY <1>3, <1>4
      <3> QED BY <1>5, <3>1, <3>2 DEF Items
    <2>2. PICK n \in Nat : DOMAIN ring = 1..n BY <1>4
    <2>3. \A i \in 1..n : ring'[i] \in Items BY <1>4, <1>7, <2>1, <2>2
    <2>4. ring' = [i \in 1..n |-> ring'[i]] BY <1>2, <2>2, <1>4
    <2>5. ring' \in [1..n -> Items] BY <2>3, <2>4
    <2> QED BY <2>2, <2>5
  <1>9. RecordTypes /\ VersionsInOrder /\ NotPassed /\ NumbersInOrder /\ LastNumber BY DEF DataInv
  <1>10. ASSUME NEW i \in DOMAIN ring, InRange(ring[i].ver)'
         PROVE  i # m /\ ring'[i] = ring[i] /\ InRange(ring[i].ver)
    <2>1. i # m BY <1>2, <1>5, <1>7, <1>10 DEF InRange, Age
    <2> QED BY <1>2, <1>7, <1>10, <2>1 DEF InRange, Age
  <1>11. RecordTypes' BY <1>2, <1>9 DEF RecordTypes
  <1>12. VersionsInOrder'
    <2>1. ASSUME NEW i \in DOMAIN ring', NEW j \in DOMAIN ring', i < j,
                 InRange(ring[i].ver)', InRange(ring[j].ver)'
          PROVE  Age(ring[j].ver)' <= Age(ring[i].ver)'
      <3>1. /\ ring'[i] = ring[i] /\ InRange(ring[i].ver) /\ ring'[j] = ring[j] /\ InRange(ring[j].ver)
        BY <1>7, <1>10, <2>1
      <3>2. Age(ring[j].ver) <= Age(ring[i].ver) BY <1>7, <1>9, <2>1, <3>1 DEF VersionsInOrder
      <3> QED BY <1>2, <3>1, <3>2 DEF Age
    <2> QED BY <2>1 DEF VersionsInOrder
  <1>13. NotPassed'
    <2>1. ASSUME NEW i \in DOMAIN ring', InRange(ring[i].ver)'
          PROVE  Age(ring[i].ver)' <= Age(reading)' /\ (ring'[i].ver # version' => Known(ring[i])')
      <3>1. ring'[i] = ring[i] /\ InRange(ring[i].ver) BY <1>7, <1>10, <2>1
      <3> QED BY <1>2, <1>7, <1>9, <3>1 DEF NotPassed, Age, Known
    <2>2. w # reading BY <1>5, EntryTypes
    <2> QED BY <1>2, <1>7, <1>9, <2>1, <2>2 DEF NotPassed
  <1>14. \A i, j \in DOMAIN ring : i < j /\ InRange(ring[i].ver) /\ SameKey(ring[i], ring[j]) =>
          ring[i].seq < ring[j].seq
    BY <1>9 DEF NumbersInOrder
  <1>15. ASSUME NEW i \in DOMAIN ring, i # m, SameKey(ring[m], ring[i])
         PROVE  i < m
    <2>1. ring[i].ver = version /\ ring[i].t = t BY <1>3, <1>15 DEF SameKey
    <2>2. ring[i].done
      <3>1. \A j \in DOMAIN ring : ring[j].t = t /\ ~ring[j].done => j = m BY <1>1, <1>2, MineIs
      <3> QED BY <1>15, <2>1, <3>1
    <2>3. EntrySound(ring[i]) BY DEF OversizeInv, RingSound
    <2>4. ring[i].seq < ring[m].seq BY <1>2, <1>3, <2>1, <2>2, <2>3 DEF EntrySound
    <2>5. m < i => ring[m].seq < ring[i].seq BY <1>3, <1>4, <1>14, <1>15
    <2>6. ring[i].seq \in Nat /\ i \in Nat /\ m \in Nat BY <1>3, <1>4
    <2> QED BY <1>3, <1>15, <2>4, <2>5, <2>6
  <1>16. ASSUME NEW i \in DOMAIN ring, i # m, NEW j \in 1..(i - 1), InRange(ring[i].ver)
         PROVE  /\ j \in DOMAIN ring /\ (SameKey(ring[j], ring[i])' <=> SameKey(ring[j], ring[i]))
                /\ SameKey(ring[j], ring[i]) => j # m /\ ring'[j] = ring[j]
    <2>1. j \in DOMAIN ring BY <1>4
    <2>2. CASE j = m
      <3>1. ~SameKey(ring[j], ring[i]) BY <1>4, <1>15, <1>16, <2>2
      <3>2. ~SameKey(ring[j], ring[i])' BY <1>5, <1>7, <1>16, <2>2 DEF SameKey
      <3> QED BY <2>1, <3>1, <3>2
    <2>3. CASE j # m BY <1>7, <1>16, <2>1, <2>3 DEF SameKey
    <2> QED BY <2>2, <2>3
  <1>17. NumbersInOrder'
    <2>1. ASSUME NEW i \in DOMAIN ring', NEW j \in DOMAIN ring', i < j, InRange(ring[i].ver)',
                 SameKey(ring[i], ring[j])'
          PROVE  ring'[i].seq < ring'[j].seq
      <3>1. i # m /\ ring'[i] = ring[i] /\ InRange(ring[i].ver) BY <1>7, <1>10, <2>1
      <3>2. InRange(ring[j].ver)' BY <2>1 DEF SameKey
      <3>3. j # m /\ ring'[j] = ring[j] BY <1>7, <1>10, <3>2
      <3>4. SameKey(ring[i], ring[j]) BY <2>1, <3>1, <3>3 DEF SameKey
      <3> QED BY <1>7, <1>14, <2>1, <3>1, <3>3, <3>4
    <2>2. ASSUME NEW i \in DOMAIN ring', InRange(ring[i].ver)'
          PROVE  /\ Expected(ring[i])' <= Turn(i)'
                 /\ IF First(i)' THEN Expected(ring[i])' = Turn(i)'
                    ELSE \E j \in 1..(i - 1) : SameKey(ring[j], ring[i])' /\ ring'[i].seq = ring'[j].seq + 1
      <3>1. i \in DOMAIN ring /\ i # m /\ ring'[i] = ring[i] /\ InRange(ring[i].ver)
        BY <1>7, <1>10, <2>2
      <3>2. /\ Expected(ring[i]) <= Turn(i)
            /\ IF First(i) THEN Expected(ring[i]) = Turn(i)
               ELSE \E j \in 1..(i - 1) : SameKey(ring[j], ring[i]) /\ ring[i].seq = ring[j].seq + 1
        BY <1>9, <3>1 DEF NumbersInOrder
      <3>3. Expected(ring[i])' = Expected(ring[i]) /\ Turn(i)' = Turn(i)
        BY <1>2, <3>1 DEF Expected, Turn, Returned
      <3>4. First(i)' <=> First(i) BY <1>16, <3>1 DEF First
      <3>5. CASE First(i) BY <3>2, <3>3, <3>4, <3>5
      <3>6. CASE ~First(i)
        <4>1. PICK j \in 1..(i - 1) : SameKey(ring[j], ring[i]) /\ ring[i].seq = ring[j].seq + 1
          BY <3>2, <3>6
        <4>2. SameKey(ring[j], ring[i])' /\ ring'[j] = ring[j] BY <1>16, <3>1, <4>1
        <4> QED BY <3>1, <3>2, <3>3, <3>4, <3>6, <4>1, <4>2
      <3> QED BY <3>5, <3>6
    <2> QED BY <2>1, <2>2 DEF NumbersInOrder
  <1>18. LastNumber'
    <2>1. ASSUME NEW u \in Threads
          PROVE  IF \E i \in DOMAIN ring' : Own(i, u)'
                 THEN \E i \in DOMAIN ring' : Own(i, u)' /\ ring'[i].seq + 1 = writeSeq'[u]
                 ELSE readSeq'[u] = writeSeq'[u]
      <3>1. \A i \in DOMAIN ring : Own(i, u)' <=> (Own(i, u) /\ i # m)
        BY <1>2, <1>5, <1>7 DEF Own
      <3>2. IF \E i \in DOMAIN ring : Own(i, u)
            THEN \E i \in DOMAIN ring : Own(i, u) /\ ring[i].seq + 1 = writeSeq[u]
            ELSE readSeq[u] = writeSeq[u]
        BY <1>9 DEF LastNumber
      <3>3. CASE u # t
        <4>1. ~Own(m, u) BY <1>3, <3>3 DEF Own
        <4>2. \A i \in DOMAIN ring : Own(i, u)' <=> Own(i, u) BY <3>1, <4>1
        <4>3. \A i \in DOMAIN ring : Own(i, u) => ring'[i] = ring[i] BY <1>7, <4>1
        <4> QED BY <1>2, <1>6, <1>7, <3>2, <3>3, <4>2, <4>3
      <3>4. CASE u = t
        <4>1. /\ Expected(ring[m]) = readSeq[t]
              /\ IF First(m) THEN Expected(ring[m]) = Turn(m)
                 ELSE \E j \in 1..(m - 1) : SameKey(ring[j], ring[m]) /\ ring[m].seq = ring[j].seq + 1
          BY <1>3, <1>4, <1>9 DEF NumbersInOrder, Expected
        <4>2. Turn(m) = ring[m].seq
          <5>1. rpc = "parent" => ring[1].done
            <6>1. rpc = "parent" => ring # <<>> /\ Head(ring).done
              BY DEF OversizeInv, ReaderSound, HeadInUse
            <6> QED BY <1>4, <6>1
          <5> QED BY <1>3, <5>1 DEF Turn, Returned
        <4>3. CASE First(m)
          <5>1. ~\E i \in DOMAIN ring : Own(i, t)'
            <6>1. SUFFICES ASSUME NEW i \in DOMAIN ring, Own(i, t), i # m PROVE FALSE
              BY <3>1, <3>4
            <6>2. SameKey(ring[i], ring[m]) /\ SameKey(ring[m], ring[i])
              BY <1>3, <6>1 DEF Own, SameKey
            <6>3. i \in 1..(m - 1)
              <7>1. i < m /\ i \in Nat /\ m \in Nat /\ i >= 1 BY <1>3, <1>4, <1>15, <6>1, <6>2
              <7> QED BY <7>1
            <6> QED BY <4>3, <6>2, <6>3 DEF First
          <5>2. readSeq[t] = writeSeq[t] - 1 BY <1>3, <4>1, <4>2, <4>3
          <5> QED BY <1>2, <1>6, <1>7, <3>4, <5>1, <5>2
        <4>4. CASE ~First(m)
          <5>1. PICK j \in 1..(m - 1) : SameKey(ring[j], ring[m]) /\ ring[m].seq = ring[j].seq + 1
            BY <4>1, <4>4
          <5>2. j \in DOMAIN ring /\ j # m BY <1>3, <1>4
          <5>3. Own(j, t) BY <1>3, <5>1 DEF Own, SameKey
          <5>4. Own(j, t)' /\ ring'[j] = ring[j] BY <1>7, <3>1, <3>4, <5>2, <5>3
          <5>5. ring'[j].seq + 1 = writeSeq'[t] BY <1>3, <1>6, <5>1, <5>4
          <5> QED BY <1>7, <3>4, <5>2, <5>4, <5>5
        <4> QED BY <4>3, <4>4
      <3> QED BY <3>3, <3>4
    <2> QED BY <2>1 DEF LastNumber
  <1>19. ~InRange(ring'[m].ver) BY <1>5, <1>7
  <1> QED BY <1>1, <1>3, <1>7, <1>8, <1>11, <1>12, <1>13, <1>17, <1>18, <1>19 DEF NumbersInv

\* A version is younger by one to the version before.
LEMMA BeforeNew ==
  ASSUME NEW v \in Version, NEW u \in Version, u # v
  PROVE  (v - 1 - u) % V = Old(v, u) - 1
  <1>1. v \in Int /\ u \in Int /\ 0 <= v /\ 0 <= u /\ v < V /\ u < V /\ V \in Int /\ V > 3
    BY Constants DEF Version
  <1>2. Old(v, u) = IF u <= v THEN v - u ELSE v - u + V BY ModDiff DEF Old
  <1>3. PICK x \in Int : x = v - 1 - u BY <1>1
  <1>4. CASE u < v
    <2>1. x \in 0..(V - 1) BY <1>1, <1>3, <1>4
    <2>2. x % V = x BY <1>1, <2>1
    <2> QED BY <1>1, <1>2, <1>3, <1>4, <2>2
  <1>5. CASE v < u
    <2>1. x + V \in 0..(V - 1) BY <1>1, <1>3, <1>5
    <2>2. (x + V) % V = x + V BY <1>1, <2>1
    <2>3. (x + V) % V = x % V BY <1>1, <1>3
    <2> QED BY <1>1, <1>2, <1>3, <1>5, <2>2, <2>3
  <1> QED BY <1>1, <1>4, <1>5

\* recovery_records_: each version and thread in range has its least number.
LEMMA RecordsAre ==
  ASSUME NEW v \in Version, NEW r \in Seq(Items)
  PROVE  /\ DOMAIN RecordsOf(r, v) \subseteq Version \X Threads
         /\ RecordsOf(r, v) \in [DOMAIN RecordsOf(r, v) -> Nat]
         /\ \A i \in DOMAIN r : r[i].ver # v /\ Old(v, r[i].ver) <= Span =>
              <<r[i].ver, r[i].t>> \in DOMAIN RecordsOf(r, v)
         /\ \A k \in DOMAIN RecordsOf(r, v) :
              /\ \E j \in DOMAIN r : <<r[j].ver, r[j].t>> = k /\ r[j].seq = RecordsOf(r, v)[k]
              /\ \A j \in DOMAIN r : <<r[j].ver, r[j].t>> = k => RecordsOf(r, v)[k] <= r[j].seq
  <1> DEFINE inr  == {j \in DOMAIN r : (v - 1 - r[j].ver) % V < Span}
             keys == {<<r[i].ver, r[i].t>> : i \in inr}
             ns(k) == {r[i].seq : i \in {j \in DOMAIN r : <<r[j].ver, r[j].t>> = k}}
             rs == RecordsOf(r, v)
  <1>1. rs = [k \in keys |-> CHOOSE n \in ns(k) : \A m \in ns(k) : n <= m] BY DEF RecordsOf
  <1>2. \A i \in DOMAIN r : r[i].ver \in Version /\ r[i].t \in Threads /\ r[i].seq \in Nat
    <2> TAKE i \in DOMAIN r
    <2>1. r[i] \in Items OBVIOUS
    <2> QED BY <2>1 DEF Items
  <1> HIDE DEF rs
  <1>3. DOMAIN rs = keys BY <1>1
  <1>4. keys \subseteq Version \X Threads BY <1>2
  <1>5. ASSUME NEW k \in keys
        PROVE  rs[k] \in Nat /\ rs[k] \in ns(k) /\ \A m \in ns(k) : rs[k] <= m
    <2>1. ns(k) \in SUBSET Nat BY <1>2
    <2>2. ns(k) # {}
      <3>1. PICK i \in inr : <<r[i].ver, r[i].t>> = k OBVIOUS
      <3>2. r[i].seq \in ns(k) BY <3>1
      <3> QED BY <3>2
    <2>3. PICK S : S = ns(k) OBVIOUS
    <2>4. rs[k] = CHOOSE n \in S : \A m \in S : n <= m BY <1>1, <2>3
    <2>5. \E n \in S : \A m \in S : n <= m BY <2>1, <2>2, <2>3, Smallest
    <2>6. rs[k] \in S /\ \A m \in S : rs[k] <= m BY <2>4, <2>5
    <2> QED BY <2>1, <2>3, <2>6
  <1>6. ASSUME NEW i \in DOMAIN r, r[i].ver # v, Old(v, r[i].ver) <= Span
        PROVE  <<r[i].ver, r[i].t>> \in keys
    <2>1. (v - 1 - r[i].ver) % V = Old(v, r[i].ver) - 1 BY <1>2, <1>6, BeforeNew
    <2>2. Old(v, r[i].ver) \in 0..(V - 1) BY <1>2, OldVersions
    <2>3. (v - 1 - r[i].ver) % V < Span BY <1>6, <2>1, <2>2, Constants
    <2>4. i \in inr BY <2>3
    <2> QED BY <2>4
  <1>7. \A k \in keys :
          /\ \E j \in DOMAIN r : <<r[j].ver, r[j].t>> = k /\ r[j].seq = rs[k]
          /\ \A j \in DOMAIN r : <<r[j].ver, r[j].t>> = k => rs[k] <= r[j].seq
    BY <1>5
  <1>8. rs \in [keys -> Nat] BY <1>1, <1>5
  <1> HIDE DEF keys
  <1> QED BY <1>3, <1>4, <1>6, <1>7, <1>8 DEF rs

\* What the new process makes of the numbers that it finds.
LEMMA DieNumbers ==
  ASSUME OversizeInv, DataInv, Die
  PROVE  NumbersInv'
  <1>1. PICK v : v = (version + 1) % V OBVIOUS
  <1>2. /\ version' = v /\ ring' = Fixed(v) /\ reading' = (v - Span) % V
        /\ records' = RecordsOf(Fixed(v), v) /\ rpc' = "idle"
        /\ writeSeq' = [t \in Threads |-> 0] /\ readSeq' = [t \in Threads |-> 0]
    BY <1>1 DEF Die
  <1>3. version \in Version /\ v \in Version BY <1>1, NextVer DEF OversizeInv, TypeOK
  <1>4. PICK w : w = (v + 1) % V OBVIOUS
  <1>5. w \in Version /\ w # v /\ Old(v, w) = V - 1 BY <1>3, <1>4, NextVer, OldVersions
  <1>6. Age(reading)' = Span BY <1>2, <1>3, PreviousVer DEF Age
  <1>7. PICK f : f = Fixed(v) OBVIOUS
  <1>8. /\ f \in Seq(Items)
        /\ \A i \in DOMAIN f :
             /\ i \in DOMAIN ring /\ ring[i] \in Items
             /\ f[i].t = ring[i].t /\ f[i].seq = ring[i].seq
             /\ \/ f[i].ver = ring[i].ver /\ ring[i].ver # v
                \/ f[i].ver = w /\ ring[i].ver = v
    BY <1>3, <1>4, <1>7, FixedOf
  <1>9. ring' = f /\ records' = RecordsOf(f, v) BY <1>2, <1>7
  <1>10. \A i \in DOMAIN f : /\ i \in Nat /\ i >= 1 /\ 1..(i - 1) \subseteq DOMAIN f
                             /\ f[i].ver \in Version /\ f[i].t \in Threads /\ f[i].seq \in Nat
    <2> TAKE i \in DOMAIN f
    <2>1. f[i] \in Items /\ i \in Nat /\ i >= 1 /\ 1..(i - 1) \subseteq DOMAIN f BY <1>8
    <2> QED BY <2>1 DEF Items
  <1>11. \A u : Age(u)' = Old(v, u) /\ (InRange(u)' <=> Old(v, u) <= Span)
    BY <1>2 DEF InRange, Age, Old
  <1>12. ASSUME NEW i \in DOMAIN f, InRange(f[i].ver)'
         PROVE  /\ f[i].ver = ring[i].ver /\ ring[i].ver # v /\ InRange(ring[i].ver)
                /\ Age(ring[i].ver) + 1 = Age(f[i].ver)'
                /\ Age(ring[i].ver) \in Nat
    <2>1. Old(v, f[i].ver) <= Span BY <1>11, <1>12
    <2>2. f[i].ver = ring[i].ver /\ ring[i].ver # v BY <1>5, <1>8, <2>1, Constants
    <2>3. ring[i].ver \in Version BY <1>10, <2>2
    <2>4. /\ Old(v, ring[i].ver) = Old(version, ring[i].ver) + 1
          /\ Old(version, ring[i].ver) \in 0..(V - 1)
      BY <1>1, <1>3, <2>2, <2>3, Ageing, OldVersions
    <2>5. Age(ring[i].ver) = Old(version, ring[i].ver) BY DEF Age, Old
    <2>6. Age(f[i].ver)' = Old(v, ring[i].ver) BY <1>11, <2>2
    <2>7. InRange(ring[i].ver) BY <2>1, <2>2, <2>4, <2>5, Constants DEF InRange
    <2> QED BY <2>2, <2>4, <2>5, <2>6, <2>7
  <1>13. RecordTypes /\ VersionsInOrder /\ NotPassed /\ NumbersInOrder /\ LastNumber BY DEF DataInv
  <1>14. RecordTypes'
    <2>1. readSeq' \in [Threads -> Nat] BY <1>2
    <2> QED BY <1>3, <1>8, <1>9, <2>1, RecordsAre DEF RecordTypes
  <1>15. VersionsInOrder'
    <2>1. ASSUME NEW i \in DOMAIN f, NEW j \in DOMAIN f, i < j,
                 InRange(f[i].ver)', InRange(f[j].ver)'
          PROVE  Age(f[j].ver)' <= Age(f[i].ver)'
      <3>1. /\ InRange(ring[i].ver) /\ InRange(ring[j].ver)
            /\ Age(ring[i].ver) + 1 = Age(f[i].ver)' /\ Age(ring[j].ver) + 1 = Age(f[j].ver)'
            /\ Age(ring[i].ver) \in Nat /\ Age(ring[j].ver) \in Nat
        BY <1>12, <2>1
      <3>2. Age(ring[j].ver) <= Age(ring[i].ver) BY <1>8, <1>13, <2>1, <3>1 DEF VersionsInOrder
      <3> QED BY <3>1, <3>2
    <2> QED BY <1>9, <2>1 DEF VersionsInOrder, InRange, Age
  <1>16. ASSUME NEW i \in DOMAIN f, InRange(f[i].ver)'
         PROVE  /\ f[i].ver # v /\ <<f[i].ver, f[i].t>> \in DOMAIN records'
                /\ Expected(f[i])' = records'[<<f[i].ver, f[i].t>>]
    <2>1. f[i].ver # v BY <1>12, <1>16
    <2>2. Old(v, f[i].ver) <= Span BY <1>11, <1>16
    <2>3. <<f[i].ver, f[i].t>> \in DOMAIN records' BY <1>3, <1>8, <1>9, <2>1, <2>2, RecordsAre
    <2> QED BY <1>2, <2>1, <2>3 DEF Expected
  <1>17. NotPassed'
    <2>1. ASSUME NEW i \in DOMAIN ring', InRange(ring[i].ver)'
          PROVE  Age(ring[i].ver)' <= Age(reading)' /\ (ring'[i].ver # version' => Known(ring[i])')
      <3>1. i \in DOMAIN f /\ ring'[i] = f[i] BY <1>9
      <3>2. InRange(f[i].ver)' BY <2>1, <3>1 DEF InRange, Age
      <3>3. Age(f[i].ver)' <= Span BY <3>2 DEF InRange
      <3>4. <<f[i].ver, f[i].t>> \in DOMAIN records' BY <1>16, <3>1, <3>2
      <3> QED BY <1>6, <3>1, <3>3, <3>4 DEF Known, Age
    <2> QED BY <1>2, <2>1 DEF NotPassed
  <1>18. ASSUME NEW i \in DOMAIN f, InRange(f[i].ver)', NEW j \in DOMAIN f
         PROVE  /\ SameKey(f[j], f[i]) <=> SameKey(ring[j], ring[i])
                /\ SameKey(f[j], f[i]) => InRange(f[j].ver)'
    <2>1. f[i].ver = ring[i].ver /\ ring[i].ver # v BY <1>12, <1>18
    <2>2. f[i].ver # w
      <3>1. Old(v, f[i].ver) <= Span BY <1>11, <1>18
      <3> QED BY <1>5, <3>1, Constants
    <2>3. f[i].t = ring[i].t /\ f[j].t = ring[j].t BY <1>8
    <2>4. f[j].ver = f[i].ver <=> ring[j].ver = ring[i].ver BY <1>8, <2>1, <2>2
    <2> QED BY <1>18, <2>3, <2>4 DEF SameKey
  <1>19. ASSUME NEW i \in DOMAIN f, NEW j \in DOMAIN f, i < j, InRange(f[i].ver)', SameKey(f[i], f[j])
         PROVE  f[i].seq < f[j].seq
    <2>1. InRange(f[j].ver)' BY <1>19 DEF SameKey
    <2>2. SameKey(ring[i], ring[j]) BY <1>18, <1>19, <2>1
    <2>3. InRange(ring[i].ver) BY <1>12, <1>19
    <2>4. ring[i].seq < ring[j].seq BY <1>8, <1>13, <1>19, <2>2, <2>3 DEF NumbersInOrder
    <2> QED BY <1>8, <2>4
  <1>20. ASSUME NEW i \in DOMAIN f, InRange(f[i].ver)'
         PROVE  /\ Expected(f[i])' <= f[i].seq
                /\ IF \A j \in 1..(i - 1) : ~SameKey(f[j], f[i]) THEN Expected(f[i])' = f[i].seq
                   ELSE \E j \in 1..(i - 1) : SameKey(f[j], f[i]) /\ f[i].seq = f[j].seq + 1
    <2>1. PICK k : k = <<f[i].ver, f[i].t>> OBVIOUS
    <2>2. k \in DOMAIN RecordsOf(f, v) /\ Expected(f[i])' = RecordsOf(f, v)[k]
      BY <1>9, <1>16, <1>20, <2>1
    <2>3. /\ \E j \in DOMAIN f : <<f[j].ver, f[j].t>> = k /\ f[j].seq = Expected(f[i])'
          /\ \A j \in DOMAIN f : <<f[j].ver, f[j].t>> = k => Expected(f[i])' <= f[j].seq
      <3>1. f \in Seq(Items) /\ v \in Version BY <1>3, <1>8
      <3>2. /\ \E j \in DOMAIN f : <<f[j].ver, f[j].t>> = k /\ f[j].seq = RecordsOf(f, v)[k]
            /\ \A j \in DOMAIN f : <<f[j].ver, f[j].t>> = k => RecordsOf(f, v)[k] <= f[j].seq
        BY <2>2, <3>1, RecordsAre
      <3> QED BY <2>2, <3>2
    <2>4. \A j \in DOMAIN f : <<f[j].ver, f[j].t>> = k <=> SameKey(f[j], f[i])
      BY <2>1 DEF SameKey
    <2>5. Expected(f[i])' <= f[i].seq BY <2>1, <2>3
    <2>6. CASE \A j \in 1..(i - 1) : ~SameKey(f[j], f[i])
      <3>1. PICK j \in DOMAIN f : SameKey(f[j], f[i]) /\ f[j].seq = Expected(f[i])' BY <2>3, <2>4
      <3>2. j = i
        <4>1. ~(j < i) BY <1>10, <2>6, <3>1
        <4>2. ~(i < j)
          <5>1. SUFFICES ASSUME i < j PROVE FALSE OBVIOUS
          <5>2. SameKey(f[i], f[j]) BY <3>1 DEF SameKey
          <5>3. f[i].seq < f[j].seq BY <1>19, <1>20, <5>1, <5>2
          <5>4. f[i].seq \in Nat /\ f[j].seq \in Nat BY <1>10
          <5> QED BY <2>5, <3>1, <5>3, <5>4
        <4>3. i \in Nat /\ j \in Nat BY <1>10
        <4> QED BY <4>1, <4>2, <4>3
      <3> QED BY <2>5, <2>6, <3>1, <3>2
    <2>7. CASE ~\A j \in 1..(i - 1) : ~SameKey(f[j], f[i])
      <3>1. InRange(ring[i].ver) /\ i \in DOMAIN ring BY <1>8, <1>12, <1>20
      <3>2. ~First(i) BY <1>10, <1>18, <1>20, <2>7 DEF First
      <3>3. PICK j \in 1..(i - 1) : SameKey(ring[j], ring[i]) /\ ring[i].seq = ring[j].seq + 1
        BY <1>13, <3>1, <3>2 DEF NumbersInOrder
      <3>4. j \in DOMAIN f BY <1>10
      <3>5. SameKey(f[j], f[i]) /\ f[i].seq = f[j].seq + 1 BY <1>8, <1>18, <1>20, <3>3, <3>4
      <3> QED BY <2>5, <2>7, <3>5
    <2> QED BY <2>6, <2>7
  <1>21. NumbersInOrder'
    <2>1. \A i \in DOMAIN f : Turn(i)' = f[i].seq BY <1>2, <1>9 DEF Turn, Returned
    <2>2. \A i \in DOMAIN f : First(i)' <=> \A j \in 1..(i - 1) : ~SameKey(f[j], f[i])
      BY <1>9 DEF First, SameKey
    <2>3. ASSUME NEW i \in DOMAIN ring', NEW j \in DOMAIN ring', i < j, InRange(ring[i].ver)',
                 SameKey(ring[i], ring[j])'
          PROVE  ring'[i].seq < ring'[j].seq
      <3>1. InRange(f[i].ver)' BY <1>9, <2>3 DEF InRange, Age
      <3>2. SameKey(f[i], f[j]) BY <1>9, <2>3 DEF SameKey
      <3> QED BY <1>9, <1>19, <2>3, <3>1, <3>2
    <2>4. ASSUME NEW i \in DOMAIN ring', InRange(ring[i].ver)'
          PROVE  /\ Expected(ring[i])' <= Turn(i)'
                 /\ IF First(i)' THEN Expected(ring[i])' = Turn(i)'
                    ELSE \E j \in 1..(i - 1) : SameKey(ring[j], ring[i])' /\ ring'[i].seq = ring'[j].seq + 1
      <3>1. i \in DOMAIN f /\ ring'[i] = f[i] BY <1>9
      <3>2. InRange(f[i].ver)' BY <2>4, <3>1 DEF InRange, Age
      <3>3. Expected(ring[i])' = Expected(f[i])' BY <3>1 DEF Expected
      <3>4. \A j \in 1..(i - 1) : SameKey(ring[j], ring[i])' <=> SameKey(f[j], f[i])
        BY <1>9 DEF SameKey
      <3> QED BY <1>9, <1>20, <2>1, <2>2, <3>1, <3>2, <3>3, <3>4
    <2> QED BY <2>3, <2>4 DEF NumbersInOrder
  <1>22. LastNumber'
    <2>1. \A i \in DOMAIN f : f[i].ver # v BY <1>5, <1>8
    <2>2. \A t \in Threads, i \in DOMAIN ring' : ~Own(i, t)' BY <1>2, <1>9, <2>1 DEF Own
    <2>3. \A t \in Threads : readSeq'[t] = writeSeq'[t] BY <1>2
    <2> QED BY <2>2, <2>3 DEF LastNumber
  <1> QED BY <1>14, <1>15, <1>17, <1>21, <1>22 DEF NumbersInv

LEMMA NumbersNext ==
  ASSUME OversizeInv, DataInv, [Next]_vars
  PROVE  NumbersInv'
  <1>1. NotPassed BY DEF DataInv
  <1>2. CASE \E t \in Threads : Seek(t) \/ CommitChunk(t)
    <2>1. UNCHANGED <<version, ring, writeSeq, readSeq, reading, records, rpc>>
      BY <1>2 DEF Seek, CommitChunk, readerVars
    <2> QED BY <1>1, <2>1, NumbersStay DEF NotPassed
  <1>3. CASE \E t \in Threads : Commit(t)
    <2>1. PICK t \in Threads : Commit(t) BY <1>3
    <2>2. PICK m : m = Mine(t) OBVIOUS
    <2>3. /\ UNCHANGED <<version, writeSeq, readSeq, reading, records, rpc>>
          /\ ring' = [ring EXCEPT ![m].done = TRUE] /\ pc[t] # "idle"
      BY <2>1, <2>2 DEF Commit, readerVars
    <2>4. m \in DOMAIN ring /\ ring[m] \in Items BY <2>2, <2>3, MineIs, EntryTypes
    <2>5. /\ ring'[m] = [ring[m] EXCEPT !.done = TRUE] /\ DOMAIN ring' = DOMAIN ring
          /\ \A i \in DOMAIN ring : i # m => ring'[i] = ring[i]
      BY <2>3, <2>4
    <2>6. ring'[m].ver = ring[m].ver /\ ring'[m].t = ring[m].t /\ ring'[m].seq = ring[m].seq
      BY <2>4, <2>5 DEF Items
    <2>7. \A i \in DOMAIN ring : ring'[i].ver = ring[i].ver /\ ring'[i].t = ring[i].t
                                 /\ ring'[i].seq = ring[i].seq
      BY <2>5, <2>6
    <2> QED BY <1>1, <2>3, <2>5, <2>7, NumbersStay DEF NotPassed
  <1>4. CASE LeaveRing
    <2>1. /\ UNCHANGED <<version, ring, writeSeq, readSeq, reading, records>>
          /\ rpc = "ring" /\ rpc' = "recycle"
      BY <1>4 DEF LeaveRing, threadVars
    <2>2. reading # version => \A i \in DOMAIN ring : ring[i].ver # reading BY <1>4, VersionIsRead
    <2> QED BY <2>1, <2>2, NumbersStay
  <1>5. CASE Begin \/ ReadSmall \/ ReadBig \/ AnswerEmpty
    <2>1. /\ UNCHANGED <<version, ring, writeSeq, readSeq, reading, records>>
          /\ rpc # "parent" /\ rpc' \notin {"parent", "recycle", "end"}
      BY <1>5 DEF Begin, ReadSmall, ReadBig, AnswerEmpty, threadVars
    <2> QED BY <2>1, NumbersStay
  <1>6. CASE Recycle \/ RecycleLater
    <2>1. /\ UNCHANGED <<version, ring, writeSeq, readSeq, reading, records>>
          /\ rpc = "recycle" /\ rpc' = "end"
      BY <1>6 DEF Recycle, RecycleLater, threadVars
    <2> QED BY <1>1, <2>1, NumbersStay DEF NotPassed
  <1>7. CASE UNCHANGED vars
    <2>1. UNCHANGED <<version, ring, writeSeq, readSeq, reading, records, rpc>>
      BY <1>7 DEF vars, threadVars, readerVars
    <2> QED BY <1>1, <2>1, NumbersStay DEF NotPassed
  <1>8. CASE \E t \in Threads : (\E big \in BOOLEAN : Reserve(t, big)) \/ SeekFails(t)
    BY <1>8, ReserveNumbers, SeekFailsNumbers
  <1>9. CASE ReadMissing \/ DropInvalid \/ ReturnSmall \/ ReturnParent BY <1>9, HeadGoesNumbers
  <1>10. CASE ReturnBig BY <1>10, ReturnBigNumbers
  <1>11. CASE NextVersion BY <1>11, NextVersionNumbers
  <1>12. CASE Die BY <1>12, DieNumbers
  <1> QED BY <1>2, <1>3, <1>4, <1>5, <1>6, <1>7, <1>8, <1>9, <1>10, <1>11, <1>12
          DEF Next, Proceed, Reader

-----------------------------------------------------------------------------
(***************************************************************************)
(* The chunks in a buffer, and who fills it.                               *)
(***************************************************************************)

\* r is what is left of cs without its first places.
EndOf(r, cs) ==
  \E k \in Nat : /\ Len(r) + k = Len(cs)
                 /\ \A n \in DOMAIN r : n + k \in DOMAIN cs /\ r[n] = cs[n + k]

\* What is kept of a buffer is its end; all that was good is in it, and comes first.
LEMMA KeptIsEnd ==
  ASSUME NEW S, NEW cs \in Seq(S), NEW good \in SUBSET (DOMAIN cs), NEW r, r = Kept(cs, good)
  PROVE  /\ EndOf(r, cs)
         /\ \A n \in good : \E m \in DOMAIN r : r[m] = cs[n]
         /\ good # {} => r # <<>> /\ \E n \in good : r[1] = cs[n]
  <1>1. CASE good = {}
    <2>1. r = <<>> BY <1>1 DEF Kept
    <2>2. PICK k \in Nat : k = Len(cs) OBVIOUS
    <2>3. Len(r) + k = Len(cs) /\ DOMAIN r = {} BY <2>1, <2>2
    <2>4. EndOf(r, cs) BY <2>3 DEF EndOf
    <2> QED BY <1>1, <2>4
  <1>2. CASE good # {}
    <2>1. good \in SUBSET Nat OBVIOUS
    <2>2. PICK o : o = CHOOSE n \in good : \A m \in good : n <= m OBVIOUS
    <2>3. o \in good /\ \A m \in good : o <= m BY <1>2, <2>1, <2>2, Smallest
    <2>4. o \in 1..Len(cs) BY <2>3
    <2>5. r = SubSeq(cs, o, Len(cs)) BY <1>2, <2>2 DEF Kept
    <2>6. /\ r \in Seq(S) /\ Len(r) = Len(cs) - o + 1
          /\ \A i \in 1..Len(r) : r[i] = cs[o + i - 1]
      BY <2>4, <2>5
    <2>7. PICK k \in Nat : k = o - 1 BY <2>4
    <2>8. PICK l \in Nat : l = Len(cs) OBVIOUS
    <2>9. Len(r) + k = l /\ Len(r) \in Nat /\ DOMAIN r = 1..Len(r) /\ DOMAIN cs = 1..l
          /\ k < l /\ Len(r) = l - k
      BY <2>4, <2>6, <2>7, <2>8
    <2>10. \A n \in 1..(l - k) : n + k \in 1..l /\ o + n - 1 = n + k BY <2>4, <2>7, <2>8
    <2>11. \A n \in DOMAIN r : n + k \in DOMAIN cs /\ r[n] = cs[n + k] BY <2>6, <2>9, <2>10
    <2>12. ASSUME NEW n \in good PROVE n - k \in DOMAIN r /\ r[n - k] = cs[n]
      <3>1. o <= n /\ n \in 1..l BY <2>3, <2>9
      <3>2. n - k \in 1..(l - k) /\ (n - k) + k = n BY <2>4, <2>7, <3>1
      <3> QED BY <2>9, <2>11, <3>2
    <2>13. o - k = 1 BY <2>4, <2>7
    <2>14. r # <<>> /\ r[1] = cs[o]
      <3>1. 1 \in DOMAIN r /\ r[1] = cs[o] BY <2>3, <2>12, <2>13
      <3>2. r # <<>> BY <2>6, <3>1
      <3> QED BY <3>1, <3>2
    <2>15. EndOf(r, cs) BY <2>8, <2>9, <2>11 DEF EndOf
    <2> QED BY <2>3, <2>12, <2>14, <2>15
  <1> QED BY <1>1, <1>2

LEMMA SameIsEnd ==
  ASSUME NEW S, NEW cs \in Seq(S)
  PROVE  EndOf(cs, cs)
  <1>1. Len(cs) + 0 = Len(cs) /\ \A n \in DOMAIN cs : n + 0 = n OBVIOUS
  <1> QED BY <1>1 DEF EndOf

\* A step that takes nothing but first chunks from the buffer.
Fronted(s) == EndOf(bufs'[s].chunks, bufs[s].chunks)

LEMMA FrontedBuffers ==
  ASSUME OversizeInv, DataInv, BufsShrink, \A s \in Live' : Fronted(s),
         UNCHANGED <<version, pc, filling, writeSeq>>
  PROVE  ChunksInOrder' /\ FillersKnown'
  <1>1. ASSUME NEW s \in Live'
        PROVE  /\ s \in Slots /\ s \in Live /\ bufs'[s] \in Buffers /\ bufs'[s].chunks \in Seq(Chunks)
               /\ bufs[s].chunks \in Seq(Chunks)
               /\ bufs'[s].ver = bufs[s].ver /\ bufs'[s].t = bufs[s].t
    <2>1. s \in Slots /\ bufs'[s] # None BY DEF Live
    <2>2. s \in Live /\ Shrunk(bufs'[s], bufs[s]) BY <2>1 DEF BufsShrink, Live
    <2>3. bufs[s].chunks \in Seq(Chunks) BY <2>2, ChunkTypes
    <2> QED BY <2>1, <2>2, <2>3 DEF Shrunk, Buffers
  <1>2. ChunksInOrder'
    <2>1. ASSUME NEW s \in Live', NEW m \in DOMAIN bufs'[s].chunks, NEW n \in DOMAIN bufs'[s].chunks,
                 m < n
          PROVE  bufs'[s].chunks[m].done /\ bufs'[s].chunks[m].seq < bufs'[s].chunks[n].seq
      <3>1. PICK k \in Nat : \A i \in DOMAIN bufs'[s].chunks :
               i + k \in DOMAIN bufs[s].chunks /\ bufs'[s].chunks[i] = bufs[s].chunks[i + k]
        BY DEF Fronted, EndOf
      <3>2. m + k < n + k
        <4>1. m \in Nat /\ n \in Nat BY <1>1
        <4> QED BY <2>1, <4>1
      <3>3. bufs[s].chunks[m + k].done /\ bufs[s].chunks[m + k].seq < bufs[s].chunks[n + k].seq
        BY <1>1, <3>1, <3>2 DEF DataInv, ChunksInOrder
      <3> QED BY <3>1, <3>3
    <2> QED BY <2>1 DEF ChunksInOrder
  <1>3. ASSUME NEW s \in Live', bufs'[s].chunks # <<>>
        PROVE  bufs[s].chunks # <<>> /\ Last(bufs'[s].chunks) = Last(bufs[s].chunks)
    <2>1. PICK k \in Nat :
            /\ Len(bufs'[s].chunks) + k = Len(bufs[s].chunks)
            /\ \A i \in DOMAIN bufs'[s].chunks :
               i + k \in DOMAIN bufs[s].chunks /\ bufs'[s].chunks[i] = bufs[s].chunks[i + k]
      BY DEF Fronted, EndOf
    <2>2. PICK l \in Nat : l = Len(bufs'[s].chunks) BY <1>1
    <2>3. l \in DOMAIN bufs'[s].chunks
      <3>1. bufs'[s].chunks \in Seq(Chunks) BY <1>1
      <3> QED BY <1>3, <2>2, <3>1
    <2>4. bufs'[s].chunks[l] = bufs[s].chunks[l + k] /\ l + k \in DOMAIN bufs[s].chunks
          /\ l + k = Len(bufs[s].chunks)
      BY <2>1, <2>2, <2>3
    <2>5. bufs[s].chunks # <<>> BY <2>4
    <2> QED BY <2>2, <2>4, <2>5 DEF Last
  <1>4. FillersKnown'
    <2>1. ASSUME NEW s \in Live', Unfinished(bufs'[s])
          PROVE  pc'[bufs'[s].t] = "fill" /\ filling'[bufs'[s].t] = s
      <3>1. Unfinished(bufs[s]) BY <1>3, <2>1 DEF Unfinished
      <3> QED BY <1>1, <3>1 DEF DataInv, FillersKnown
    <2>2. ASSUME NEW t \in Threads, pc'[t] = "fill"
          PROVE  /\ bufs'[filling'[t]].ver = version'
                 /\ Last(bufs'[filling'[t]].chunks).seq + 1 = writeSeq'[t]
      <3>1. PICK s : s = filling[t] OBVIOUS
      <3>2. s \in Live /\ Unfinished(bufs[s]) BY <2>2, <3>1 DEF OversizeInv, FillersHold
      <3>3. s \in Live' /\ Unfinished(bufs'[s]) BY <3>2 DEF BufsShrink, Shrunk, Live
      <3>4. Last(bufs'[s].chunks) = Last(bufs[s].chunks) BY <1>3, <3>3 DEF Unfinished
      <3>5. bufs[s].ver = version /\ Last(bufs[s].chunks).seq + 1 = writeSeq[t]
        BY <2>2, <3>1 DEF DataInv, FillersKnown
      <3> QED BY <1>1, <3>1, <3>3, <3>4, <3>5
    <2> QED BY <2>1, <2>2 DEF FillersKnown, Unfinished
  <1> QED BY <1>2, <1>4

LEMMA SameFronted ==
  ASSUME OversizeInv, UNCHANGED bufs
  PROVE  \A s \in Live' : Fronted(s)
  <1> TAKE s \in Live'
  <1>1. s \in Live BY DEF Live
  <1>2. bufs[s].chunks \in Seq(Chunks) BY <1>1, ChunkTypes
  <1> QED BY <1>2, SameIsEnd DEF Fronted

\* What a search leaves of a buffer.
LEMMA CutIsEnd ==
  ASSUME OversizeInv, NEW parent, NEW s \in Live, NEW r, r = Cut(parent, s),
         NEW b, b = [bufs[s] EXCEPT !.chunks = r]
  PROVE  /\ b \in Buffers /\ b.chunks = r
         /\ EndOf(r, bufs[s].chunks)
         /\ \A n \in DOMAIN bufs[s].chunks : ~Stale(parent, bufs[s].chunks[n]) =>
              \E m \in DOMAIN r : r[m] = bufs[s].chunks[n]
         /\ r # <<>> => ~r[1].done \/ ~Stale(parent, r[1])
  <1>1. s \in Slots /\ bufs[s] \in Buffers /\ bufs[s].chunks \in Seq(Chunks) BY ChunkTypes
  <1>2. PICK cs : cs = bufs[s].chunks OBVIOUS
  <1>3. PICK good : good = {n \in DOMAIN cs : ~cs[n].done \/ ~Stale(parent, cs[n])} OBVIOUS
  <1>4. r = Kept(cs, good) BY <1>2, <1>3 DEF Cut, Kept
  <1>5. cs \in Seq(Chunks) /\ good \in SUBSET (DOMAIN cs) BY <1>1, <1>2, <1>3
  <1>6. /\ EndOf(r, cs)
        /\ \A n \in good : \E m \in DOMAIN r : r[m] = cs[n]
        /\ good # {} => \E n \in good : r[1] = cs[n]
    BY <1>4, <1>5, KeptIsEnd
  <1>7. good = {} => r = <<>> BY <1>4 DEF Kept
  <1>8. r \in Seq(Chunks) BY <1>4, <1>5, KeptOf
  <1>9. b \in Buffers /\ b.chunks = r
    BY <1>1, <1>8 DEF Buffers
  <1>10. r # <<>> => ~r[1].done \/ ~Stale(parent, r[1]) BY <1>3, <1>6, <1>7
  <1>11. \A n \in DOMAIN cs : ~Stale(parent, cs[n]) => \E m \in DOMAIN r : r[m] = cs[n]
    BY <1>3, <1>6
  <1> QED BY <1>2, <1>6, <1>9, <1>10, <1>11

LEMMA CutFronted ==
  ASSUME OversizeInv, NEW parent, NEW seen \in SUBSET Live,
         bufs' = [z \in Slots |-> IF z \in seen THEN [bufs[z] EXCEPT !.chunks = Cut(parent, z)]
                                  ELSE bufs[z]]
  PROVE  /\ BufsShrink /\ \A s \in Live' : Fronted(s)
         /\ \A s \in Live : \A n \in DOMAIN bufs[s].chunks :
              (s \in seen => ~Stale(parent, bufs[s].chunks[n])) =>
                s \in Live' /\ \E m \in DOMAIN bufs'[s].chunks : bufs'[s].chunks[m] = bufs[s].chunks[n]
         /\ \A s \in seen : bufs'[s].chunks = Cut(parent, s)
  <1>1. BufsShrink BY SearchShrinks
  <1>2. \A s \in Slots \ seen : bufs'[s] = bufs[s] OBVIOUS
  <1>3. ASSUME NEW s \in seen
        PROVE  /\ bufs'[s].chunks = Cut(parent, s) /\ s \in Live' /\ Fronted(s)
               /\ \A n \in DOMAIN bufs[s].chunks : ~Stale(parent, bufs[s].chunks[n]) =>
                    \E m \in DOMAIN bufs'[s].chunks : bufs'[s].chunks[m] = bufs[s].chunks[n]
    <2>1. s \in Live /\ s \in Slots BY DEF Live
    <2>2. PICK r : r = Cut(parent, s) OBVIOUS
    <2>3. PICK b : b = [bufs[s] EXCEPT !.chunks = r] /\ bufs'[s] = b BY <2>1, <2>2
    <2>4. /\ bufs'[s] \in Buffers /\ bufs'[s].chunks = r /\ EndOf(r, bufs[s].chunks)
          /\ \A n \in DOMAIN bufs[s].chunks : ~Stale(parent, bufs[s].chunks[n]) =>
               \E m \in DOMAIN r : r[m] = bufs[s].chunks[n]
      <3>1. b \in Buffers /\ b.chunks = r BY <2>1, <2>2, <2>3, CutIsEnd
      <3>2. EndOf(r, bufs[s].chunks) BY <2>1, <2>2, <2>3, CutIsEnd
      <3>3. \A n \in DOMAIN bufs[s].chunks : ~Stale(parent, bufs[s].chunks[n]) =>
              \E m \in DOMAIN r : r[m] = bufs[s].chunks[n]
        BY <2>1, <2>2, <2>3, CutIsEnd
      <3> QED BY <2>3, <3>1, <3>2, <3>3
    <2>5. s \in Live' BY <2>1, <2>4, OversizeAssumption DEF Live
    <2> QED BY <2>2, <2>4, <2>5 DEF Fronted
  <1>4. ASSUME NEW s \in Live', s \notin seen PROVE Fronted(s)
    <2>1. s \in Slots /\ s \in Live /\ bufs'[s] = bufs[s] BY <1>2, <1>4 DEF Live
    <2>2. bufs[s].chunks \in Seq(Chunks) BY <2>1, ChunkTypes
    <2> QED BY <2>1, <2>2, SameIsEnd DEF Fronted
  <1>5. \A s \in Live : s \notin seen => s \in Live' /\ bufs'[s] = bufs[s] BY <1>2 DEF Live
  <1> QED BY <1>1, <1>3, <1>4, <1>5

\* What the recycler leaves of the buffers.
LEMMA PurgedIsEnd ==
  ASSUME OversizeInv, NEW garbage, NEW s \in Examined, NEW r, r = Purged(s, garbage),
         NEW b, b = [bufs[s] EXCEPT !.chunks = r]
  PROVE  /\ s \in Live /\ b \in Buffers /\ b.chunks = r
         /\ EndOf(r, bufs[s].chunks)
         /\ \A n \in DOMAIN bufs[s].chunks : ~Overdue(bufs[s].chunks[n], garbage) =>
              r # <<>> /\ \E m \in DOMAIN r : r[m] = bufs[s].chunks[n]
  <1>1. s \in Live /\ ~Unfinished(bufs[s]) BY DEF Examined
  <1>2. bufs[s] \in Buffers /\ bufs[s].chunks \in Seq(Chunks) BY <1>1, ChunkTypes
  <1>3. PICK cs : cs = bufs[s].chunks OBVIOUS
  <1>4. PICK good : good = {n \in DOMAIN cs : ~Overdue(cs[n], garbage)} OBVIOUS
  <1>5. r = Kept(cs, good) BY <1>1, <1>3, <1>4 DEF Purged, Finished, Kept
  <1>6. cs \in Seq(Chunks) /\ good \in SUBSET (DOMAIN cs) BY <1>2, <1>3, <1>4
  <1>7. EndOf(r, cs) BY <1>5, <1>6, KeptIsEnd
  <1>8. \A n \in good : \E m \in DOMAIN r : r[m] = cs[n] BY <1>5, <1>6, KeptIsEnd
  <1>9. good # {} => r # <<>> BY <1>5, <1>6, KeptIsEnd
  <1>10. r \in Seq(Chunks) BY <1>5, <1>6, KeptOf
  <1>11. b \in Buffers /\ b.chunks = r BY <1>2, <1>10 DEF Buffers
  <1>12. ASSUME NEW n \in DOMAIN cs, ~Overdue(cs[n], garbage)
         PROVE  r # <<>> /\ \E m \in DOMAIN r : r[m] = cs[n]
    <2>1. n \in good BY <1>4, <1>12
    <2> QED BY <1>8, <1>9, <2>1
  <1> QED BY <1>1, <1>3, <1>7, <1>11, <1>12

LEMMA RecycleFronted ==
  ASSUME OversizeInv, Recycle
  PROVE  /\ BufsShrink /\ \A s \in Live' : Fronted(s)
         /\ \A s \in Live : \A n \in DOMAIN bufs[s].chunks :
              "invalid" \notin Verdicts(bufs[s].chunks[n]) =>
                s \in Live' /\ \E m \in DOMAIN bufs'[s].chunks : bufs'[s].chunks[m] = bufs[s].chunks[n]
  <1>1. BufsShrink BY RecycleShrinks DEF Recycle
  <1>2. PICK garbage \in BOOLEAN :
          bufs' = [s \in Slots |->
                     IF s \notin Examined THEN bufs[s]
                     ELSE IF Purged(s, garbage) = <<>> THEN None
                     ELSE [bufs[s] EXCEPT !.chunks = Purged(s, garbage)]]
    BY DEF Recycle
  <1>3. \A s \in Slots : s \notin Examined => bufs'[s] = bufs[s] BY <1>2
  <1>4. ASSUME NEW s \in Examined
        PROVE  /\ s \in Live' => Fronted(s)
               /\ \A n \in DOMAIN bufs[s].chunks : ~Overdue(bufs[s].chunks[n], garbage) =>
                    s \in Live' /\ \E m \in DOMAIN bufs'[s].chunks : bufs'[s].chunks[m] = bufs[s].chunks[n]
    <2>1. s \in Slots BY DEF Examined, Live
    <2>2. PICK r : r = Purged(s, garbage) OBVIOUS
    <2>3. PICK b : b = [bufs[s] EXCEPT !.chunks = r] OBVIOUS
    <2>4. bufs'[s] = IF r = <<>> THEN None ELSE b BY <1>2, <2>1, <2>2, <2>3
    <2>5. b \in Buffers /\ b.chunks = r BY <2>2, <2>3, PurgedIsEnd
    <2>6. EndOf(r, bufs[s].chunks) BY <2>2, <2>3, PurgedIsEnd
    <2>7. \A n \in DOMAIN bufs[s].chunks : ~Overdue(bufs[s].chunks[n], garbage) =>
              r # <<>> /\ \E m \in DOMAIN r : r[m] = bufs[s].chunks[n]
      BY <2>2, <2>3, PurgedIsEnd
    <2>8. r # <<>> => bufs'[s].chunks = r /\ s \in Live'
      BY <2>1, <2>4, <2>5, OversizeAssumption DEF Live
    <2>9. s \in Live' => Fronted(s) BY <2>4, <2>6, <2>8 DEF Live, Fronted
    <2> QED BY <2>7, <2>8, <2>9
  <1>5. ASSUME NEW s \in Live', s \notin Examined PROVE Fronted(s)
    <2>1. s \in Slots /\ s \in Live /\ bufs'[s] = bufs[s] BY <1>3, <1>5 DEF Live
    <2>2. bufs[s].chunks \in Seq(Chunks) BY <2>1, ChunkTypes
    <2> QED BY <2>1, <2>2, SameIsEnd DEF Fronted
  <1>6. \A s \in Live : s \notin Examined => s \in Live' /\ bufs'[s] = bufs[s] BY <1>3 DEF Live
  <1>7. \A s \in Live : \A n \in DOMAIN bufs[s].chunks :
          "invalid" \notin Verdicts(bufs[s].chunks[n]) => ~Overdue(bufs[s].chunks[n], garbage)
    BY DEF Overdue
  <1> QED BY <1>1, <1>4, <1>5, <1>6, <1>7

LEMMA ReturnBigFronted ==
  ASSUME OversizeInv, ReturnBig
  PROVE  /\ BufsShrink /\ \A s \in Live' : Fronted(s)
         /\ \A s \in Live : \A n \in DOMAIN bufs[s].chunks :
              ~(s = target /\ n = 1) =>
                s \in Live' /\ \E m \in DOMAIN bufs'[s].chunks : bufs'[s].chunks[m] = bufs[s].chunks[n]
  <1>1. /\ BufsShrink /\ target \in Live /\ bufs[target].chunks \in Seq(Chunks)
        /\ bufs[target].chunks # <<>> /\ bufs'[target].chunks = Tail(bufs[target].chunks)
        /\ \A s \in Slots : s # target => bufs'[s] = bufs[s]
        /\ \A s \in Live : s \in Live'
    BY ReturnBigTakes
  <1>2. PICK cs : cs = bufs[target].chunks OBVIOUS
  <1>3. /\ Len(Tail(cs)) + 1 = Len(cs)
        /\ \A n \in DOMAIN Tail(cs) : n + 1 \in DOMAIN cs /\ Tail(cs)[n] = cs[n + 1]
        /\ \A k \in DOMAIN cs : k # 1 => k - 1 \in DOMAIN Tail(cs) /\ Tail(cs)[k - 1] = cs[k]
    <2>1. cs \in Seq(Chunks) /\ cs # <<>> BY <1>1, <1>2
    <2> QED BY <2>1, TailOf
  <1>4. Fronted(target)
    <2>1. EndOf(Tail(cs), cs) BY <1>3 DEF EndOf
    <2> QED BY <1>1, <1>2, <2>1 DEF Fronted
  <1>5. ASSUME NEW s \in Live', s # target PROVE Fronted(s)
    <2>1. s \in Slots /\ s \in Live /\ bufs'[s] = bufs[s] BY <1>1, <1>5 DEF Live
    <2>2. bufs[s].chunks \in Seq(Chunks) BY <2>1, ChunkTypes
    <2> QED BY <2>1, <2>2, SameIsEnd DEF Fronted
  <1>6. ASSUME NEW s \in Live, NEW n \in DOMAIN bufs[s].chunks, ~(s = target /\ n = 1)
        PROVE  \E m \in DOMAIN bufs'[s].chunks : bufs'[s].chunks[m] = bufs[s].chunks[n]
    <2>1. CASE s = target
      <3>1. bufs'[s].chunks = Tail(cs) /\ bufs[s].chunks = cs BY <1>1, <1>2, <2>1
      <3>2. n # 1 /\ n \in DOMAIN cs BY <1>6, <2>1, <3>1
      <3>3. n - 1 \in DOMAIN Tail(cs) /\ Tail(cs)[n - 1] = cs[n] BY <1>3, <3>2
      <3> QED BY <3>1, <3>3
    <2>2. CASE s # target
      <3>1. bufs'[s] = bufs[s] BY <1>1, <2>2 DEF Live
      <3> QED BY <3>1
    <2> QED BY <2>1, <2>2
  <1> QED BY <1>1, <1>4, <1>5, <1>6

-----------------------------------------------------------------------------

\* A thread that is not filling a buffer takes a place, or gives it back.
LEMMA OthersFill ==
  ASSUME OversizeInv, DataInv, NEW t \in Threads, pc[t] # "fill", pc'[t] # "fill",
         \A u \in Threads : u # t => pc'[u] = pc[u] /\ writeSeq'[u] = writeSeq[u],
         UNCHANGED <<version, bufs, filling>>
  PROVE  ChunksInOrder' /\ FillersKnown'
  <1>1. ChunksInOrder /\ FillersKnown BY DEF DataInv
  <1>2. ChunksInOrder' BY <1>1 DEF ChunksInOrder, Live
  <1>3. ASSUME NEW s \in Live, Unfinished(bufs[s])
        PROVE  pc'[bufs[s].t] = "fill" /\ filling[bufs[s].t] = s
    <2>1. pc[bufs[s].t] = "fill" /\ filling[bufs[s].t] = s BY <1>1, <1>3 DEF FillersKnown
    <2>2. bufs[s].t \in Threads
      <3>1. bufs[s] \in Buffers BY ChunkTypes
      <3> QED BY <3>1 DEF Buffers
    <2> QED BY <2>1, <2>2
  <1>4. ASSUME NEW u \in Threads, pc'[u] = "fill"
        PROVE  bufs[filling[u]].ver = version /\ Last(bufs[filling[u]].chunks).seq + 1 = writeSeq'[u]
    BY <1>1, <1>4 DEF FillersKnown
  <1>5. FillersKnown' BY <1>3, <1>4 DEF FillersKnown, Unfinished, Live
  <1> QED BY <1>2, <1>5

LEMMA SeekBuffers ==
  ASSUME OversizeInv, DataInv, NEW t \in Threads, Seek(t)
  PROVE  ChunksInOrder' /\ FillersKnown'
  <1>1. ChunksInOrder /\ FillersKnown BY DEF DataInv
  <1>2. /\ pc[t] = "seek" /\ pc' = [pc EXCEPT ![t] = "fill"] /\ UNCHANGED <<version, writeSeq>>
    BY DEF Seek, Goto
  <1>3. PICK s \in Slots, b \in Buffers, c \in Chunks, nb \in Buffers : SeekPuts(t, s, b, c, nb)
    BY SeekPlaces
  <1>4. /\ b.ver = version /\ b.t = t
        /\ s \in Live => b = bufs[s]
        /\ \A k \in DOMAIN b.chunks : s \in Live
        /\ c.ver = version /\ c.t = t /\ c.seq = writeSeq[t] - 1 /\ ~c.done
        /\ nb.ver = version /\ nb.t = t /\ nb.chunks = Append(b.chunks, c)
        /\ bufs' = [bufs EXCEPT ![s] = nb] /\ filling' = [filling EXCEPT ![t] = s]
    BY <1>3 DEF SeekPuts
  <1>5. /\ bufs \in [Slots -> Buffers \cup {None}] /\ filling \in [Threads -> Slots \cup {None}]
        /\ pc \in [Threads -> {"idle", "seek", "fill", "commit"}] /\ writeSeq \in [Threads -> Nat]
    BY DEF OversizeInv, TypeOK
  <1>6. /\ bufs'[s] = nb /\ \A z \in Slots : z # s => bufs'[z] = bufs[z]
        /\ filling'[t] = s /\ \A u \in Threads : u # t => filling'[u] = filling[u]
        /\ pc'[t] = "fill" /\ \A u \in Threads : u # t => pc'[u] = pc[u]
    BY <1>2, <1>4, <1>5
  <1>7. b.chunks \in Seq(Chunks) BY DEF Buffers
  <1>8. PICK l \in Nat : l = Len(b.chunks) BY <1>7
  <1>9. /\ DOMAIN b.chunks = 1..l /\ DOMAIN nb.chunks = 1..(l + 1) /\ Len(nb.chunks) = l + 1
        /\ nb.chunks[l + 1] = c /\ \A k \in 1..l : nb.chunks[k] = b.chunks[k]
        /\ Last(nb.chunks) = c /\ nb.chunks # <<>>
    <2>1. /\ DOMAIN b.chunks = 1..l /\ DOMAIN nb.chunks = 1..(l + 1) /\ Len(nb.chunks) = l + 1
          /\ nb.chunks[l + 1] = c /\ \A k \in 1..l : nb.chunks[k] = b.chunks[k]
      BY <1>4, <1>7, <1>8
    <2>2. nb.chunks # <<>> BY <2>1
    <2> QED BY <2>1, <2>2 DEF Last
  <1>10. ASSUME NEW k \in 1..l
         PROVE  b.chunks[k].done /\ b.chunks[k].seq < c.seq
    <2>1. s \in Live /\ b = bufs[s] /\ l \in 1..l /\ b.chunks # <<>> BY <1>4, <1>8, <1>9
    <2>2. ~Unfinished(bufs[s])
      <3>1. Unfinished(bufs[s]) => pc[bufs[s].t] = "fill" BY <1>1, <2>1 DEF FillersKnown
      <3> QED BY <1>2, <1>4, <2>1, <3>1
    <2>3. b.chunks[l].done BY <1>8, <2>1, <2>2 DEF Unfinished, Last
    <2>4. k # l => k < l BY <1>8
    <2>5. b.chunks[k].done
      <3>1. k < l => b.chunks[k].done BY <1>1, <1>9, <2>1 DEF ChunksInOrder
      <3> QED BY <2>3, <2>4, <3>1
    <2>6. ChunkSound(b, b.chunks[k]) BY <1>9, <2>1 DEF OversizeInv, BuffersSound
    <2>7. b.chunks[k].seq < writeSeq[t] - 1 BY <1>2, <1>4, <2>6 DEF ChunkSound
    <2> QED BY <1>4, <2>5, <2>7
  <1>11. ASSUME NEW z \in Live', z # s PROVE z \in Live /\ bufs'[z] = bufs[z] /\ z \in Slots
    BY <1>6, <1>11 DEF Live
  <1>12. ChunksInOrder'
    <2>1. ASSUME NEW m \in 1..(l + 1), NEW n \in 1..(l + 1), m < n
          PROVE  nb.chunks[m].done /\ nb.chunks[m].seq < nb.chunks[n].seq
      <3>1. m \in 1..l /\ nb.chunks[m] = b.chunks[m] BY <1>8, <1>9, <2>1
      <3>2. CASE n = l + 1 BY <1>9, <1>10, <3>1, <3>2
      <3>3. CASE n # l + 1
        <4>1. n \in 1..l /\ nb.chunks[n] = b.chunks[n] /\ s \in Live /\ b = bufs[s]
          BY <1>4, <1>8, <1>9, <2>1, <3>3
        <4>2. b.chunks[m].seq < b.chunks[n].seq BY <1>1, <1>9, <2>1, <3>1, <4>1 DEF ChunksInOrder
        <4> QED BY <1>10, <3>1, <4>1, <4>2
      <3> QED BY <3>2, <3>3
    <2>2. ASSUME NEW z \in Live', NEW m \in DOMAIN bufs'[z].chunks, NEW n \in DOMAIN bufs'[z].chunks, m < n
          PROVE  bufs'[z].chunks[m].done /\ bufs'[z].chunks[m].seq < bufs'[z].chunks[n].seq
      <3>1. CASE z = s BY <1>6, <1>9, <2>1, <2>2, <3>1
      <3>2. CASE z # s
        <4>1. z \in Live /\ bufs'[z] = bufs[z] BY <1>11, <3>2
        <4> QED BY <1>1, <2>2, <4>1 DEF ChunksInOrder
      <3> QED BY <3>1, <3>2
    <2> QED BY <2>2 DEF ChunksInOrder
  <1>13. FillersKnown'
    <2>1. ASSUME NEW z \in Live', Unfinished(bufs'[z])
          PROVE  pc'[bufs'[z].t] = "fill" /\ filling'[bufs'[z].t] = z
      <3>1. CASE z = s BY <1>4, <1>6, <3>1
      <3>2. CASE z # s
        <4>1. z \in Live /\ bufs'[z] = bufs[z] BY <1>11, <3>2
        <4>2. pc[bufs[z].t] = "fill" /\ filling[bufs[z].t] = z BY <1>1, <2>1, <4>1 DEF FillersKnown
        <4>3. bufs[z].t \in Threads
          <5>1. bufs[z] \in Buffers BY <4>1, ChunkTypes
          <5> QED BY <5>1 DEF Buffers
        <4>4. bufs[z].t # t BY <1>2, <4>2
        <4> QED BY <1>6, <4>1, <4>2, <4>3, <4>4
      <3> QED BY <3>1, <3>2
    <2>2. ASSUME NEW u \in Threads, pc'[u] = "fill"
          PROVE  /\ bufs'[filling'[u]].ver = version'
                 /\ Last(bufs'[filling'[u]].chunks).seq + 1 = writeSeq'[u]
      <3>1. CASE u = t
        <4>1. c.seq + 1 = writeSeq[t] BY <1>4, <1>5
        <4>2. bufs'[filling'[t]] = nb BY <1>6
        <4>3. nb.ver = version' /\ Last(nb.chunks).seq + 1 = writeSeq'[t] BY <1>2, <1>4, <1>9, <4>1
        <4> QED BY <3>1, <4>2, <4>3
      <3>2. CASE u # t
        <4>1. PICK z : z = filling[u] OBVIOUS
        <4>2. pc[u] = "fill" /\ filling'[u] = z BY <1>6, <2>2, <3>2, <4>1
        <4>3. z \in Live /\ bufs[z].t = u BY <4>1, <4>2 DEF OversizeInv, FillersHold
        <4>4. z # s BY <1>4, <3>2, <4>3
        <4>5. bufs'[z] = bufs[z] BY <1>6, <4>3, <4>4 DEF Live
        <4>6. bufs[z].ver = version /\ Last(bufs[z].chunks).seq + 1 = writeSeq[u]
          BY <1>1, <4>1, <4>2 DEF FillersKnown
        <4> QED BY <1>2, <4>2, <4>5, <4>6
      <3> QED BY <3>1, <3>2
    <2> QED BY <2>1, <2>2 DEF FillersKnown, Unfinished
  <1> QED BY <1>12, <1>13

\* The last chunk of the buffer that is filled becomes whole.
LEMMA CommitChunkBuffers ==
  ASSUME OversizeInv, DataInv, NEW t \in Threads, CommitChunk(t)
  PROVE  ChunksInOrder' /\ FillersKnown'
  <1>1. ChunksInOrder /\ FillersKnown BY DEF DataInv
  <1>2. /\ pc[t] = "fill" /\ pc' = [pc EXCEPT ![t] = "commit"]
        /\ filling' = [filling EXCEPT ![t] = None] /\ UNCHANGED <<version, writeSeq>>
    BY DEF CommitChunk, Goto
  <1>3. PICK s \in Slots, b \in Buffers, n \in Nat, c \in Chunks, nb \in Buffers :
          ChunkEnds(t, s, b, n, c, nb)
    BY CommitChunkEnds
  <1>4. /\ s = filling[t] /\ s \in Live /\ b = bufs[s] /\ b.t = t
        /\ b.chunks \in Seq(Chunks) /\ n = Len(b.chunks) /\ n \in DOMAIN b.chunks /\ DOMAIN b.chunks = 1..n
        /\ c.seq = b.chunks[n].seq /\ c.done /\ nb.ver = b.ver /\ nb.t = t
        /\ Len(nb.chunks) = n /\ DOMAIN nb.chunks = 1..n /\ nb.chunks[n] = c
        /\ \A k \in 1..n : k # n => nb.chunks[k] = b.chunks[k]
        /\ bufs' = [bufs EXCEPT ![s] = nb]
    BY <1>3 DEF ChunkEnds
  <1>5. /\ bufs \in [Slots -> Buffers \cup {None}] /\ filling \in [Threads -> Slots \cup {None}]
        /\ pc \in [Threads -> {"idle", "seek", "fill", "commit"}]
    BY DEF OversizeInv, TypeOK
  <1>6. /\ bufs'[s] = nb /\ \A z \in Slots : z # s => bufs'[z] = bufs[z]
        /\ \A u \in Threads : u # t => filling'[u] = filling[u]
        /\ pc'[t] = "commit" /\ \A u \in Threads : u # t => pc'[u] = pc[u]
    BY <1>2, <1>4, <1>5
  <1>7. ~Unfinished(nb) BY <1>4 DEF Unfinished, Last
  <1>8. ASSUME NEW z \in Live', z # s PROVE z \in Live /\ bufs'[z] = bufs[z] /\ z \in Slots
    BY <1>6, <1>8 DEF Live
  <1>9. ChunksInOrder'
    <2>1. \A k \in 1..n : nb.chunks[k].seq = b.chunks[k].seq /\ (b.chunks[k].done => nb.chunks[k].done)
      BY <1>4
    <2>2. ASSUME NEW k \in 1..n, NEW m \in 1..n, k < m
          PROVE  nb.chunks[k].done /\ nb.chunks[k].seq < nb.chunks[m].seq
      <3>1. b.chunks[k].done /\ b.chunks[k].seq < b.chunks[m].seq
        BY <1>1, <1>4, <2>2 DEF ChunksInOrder
      <3> QED BY <2>1, <3>1
    <2>3. ASSUME NEW z \in Live', NEW k \in DOMAIN bufs'[z].chunks, NEW m \in DOMAIN bufs'[z].chunks, k < m
          PROVE  bufs'[z].chunks[k].done /\ bufs'[z].chunks[k].seq < bufs'[z].chunks[m].seq
      <3>1. CASE z = s BY <1>4, <1>6, <2>2, <2>3, <3>1
      <3>2. CASE z # s
        <4>1. z \in Live /\ bufs'[z] = bufs[z] BY <1>8, <3>2
        <4> QED BY <1>1, <2>3, <4>1 DEF ChunksInOrder
      <3> QED BY <3>1, <3>2
    <2> QED BY <2>3 DEF ChunksInOrder
  <1>10. FillersKnown'
    <2>1. ASSUME NEW z \in Live', Unfinished(bufs'[z])
          PROVE  pc'[bufs'[z].t] = "fill" /\ filling'[bufs'[z].t] = z
      <3>1. z # s BY <1>6, <1>7, <2>1
      <3>2. z \in Live /\ bufs'[z] = bufs[z] BY <1>8, <3>1
      <3>3. pc[bufs[z].t] = "fill" /\ filling[bufs[z].t] = z BY <1>1, <2>1, <3>2 DEF FillersKnown
      <3>4. bufs[z].t \in Threads
        <4>1. bufs[z] \in Buffers BY <3>2, ChunkTypes
        <4> QED BY <4>1 DEF Buffers
      <3>5. bufs[z].t # t BY <1>4, <3>1, <3>3
      <3> QED BY <1>6, <3>2, <3>3, <3>4, <3>5
    <2>2. ASSUME NEW u \in Threads, pc'[u] = "fill"
          PROVE  /\ bufs'[filling'[u]].ver = version'
                 /\ Last(bufs'[filling'[u]].chunks).seq + 1 = writeSeq'[u]
      <3>1. u # t BY <1>6, <2>2
      <3>2. PICK z : z = filling[u] OBVIOUS
      <3>3. pc[u] = "fill" /\ filling'[u] = z BY <1>6, <2>2, <3>1, <3>2
      <3>4. z \in Live /\ bufs[z].t = u BY <3>2, <3>3 DEF OversizeInv, FillersHold
      <3>5. z # s BY <1>4, <3>1, <3>4
      <3>6. bufs'[z] = bufs[z] BY <1>6, <3>4, <3>5 DEF Live
      <3>7. bufs[z].ver = version /\ Last(bufs[z].chunks).seq + 1 = writeSeq[u]
        BY <1>1, <3>2, <3>3 DEF FillersKnown
      <3> QED BY <1>2, <3>3, <3>6, <3>7
    <2> QED BY <2>1, <2>2 DEF FillersKnown, Unfinished
  <1> QED BY <1>9, <1>10

\* The new process finds buffers that nobody fills.
LEMMA DieBuffers ==
  ASSUME OversizeInv, DataInv, Die
  PROVE  ChunksInOrder' /\ FillersKnown'
  <1>1. PICK v : v = (version + 1) % V OBVIOUS
  <1>2. /\ bufs' = [s \in Slots |-> Recovered(s, v)] /\ pc' = [t \in Threads |-> "idle"]
    BY <1>1 DEF Die
  <1>3. v \in Version BY <1>1, NextVer DEF OversizeInv, TypeOK
  <1>4. ASSUME NEW s \in Live'
        PROVE  /\ s \in Live /\ bufs'[s].chunks = Finished(bufs[s])
               /\ \A n \in DOMAIN bufs'[s].chunks :
                    n \in DOMAIN bufs[s].chunks /\ bufs'[s].chunks[n] = bufs[s].chunks[n]
    <2>1. s \in Slots /\ bufs'[s] = Recovered(s, v) /\ Recovered(s, v) # None BY <1>2 DEF Live
    <2>2. /\ s \in Live
          /\ \A n \in DOMAIN Recovered(s, v).chunks :
               n \in DOMAIN bufs[s].chunks /\ Recovered(s, v).chunks[n] = bufs[s].chunks[n]
      BY <1>3, <2>1, RecoveredOf
    <2>3. Recovered(s, v) = [bufs[s] EXCEPT !.chunks = Finished(bufs[s])] BY <2>1 DEF Recovered
    <2>4. bufs[s] \in Buffers BY <2>2, ChunkTypes
    <2>5. Recovered(s, v).chunks = Finished(bufs[s]) BY <2>3, <2>4 DEF Buffers
    <2> QED BY <2>1, <2>2, <2>5
  <1>5. ChunksInOrder'
    <2>1. ASSUME NEW s \in Live', NEW m \in DOMAIN bufs'[s].chunks, NEW n \in DOMAIN bufs'[s].chunks, m < n
          PROVE  bufs'[s].chunks[m].done /\ bufs'[s].chunks[m].seq < bufs'[s].chunks[n].seq
      BY <1>4, <2>1 DEF DataInv, ChunksInOrder
    <2> QED BY <2>1 DEF ChunksInOrder
  <1>6. ASSUME NEW s \in Live', Unfinished(bufs'[s]) PROVE FALSE
    <2>1. PICK cs : cs = bufs[s].chunks OBVIOUS
    <2>2. cs \in Seq(Chunks) /\ s \in Live BY <1>4, <2>1, ChunkTypes
    <2>3. bufs'[s].chunks # <<>> /\ ~Last(bufs'[s].chunks).done BY <1>6 DEF Unfinished
    <2>4. CASE ~Unfinished(bufs[s])
      <3>1. bufs'[s].chunks = cs BY <1>4, <2>1, <2>4 DEF Finished
      <3> QED BY <2>1, <2>3, <2>4, <3>1 DEF Unfinished
    <2>5. CASE Unfinished(bufs[s])
      <3>1. bufs'[s].chunks = Front(cs) /\ cs # <<>> BY <1>4, <2>1, <2>5 DEF Finished, Unfinished
      <3>2. PICK l \in Nat : l = Len(Front(cs)) /\ l < Len(cs) /\ l # 0 /\ l \in DOMAIN Front(cs)
        <4>1. Front(cs) \in Seq(Chunks) /\ Len(Front(cs)) = Len(cs) - 1
          <5>1. PICK k \in Nat : Len(cs) = k + 1 BY <2>2, <3>1
          <5>2. Front(cs) = SubSeq(cs, 1, k) /\ k <= Len(cs) BY <5>1 DEF Front
          <5> QED BY <2>2, <5>1, <5>2
        <4>2. Front(cs) # <<>> BY <2>3, <3>1
        <4> QED BY <2>2, <4>1, <4>2
      <3>3. l \in DOMAIN cs /\ Len(cs) \in DOMAIN cs BY <2>2, <3>2
      <3>4. cs[l].done BY <2>1, <2>2, <3>2, <3>3 DEF DataInv, ChunksInOrder
      <3>5. Front(cs)[l] = cs[l] BY <2>2, <3>1, <3>2, FrontOf
      <3> QED BY <2>3, <3>1, <3>2, <3>4, <3>5 DEF Last
    <2> QED BY <2>4, <2>5
  <1>7. FillersKnown'
    <2>1. \A t \in Threads : pc'[t] # "fill" BY <1>2
    <2> QED BY <1>6, <2>1 DEF FillersKnown, Unfinished
  <1> QED BY <1>5, <1>7

LEMMA BuffersNext ==
  ASSUME OversizeInv, DataInv, [Next]_vars
  PROVE  ChunksInOrder' /\ FillersKnown'
  <1>1. ASSUME UNCHANGED <<version, bufs, pc, filling, writeSeq>>
        PROVE  ChunksInOrder' /\ FillersKnown'
    <2>1. BufsShrink /\ \A s \in Live' : Fronted(s) BY <1>1, SameShrinks, SameFronted
    <2> QED BY <1>1, <2>1, FrontedBuffers
  <1>2. CASE \/ Begin \/ ReadSmall \/ DropInvalid \/ LeaveRing \/ ReturnSmall \/ ReturnParent
             \/ RecycleLater \/ NextVersion \/ AnswerEmpty \/ UNCHANGED vars
    BY <1>1, <1>2 DEF Begin, ReadSmall, DropInvalid, LeaveRing, ReturnSmall, ReturnParent,
       RecycleLater, NextVersion, AnswerEmpty, vars, threadVars
  <1>3. CASE ReadBig
    <2>1. PICK parent : parent = Head(ring) OBVIOUS
    <2>2. PICK seen \in SUBSET Searched(parent) :
            bufs' = [z \in Slots |-> IF z \in seen THEN [bufs[z] EXCEPT !.chunks = Cut(parent, z)]
                                     ELSE bufs[z]]
      BY <1>3, <2>1 DEF ReadBig
    <2>3. seen \in SUBSET Live BY DEF Searched
    <2>4. BufsShrink /\ \A s \in Live' : Fronted(s) BY <2>2, <2>3, CutFronted
    <2>5. UNCHANGED <<version, pc, filling, writeSeq>> BY <1>3 DEF ReadBig, threadVars
    <2> QED BY <2>4, <2>5, FrontedBuffers
  <1>4. CASE ReadMissing
    <2>1. PICK parent : parent = Head(ring) OBVIOUS
    <2>2. PICK seen : seen = Searched(parent) OBVIOUS
    <2>3. bufs' = [z \in Slots |-> IF z \in seen THEN [bufs[z] EXCEPT !.chunks = Cut(parent, z)]
                                   ELSE bufs[z]]
      BY <1>4, <2>1, <2>2 DEF ReadMissing
    <2>4. seen \in SUBSET Live BY <2>2 DEF Searched
    <2>5. BufsShrink /\ \A s \in Live' : Fronted(s) BY <2>3, <2>4, CutFronted
    <2>6. UNCHANGED <<version, pc, filling, writeSeq>> BY <1>4 DEF ReadMissing, threadVars
    <2> QED BY <2>5, <2>6, FrontedBuffers
  <1>5. CASE ReturnBig
    <2>1. UNCHANGED <<version, pc, filling, writeSeq>> BY <1>5 DEF ReturnBig, threadVars
    <2> QED BY <1>5, <2>1, ReturnBigFronted, FrontedBuffers
  <1>6. CASE Recycle
    <2>1. UNCHANGED <<version, pc, filling, writeSeq>> BY <1>6 DEF Recycle, threadVars
    <2> QED BY <1>6, <2>1, RecycleFronted, FrontedBuffers
  <1>7. ASSUME NEW t \in Threads,
               pc[t] # "fill", NEW p \in {"idle", "seek", "commit"}, pc' = [pc EXCEPT ![t] = p],
               \A u \in Threads : u # t => writeSeq'[u] = writeSeq[u],
               UNCHANGED <<version, bufs, filling>>
        PROVE  ChunksInOrder' /\ FillersKnown'
    <2>1. pc \in [Threads -> {"idle", "seek", "fill", "commit"}] BY DEF OversizeInv, TypeOK
    <2>2. pc'[t] # "fill" /\ \A u \in Threads : u # t => pc'[u] = pc[u] BY <1>7, <2>1
    <2> QED BY <1>7, <2>2, OthersFill
  <1>8. writeSeq \in [Threads -> Nat] BY DEF OversizeInv, TypeOK
  <1>9. CASE \E t \in Threads : \E big \in BOOLEAN : Reserve(t, big)
    <2>1. PICK t \in Threads, big \in BOOLEAN : Reserve(t, big) BY <1>9
    <2>2. PICK p \in {"idle", "seek", "commit"} : p = IF big THEN "seek" ELSE "commit" OBVIOUS
    <2>3. pc[t] # "fill" /\ pc' = [pc EXCEPT ![t] = p] /\ UNCHANGED <<version, bufs, filling>>
      BY <2>1, <2>2 DEF Reserve, Goto
    <2>4. \A u \in Threads : u # t => writeSeq'[u] = writeSeq[u] BY <1>8, <2>1 DEF Reserve
    <2> QED BY <1>7, <2>3, <2>4
  <1>10. CASE \E t \in Threads : SeekFails(t)
    <2>1. PICK t \in Threads : SeekFails(t) BY <1>10
    <2>2. pc[t] # "fill" /\ pc' = [pc EXCEPT ![t] = "idle"] /\ UNCHANGED <<version, bufs, filling>>
      BY <2>1 DEF SeekFails, Goto
    <2>3. \A u \in Threads : u # t => writeSeq'[u] = writeSeq[u] BY <1>8, <2>1 DEF SeekFails
    <2> QED BY <1>7, <2>2, <2>3
  <1>11. CASE \E t \in Threads : Commit(t)
    <2>1. PICK t \in Threads : Commit(t) BY <1>11
    <2>2. /\ pc[t] # "fill" /\ pc' = [pc EXCEPT ![t] = "idle"]
          /\ UNCHANGED <<version, bufs, filling, writeSeq>>
      BY <2>1 DEF Commit, Goto
    <2> QED BY <1>7, <2>2
  <1>12. CASE \E t \in Threads : Seek(t) BY <1>12, SeekBuffers
  <1>13. CASE \E t \in Threads : CommitChunk(t) BY <1>13, CommitChunkBuffers
  <1>14. CASE Die BY <1>14, DieBuffers
  <1> QED
    BY <1>2, <1>3, <1>4, <1>5, <1>6, <1>9, <1>10, <1>11, <1>12, <1>13, <1>14 DEF Next, Reader, Proceed

-----------------------------------------------------------------------------
(***************************************************************************)
(* What a parent refers to stays until it is handed out.                   *)
(***************************************************************************)

\* The parents whose data is committed, and what then is true of them.
Needs(i) == ring[i].ref /\ InRange(ring[i].ver) /\ (ring[i].done \/ pc[ring[i].t] = "commit")
Served(i) ==
  \/ HasData(ring[i])
  \/ ring[i].id \in HandedOut /\ (ring[i].ver # version \/ Returned(i))

Survives(s, n) ==
  s \in Live' /\ \E m \in DOMAIN bufs'[s].chunks : bufs'[s].chunks[m] = bufs[s].chunks[n]
HasDataThen(e) ==
  \E s \in Live' : \E n \in DOMAIN bufs'[s].chunks :
     bufs'[s].chunks[n].done /\ IsFor(bufs'[s].chunks[n], e)

\* Parent i of the next state was parent k, and if its data was there it still is.
Passes(i, k) ==
  /\ SameKey(ring'[i], ring[k]) /\ ring'[i].seq = ring[k].seq /\ ring'[i].id = ring[k].id
  /\ Needs(k)
  /\ HasData(ring[k]) => HasDataThen(ring[k])
  /\ ring'[i].ver # version' \/ (version' = version /\ (Returned(k) => Returned(i)'))

LEMMA DataPasses ==
  ASSUME DataThere, HandedOut \subseteq HandedOut',
         \A i \in DOMAIN ring' : Needs(i)' => Served(i)' \/ \E k \in DOMAIN ring : Passes(i, k)
  PROVE  DataThere'
  <1>1. ASSUME NEW i \in DOMAIN ring', Needs(i)', NEW k \in DOMAIN ring, Passes(i, k)
        PROVE  Served(i)'
    <2>1. /\ SameKey(ring'[i], ring[k]) /\ ring'[i].seq = ring[k].seq /\ ring'[i].id = ring[k].id
          /\ ring'[i].ver = ring[k].ver
          /\ Needs(k) /\ (HasData(ring[k]) => HasDataThen(ring[k]))
          /\ ring'[i].ver # version' \/ (version' = version /\ (Returned(k) => Returned(i)'))
      BY <1>1 DEF Passes, SameKey
    <2>2. HasData(ring[k]) \/ (ring[k].id \in HandedOut /\ (ring[k].ver # version \/ Returned(k)))
      BY <2>1 DEF DataThere, Needs
    <2>3. CASE HasData(ring[k])
      <3>1. PICK s \in Live' : \E n \in DOMAIN bufs'[s].chunks :
              bufs'[s].chunks[n].done /\ IsFor(bufs'[s].chunks[n], ring[k])
        BY <2>1, <2>3 DEF HasDataThen
      <3>2. \E n \in DOMAIN bufs'[s].chunks :
              bufs'[s].chunks[n].done /\ IsFor(bufs'[s].chunks[n], ring'[i])
        BY <2>1, <3>1 DEF IsFor, SameKey
      <3>3. HasData(ring[i])' BY <3>2 DEF HasData
      <3> QED BY <3>3 DEF Served
    <2>4. CASE ~HasData(ring[k])
      <3>1. ring'[i].id \in HandedOut' BY <2>1, <2>2, <2>4
      <3>2. ring'[i].ver # version' \/ Returned(i)' BY <2>1, <2>2, <2>4
      <3> QED BY <3>1, <3>2 DEF Served
    <2> QED BY <2>3, <2>4
  <1>2. \A i \in DOMAIN ring' : Needs(i)' => Served(i)' BY <1>1
  <1> QED BY <1>2 DEF DataThere, Needs, Served

LEMMA DataStays ==
  ASSUME NEW e, HasData(e),
         \A s \in Live : \A n \in DOMAIN bufs[s].chunks :
            bufs[s].chunks[n].done /\ IsFor(bufs[s].chunks[n], e) => Survives(s, n)
  PROVE  HasDataThen(e)
  <1>1. PICK s \in Live : \E n \in DOMAIN bufs[s].chunks :
          bufs[s].chunks[n].done /\ IsFor(bufs[s].chunks[n], e)
    BY DEF HasData
  <1>2. PICK n \in DOMAIN bufs[s].chunks : bufs[s].chunks[n].done /\ IsFor(bufs[s].chunks[n], e)
    BY <1>1
  <1>3. Survives(s, n) BY <1>2
  <1>4. PICK m \in DOMAIN bufs'[s].chunks : bufs'[s].chunks[m] = bufs[s].chunks[n]
    BY <1>3 DEF Survives
  <1> QED BY <1>2, <1>3, <1>4 DEF Survives, HasDataThen

LEMMA SameData ==
  ASSUME UNCHANGED bufs
  PROVE  \A e : HasData(e) => HasDataThen(e)
  BY DEF HasData, HasDataThen, Live

LEMMA HandedOutGrows ==
  ASSUME OversizeInv, UNCHANGED out \/ \E c : HandOut(c)
  PROVE  HandedOut \subseteq HandedOut'
  <1>1. out \in Seq([id : Nat, parent : Nat, t : Threads, life : Nat]) BY DEF OversizeInv, TypeOK
  <1>2. CASE UNCHANGED out BY <1>2 DEF HandedOut
  <1>3. CASE \E c : HandOut(c)
    <2>1. PICK r : out' = Append(out, r) BY <1>3 DEF HandOut
    <2>2. \A i \in DOMAIN out : i \in DOMAIN out' /\ out'[i] = out[i] BY <1>1, <2>1
    <2> QED BY <2>2 DEF HandedOut
  <1> QED BY <1>2, <1>3

LEMMA HandedOutHas ==
  ASSUME OversizeInv, NEW c, HandOut(c)
  PROVE  c.id \in HandedOut'
  <1>1. out \in Seq([id : Nat, parent : Nat, t : Threads, life : Nat]) BY DEF OversizeInv, TypeOK
  <1>2. PICK r : r.id = c.id /\ out' = Append(out, r) BY DEF HandOut
  <1>3. PICK l \in Nat : l = Len(out) BY <1>1
  <1>4. l + 1 \in DOMAIN out' /\ out'[l + 1] = r BY <1>1, <1>2, <1>3
  <1> QED BY <1>2, <1>4 DEF HandedOut

\* The reader is not at an entry, or leaves it.
LEMMA QuietData ==
  ASSUME OversizeInv, DataInv,
         UNCHANGED <<version, ring, bufs, pc, out>>, Returned(1) => Returned(1)',
         ~HeadInUse'
  PROVE  DataThere' /\ HeadRead'
  <1>1. HeadRead' BY DEF HeadRead, HeadInUse
  <1>2. HandedOut \subseteq HandedOut' BY HandedOutGrows
  <1>3. ASSUME NEW i \in DOMAIN ring', Needs(i)' PROVE Passes(i, i)
    <2>1. Needs(i) BY <1>3 DEF Needs, InRange, Age
    <2>2. Returned(i) => Returned(i)' BY DEF Returned
    <2> QED BY <2>1, <2>2, SameData DEF Passes, SameKey
  <1>4. DataThere' BY <1>2, <1>3, DataPasses DEF DataInv
  <1> QED BY <1>1, <1>4

LEMMA ReadSmallData ==
  ASSUME OversizeInv, DataInv, ReadSmall
  PROVE  DataThere' /\ HeadRead'
  <1>1. /\ rpc = "ring" /\ rpc' = "small" /\ HeadIs("valid")
        /\ UNCHANGED <<version, ring, bufs, threadVars, reading>> /\ HandOut(Head(ring))
    BY DEF ReadSmall
  <1>2. HeadRead'
    <2>1. Head(ring).ver = reading BY <1>1, ValidIsWhole
    <2> QED BY <1>1, <2>1 DEF HeadRead
  <1>3. HandedOut \subseteq HandedOut' BY <1>1, HandedOutGrows
  <1>4. ASSUME NEW i \in DOMAIN ring', Needs(i)' PROVE Passes(i, i)
    <2>1. Needs(i) BY <1>1, <1>4 DEF Needs, InRange, Age, threadVars
    <2>2. ~Returned(i) BY <1>1 DEF Returned
    <2> QED BY <1>1, <2>1, <2>2, SameData DEF Passes, SameKey
  <1>5. DataThere' BY <1>1, <1>3, <1>4, DataPasses DEF DataInv
  <1> QED BY <1>2, <1>5

\* What is dropped in a search for the head's data is no other parent's.
LEMMA SearchKeeps ==
  ASSUME OversizeInv, DataInv, HeadIs("valid"),
         NEW s \in Searched(ring[1]), NEW n \in DOMAIN bufs[s].chunks,
         NEW k \in DOMAIN ring, IsFor(bufs[s].chunks[n], ring[k])
  PROVE  ~Stale(ring[1], bufs[s].chunks[n])
  <1>1. /\ 1 \in DOMAIN ring /\ ring[1].ver = reading BY ValidIsWhole
  <1>2. /\ InRange(ring[1].ver) /\ ring[1].ver \in Version /\ ring[1].seq \in Nat /\ ring[k].seq \in Nat
        /\ k \in Nat /\ k >= 1
    BY <1>1, EntryTypes
  <1>3. PICK c : c = bufs[s].chunks[n] OBVIOUS
  <1>4. s \in Live /\ bufs[s].ver = ring[1].ver /\ bufs[s].t = ring[1].t BY DEF Searched
  <1>5. c.ver = ring[1].ver /\ c.t = ring[1].t /\ c.seq \in Nat BY <1>3, <1>4, ChunkTypes
  <1>6. SameKey(ring[1], ring[k]) /\ c.seq = ring[k].seq BY <1>3, <1>5 DEF IsFor, SameKey
  <1>7. k # 1 => ring[1].seq < ring[k].seq
    <2>1. k # 1 => 1 < k BY <1>2
    <2> QED BY <1>1, <1>2, <1>6, <2>1 DEF DataInv, NumbersInOrder
  <1>8. ~(c.seq < ring[1].seq) BY <1>2, <1>5, <1>6, <1>7
  <1>9. ~(ring[1].ver > c.ver) /\ ~(ring[1].ver < c.ver)
    <2>1. ring[1].ver \in Nat BY <1>2 DEF Version
    <2> QED BY <1>5, <2>1
  <1> QED BY <1>3, <1>8, <1>9 DEF Stale

LEMMA SearchData ==
  ASSUME OversizeInv, DataInv, HeadIs("valid"), NEW seen \in SUBSET Searched(ring[1]),
         bufs' = [z \in Slots |-> IF z \in seen THEN [bufs[z] EXCEPT !.chunks = Cut(ring[1], z)]
                                  ELSE bufs[z]],
         NEW k \in DOMAIN ring, HasData(ring[k])
  PROVE  HasDataThen(ring[k])
  <1>1. PICK parent : parent = ring[1] OBVIOUS
  <1>2. seen \in SUBSET Live BY DEF Searched
  <1>3. bufs' = [z \in Slots |-> IF z \in seen THEN [bufs[z] EXCEPT !.chunks = Cut(parent, z)]
                                 ELSE bufs[z]]
    BY <1>1
  <1>4. \A s \in Live : \A n \in DOMAIN bufs[s].chunks :
          (s \in seen => ~Stale(parent, bufs[s].chunks[n])) =>
             s \in Live' /\ \E m \in DOMAIN bufs'[s].chunks : bufs'[s].chunks[m] = bufs[s].chunks[n]
    BY <1>2, <1>3, CutFronted
  <1>5. ASSUME NEW s \in Live, NEW n \in DOMAIN bufs[s].chunks, IsFor(bufs[s].chunks[n], ring[k])
        PROVE  Survives(s, n)
    <2>1. s \in seen => ~Stale(parent, bufs[s].chunks[n]) BY <1>1, <1>5, SearchKeeps
    <2> QED BY <1>4, <2>1 DEF Survives
  <1> QED BY <1>5, DataStays

LEMMA ReadBigData ==
  ASSUME OversizeInv, DataInv, ReadBig
  PROVE  DataThere' /\ HeadRead'
  <1>1. /\ rpc = "ring" /\ rpc' = "big" /\ HeadIs("valid")
        /\ UNCHANGED <<version, ring, threadVars, reading>>
    BY DEF ReadBig
  <1>2. Head(ring) = ring[1] /\ 1 \in DOMAIN ring /\ ring[1].ver = reading BY <1>1, ValidIsWhole
  <1>3. PICK s \in Found(ring[1]), seen \in SUBSET Searched(ring[1]) :
          /\ s \in seen
          /\ bufs' = [z \in Slots |-> IF z \in seen THEN [bufs[z] EXCEPT !.chunks = Cut(ring[1], z)]
                                      ELSE bufs[z]]
          /\ HandOut(Head(Cut(ring[1], s))) /\ target' = s
    BY <1>2 DEF ReadBig
  <1>4. HandedOut \subseteq HandedOut' BY <1>3, HandedOutGrows
  <1>5. ASSUME NEW i \in DOMAIN ring', Needs(i)' PROVE Passes(i, i)
    <2>1. Needs(i) BY <1>1, <1>5 DEF Needs, InRange, Age, threadVars
    <2>2. ~Returned(i) BY <1>1 DEF Returned
    <2>3. HasData(ring[i]) => HasDataThen(ring[i])
      <3>1. i \in DOMAIN ring BY <1>1
      <3> QED BY <1>1, <1>3, <3>1, SearchData
    <2> QED BY <1>1, <2>1, <2>2, <2>3 DEF Passes, SameKey
  <1>6. DataThere' BY <1>1, <1>4, <1>5, DataPasses DEF DataInv
  <1>7. PICK parent : parent = ring[1] OBVIOUS
  <1>8. PICK r : r = Cut(parent, s) OBVIOUS
  <1>9. s \in Live /\ bufs[s].ver = parent.ver /\ bufs[s].t = parent.t
        /\ r # <<>> /\ Head(r).done /\ parent.ver = Head(r).ver /\ parent.seq = Head(r).seq
    BY <1>3, <1>7, <1>8 DEF Found, Searched, Matches
  <1>10. bufs'[s].chunks = r
    <2>1. seen \in SUBSET Live BY DEF Searched
    <2>2. bufs' = [z \in Slots |-> IF z \in seen THEN [bufs[z] EXCEPT !.chunks = Cut(parent, z)]
                                   ELSE bufs[z]]
      BY <1>3, <1>7
    <2>3. \A z \in seen : bufs'[z].chunks = Cut(parent, z) BY <2>1, <2>2, CutFronted
    <2> QED BY <1>3, <1>8, <2>3
  <1>11. PICK k \in DOMAIN bufs[s].chunks : Head(r) = bufs[s].chunks[k]
    <2>1. r \in Seq(Chunks) /\ CutFrom(parent, s) BY <1>8, <1>9, CutOf
    <2>2. Head(r) = r[1] /\ 1 \in DOMAIN r BY <1>9, <2>1
    <2> QED BY <1>8, <2>1, <2>2 DEF CutFrom
  <1>12. Head(r).t = parent.t BY <1>9, <1>11, ChunkTypes
  <1>13. ChunkSound(bufs[s], bufs[s].chunks[k]) BY <1>9 DEF OversizeInv, BuffersSound
  <1>14. Head(r).id = ring[1].id BY <1>2, <1>7, <1>9, <1>11, <1>12, <1>13 DEF ChunkSound
  <1>15. Head(r).id \in HandedOut' BY <1>3, <1>7, <1>8, HandedOutHas
  <1>16. HeadRead'
    <2>1. Head(ring').ver = reading' BY <1>1, <1>2
    <2>2. Head(bufs'[target'].chunks) = Head(r) BY <1>3, <1>10
    <2>3. IsFor(Head(r), ring[1]) BY <1>7, <1>9, <1>12 DEF IsFor, SameKey
    <2>4. IsFor(Head(bufs'[target'].chunks), Head(ring')) BY <1>1, <1>2, <2>2, <2>3
    <2>5. Head(ring').id \in HandedOut' BY <1>1, <1>2, <1>14, <1>15
    <2> QED BY <2>1, <2>4, <2>5 DEF HeadRead, IsFor, SameKey
  <1> QED BY <1>6, <1>16

LEMMA HeadGoesData ==
  ASSUME OversizeInv, DataInv, ReadMissing \/ DropInvalid \/ ReturnSmall \/ ReturnParent
  PROVE  DataThere' /\ HeadRead'
  <1>1. /\ ring' = Tail(ring) /\ ~HeadInUse' /\ UNCHANGED <<version, pc, out>>
    BY DEF ReadMissing, DropInvalid, ReturnSmall, ReturnParent, HeadInUse, threadVars, readerVars
  <1>2. ring # <<>>
    BY DEF ReadMissing, DropInvalid, ReturnSmall, ReturnParent, HeadIs, HasHead, HeadInUse,
       OversizeInv, ReaderSound
  <1>3. HeadRead' BY <1>1 DEF HeadRead, HeadInUse
  <1>4. HandedOut \subseteq HandedOut' BY <1>1, HandedOutGrows
  <1>5. \A k \in DOMAIN ring : HasData(ring[k]) => HasDataThen(ring[k])
    <2>1. CASE ReadMissing
      <3>1. HeadIs("valid") /\ Head(ring) = ring[1] BY <2>1, ValidIsWhole DEF ReadMissing
      <3>2. PICK seen : seen = Searched(ring[1]) OBVIOUS
      <3>3. bufs' = [z \in Slots |-> IF z \in seen THEN [bufs[z] EXCEPT !.chunks = Cut(ring[1], z)]
                                     ELSE bufs[z]]
        BY <2>1, <3>1, <3>2 DEF ReadMissing
      <3> QED BY <3>1, <3>2, <3>3, SearchData
    <2>2. CASE ~ReadMissing
      <3>1. UNCHANGED bufs BY <2>2 DEF DropInvalid, ReturnSmall, ReturnParent
      <3> QED BY <3>1, SameData
    <2> QED BY <2>1, <2>2
  <1>6. ASSUME NEW i \in DOMAIN ring', Needs(i)' PROVE \E k \in DOMAIN ring : Passes(i, k)
    <2>1. ring \in Seq(Items) BY EntryTypes
    <2>2. PICK k : k = i + 1 OBVIOUS
    <2>3. k \in DOMAIN ring /\ ring'[i] = ring[k] /\ k > 1 BY <1>1, <1>2, <2>1, <2>2, TailOf
    <2>4. Needs(k) BY <1>1, <1>6, <2>3 DEF Needs, InRange, Age
    <2>5. ~Returned(k) BY <2>3 DEF Returned
    <2> QED BY <1>1, <1>5, <2>3, <2>4, <2>5 DEF Passes, SameKey
  <1>7. DataThere' BY <1>4, <1>6, DataPasses DEF DataInv
  <1> QED BY <1>3, <1>7

\* The chunk that goes is the head's.
LEMMA ReturnBigData ==
  ASSUME OversizeInv, DataInv, ReturnBig
  PROVE  DataThere' /\ HeadRead'
  <1>1. /\ rpc = "big" /\ rpc' = "parent" /\ UNCHANGED <<version, ring, pc, reading, out>>
    BY DEF ReturnBig, threadVars
  <1>2. ring # <<>> /\ Head(ring).ver = reading
        /\ IsFor(Head(bufs[target].chunks), Head(ring)) /\ Head(ring).id \in HandedOut
    BY <1>1 DEF DataInv, HeadRead, HeadInUse, OversizeInv, ReaderSound
  <1>3. Head(ring) = ring[1] /\ 1 \in DOMAIN ring
    <2>1. ring \in Seq(Items) BY EntryTypes
    <2> QED BY <1>2, <2>1
  <1>4. HeadRead' BY <1>1, <1>2 DEF HeadRead
  <1>5. HandedOut \subseteq HandedOut' BY <1>1, HandedOutGrows
  <1>6. Served(1)'
    <2>1. Returned(1)' BY <1>1 DEF Returned
    <2>2. ring'[1].id \in HandedOut' BY <1>1, <1>2, <1>3, <1>5
    <2> QED BY <2>1, <2>2 DEF Served
  <1>7. ASSUME NEW i \in DOMAIN ring', Needs(i)', i # 1 PROVE Passes(i, i)
    <2>1. i \in DOMAIN ring /\ Needs(i) BY <1>1, <1>7 DEF Needs, InRange, Age
    <2>2. ~Returned(i) BY <1>7 DEF Returned
    <2>3. ASSUME NEW s \in Live, NEW n \in DOMAIN bufs[s].chunks, IsFor(bufs[s].chunks[n], ring[i])
          PROVE  Survives(s, n)
      <3>1. ASSUME s = target, n = 1 PROVE FALSE
        <4>1. bufs[s].chunks[n] = Head(bufs[target].chunks) BY <3>1, ChunkTypes
        <4>2. SameKey(ring[1], ring[i]) /\ ring[1].seq = ring[i].seq
          BY <1>2, <1>3, <2>3, <4>1 DEF IsFor, SameKey
        <4>3. 1 < i /\ InRange(ring[1].ver) /\ ring[1].seq \in Nat
          BY <1>2, <1>3, <1>7, <2>1, EntryTypes
        <4>4. ring[1].seq < ring[i].seq BY <1>3, <2>1, <4>2, <4>3 DEF DataInv, NumbersInOrder
        <4> QED BY <4>2, <4>3, <4>4
      <3> QED BY <3>1, ReturnBigFronted DEF Survives
    <2>4. HasData(ring[i]) => HasDataThen(ring[i]) BY <2>3, DataStays
    <2> QED BY <1>1, <2>1, <2>2, <2>4 DEF Passes, SameKey
  <1>8. DataThere' BY <1>1, <1>5, <1>6, <1>7, DataPasses DEF DataInv
  <1> QED BY <1>4, <1>8

\* What is in the ring still is not overdue.
LEMMA RecycleData ==
  ASSUME OversizeInv, DataInv, Recycle
  PROVE  DataThere' /\ HeadRead'
  <1>1. /\ rpc = "recycle" /\ rpc' = "end" /\ UNCHANGED <<version, ring, pc, out>>
    BY DEF Recycle, threadVars
  <1>2. HeadRead' BY <1>1 DEF HeadRead, HeadInUse
  <1>3. HandedOut \subseteq HandedOut' BY <1>1, HandedOutGrows
  <1>4. ASSUME NEW i \in DOMAIN ring', Needs(i)' PROVE Passes(i, i)
    <2>1. i \in DOMAIN ring /\ Needs(i) BY <1>1, <1>4 DEF Needs, InRange, Age
    <2>2. ~Returned(i) BY <1>1 DEF Returned
    <2>3. /\ InRange(ring[i].ver) /\ ring[i].seq \in Nat /\ Expected(ring[i]) \in Nat
          /\ Expected(ring[i]) <= ring[i].seq
          /\ Age(ring[i].ver) <= Age(reading) /\ (ring[i].ver # version => Known(ring[i]))
      <3>1. InRange(ring[i].ver) BY <2>1 DEF Needs
      <3>2. Expected(ring[i]) <= Turn(i) BY <2>1, <3>1 DEF DataInv, NumbersInOrder
      <3>3. Turn(i) = ring[i].seq BY <2>2 DEF Turn
      <3>4. Age(ring[i].ver) <= Age(reading) /\ (ring[i].ver # version => Known(ring[i]))
        BY <2>1, <3>1 DEF DataInv, NotPassed
      <3> QED BY <2>1, <3>1, <3>2, <3>3, <3>4, EntryTypes, RingCounted
    <2>4. ASSUME NEW s \in Live, NEW n \in DOMAIN bufs[s].chunks, IsFor(bufs[s].chunks[n], ring[i])
          PROVE  Survives(s, n)
      <3>1. PICK c : c = bufs[s].chunks[n] OBVIOUS
      <3>2. c.ver = ring[i].ver /\ c.t = ring[i].t /\ c.seq = ring[i].seq
        BY <2>4, <3>1 DEF IsFor, SameKey
      <3>3. Expected(c) = Expected(ring[i]) /\ (Known(c) <=> Known(ring[i])) BY <3>2 DEF Expected, Known
      <3>4. ~(c.seq < Expected(c)) BY <2>3, <3>2, <3>3
      <3>5. VersionValid(c.ver) BY <2>3, <3>2 DEF VersionValid
      <3>6. "invalid" \notin Verdicts(c) BY <2>3, <3>2, <3>3, <3>4, <3>5 DEF Verdicts
      <3> QED BY <3>1, <3>6, RecycleFronted DEF Survives
    <2>5. HasData(ring[i]) => HasDataThen(ring[i]) BY <2>4, DataStays
    <2> QED BY <1>1, <2>1, <2>2, <2>5 DEF Passes, SameKey
  <1>5. DataThere' BY <1>1, <1>3, <1>4, DataPasses DEF DataInv
  <1> QED BY <1>2, <1>5

\* The threads: the head stays while the reader is at it.
LEMMA ReserveData ==
  ASSUME OversizeInv, DataInv, NEW t \in Threads, NEW big \in BOOLEAN, Reserve(t, big)
  PROVE  DataThere' /\ HeadRead'
  <1>1. /\ pc[t] = "idle" /\ pc' = [pc EXCEPT ![t] = IF big THEN "seek" ELSE "commit"]
        /\ UNCHANGED <<version, bufs, reading, target, rpc, out>>
    BY DEF Reserve, Goto, readerVars
  <1>2. PICK e : /\ ring' = Append(ring, e) /\ e.t = t /\ e.ref = big /\ ~e.done
    BY DEF Reserve
  <1>3. ring \in Seq(Items) BY EntryTypes
  <1>4. PICK l \in Nat : l = Len(ring) BY <1>3
  <1>5. /\ DOMAIN ring = 1..l /\ DOMAIN ring' = 1..(l + 1) /\ ring'[l + 1] = e
        /\ \A i \in 1..l : ring'[i] = ring[i]
    BY <1>2, <1>3, <1>4
  <1>6. pc \in [Threads -> {"idle", "seek", "fill", "commit"}] BY DEF OversizeInv, TypeOK
  <1>7. pc'[t] = (IF big THEN "seek" ELSE "commit") /\ \A u \in Threads : u # t => pc'[u] = pc[u]
    BY <1>1, <1>6
  <1>8. HandedOut \subseteq HandedOut' BY <1>1, HandedOutGrows
  <1>9. ASSUME NEW i \in DOMAIN ring', Needs(i)' PROVE i \in DOMAIN ring /\ Passes(i, i)
    <2>1. i # l + 1
      <3>1. ~Needs(l + 1)' BY <1>2, <1>5, <1>7 DEF Needs
      <3> QED BY <1>9, <3>1
    <2>2. i \in DOMAIN ring /\ ring'[i] = ring[i] BY <1>4, <1>5, <2>1
    <2>3. Needs(i)
      <3>1. CASE ring[i].done BY <1>1, <1>9, <2>2, <3>1 DEF Needs, InRange, Age
      <3>2. CASE ~ring[i].done
        <4>1. pc[ring[i].t] # "idle" BY <2>2, <3>2 DEF OversizeInv, RingSound, EntrySound
        <4>2. ring[i].t \in Threads BY <2>2, EntryTypes
        <4>3. pc'[ring[i].t] = pc[ring[i].t] BY <1>1, <1>7, <4>1, <4>2
        <4> QED BY <1>1, <1>9, <2>2, <4>3 DEF Needs, InRange, Age
      <3> QED BY <3>1, <3>2
    <2>4. Returned(i) => Returned(i)' BY <1>1 DEF Returned
    <2> QED BY <1>1, <2>2, <2>3, <2>4, SameData DEF Passes, SameKey
  <1>10. DataThere' BY <1>8, <1>9, DataPasses DEF DataInv
  <1>11. HeadRead'
    <2>1. HeadInUse' => HeadInUse /\ ring # <<>> /\ Head(ring') = Head(ring)
      <3>1. HeadInUse' => HeadInUse BY <1>1 DEF HeadInUse
      <3>2. HeadInUse => ring # <<>> BY DEF OversizeInv, ReaderSound
      <3>3. ring # <<>> => Head(ring') = Head(ring) BY <1>3, <1>5, <1>2
      <3> QED BY <3>1, <3>2, <3>3
    <2>2. rpc' = "big" => HeadInUse' BY DEF HeadInUse
    <2>3. HeadInUse' => Head(ring').ver = reading' BY <1>1, <2>1 DEF DataInv, HeadRead
    <2>4. rpc' = "big" => IsFor(Head(bufs'[target'].chunks), Head(ring')) /\ Head(ring').id \in HandedOut'
      BY <1>1, <1>8, <2>1, <2>2 DEF DataInv, HeadRead
    <2> QED BY <2>3, <2>4 DEF HeadRead, IsFor, SameKey
  <1> QED BY <1>10, <1>11

\* A thread is done with its entry, which no reader is at yet.
LEMMA EndData ==
  ASSUME OversizeInv, DataInv, NEW t \in Threads, pc[t] # "idle", NEW m, m = Mine(t),
         DOMAIN ring' = DOMAIN ring, ring' \in Seq(Items),
         \A i \in DOMAIN ring : i # m => ring'[i] = ring[i],
         Needs(m)' => Passes(m, m),
         pc' = [pc EXCEPT ![t] = "idle"],
         UNCHANGED <<version, bufs, reading, target, rpc, out>>
  PROVE  DataThere' /\ HeadRead'
  <1>1. pc \in [Threads -> {"idle", "seek", "fill", "commit"}] BY DEF OversizeInv, TypeOK
  <1>2. \A u \in Threads : u # t => pc'[u] = pc[u] BY <1>1
  <1>3. /\ m \in DOMAIN ring /\ ~ring[m].done
        /\ \A i \in DOMAIN ring : ring[i].t = t /\ ~ring[i].done => i = m
    BY MineIs
  <1>4. HandedOut \subseteq HandedOut' BY HandedOutGrows
  <1>5. ASSUME NEW i \in DOMAIN ring', Needs(i)' PROVE i \in DOMAIN ring /\ Passes(i, i)
    <2>1. CASE i = m BY <1>3, <1>5, <2>1
    <2>2. CASE i # m
      <3>1. i \in DOMAIN ring /\ ring'[i] = ring[i] BY <2>2
      <3>2. Needs(i)
        <4>1. ring[i].t \in Threads BY <3>1, EntryTypes
        <4>2. ring[i].done \/ pc'[ring[i].t] = pc[ring[i].t] BY <1>2, <1>3, <2>2, <3>1, <4>1
        <4> QED BY <1>5, <3>1, <4>2 DEF Needs, InRange, Age
      <3>3. Returned(i) => Returned(i)' BY DEF Returned
      <3> QED BY <3>1, <3>2, <3>3, SameData DEF Passes, SameKey
    <2> QED BY <2>1, <2>2
  <1>6. DataThere' BY <1>4, <1>5, DataPasses DEF DataInv
  <1>7. HeadRead'
    <2>1. HeadInUse' => HeadInUse /\ Head(ring') = Head(ring)
      <3>1. HeadInUse' => HeadInUse BY DEF HeadInUse
      <3>2. ASSUME HeadInUse PROVE Head(ring') = Head(ring)
        <4>1. ring # <<>> /\ Head(ring).done BY <3>2 DEF OversizeInv, ReaderSound
        <4>2. ring \in Seq(Items) BY EntryTypes
        <4>3. 1 \in DOMAIN ring /\ Head(ring) = ring[1] BY <4>1, <4>2
        <4>4. 1 # m BY <1>3, <4>1, <4>3
        <4>5. ring'[1] = ring[1] /\ 1 \in DOMAIN ring' BY <4>3, <4>4
        <4>6. Head(ring') = ring'[1] BY <4>5
        <4> QED BY <4>3, <4>5, <4>6
      <3> QED BY <3>1, <3>2
    <2>2. rpc' = "big" => HeadInUse' BY DEF HeadInUse
    <2>3. HeadInUse' => Head(ring').ver = reading' BY <2>1 DEF DataInv, HeadRead
    <2>4. rpc' = "big" => IsFor(Head(bufs'[target'].chunks), Head(ring')) /\ Head(ring').id \in HandedOut'
      BY <1>4, <2>1, <2>2 DEF DataInv, HeadRead
    <2> QED BY <2>3, <2>4 DEF HeadRead, IsFor, SameKey
  <1> QED BY <1>6, <1>7

LEMMA SeekFailsData ==
  ASSUME OversizeInv, DataInv, NEW t \in Threads, SeekFails(t)
  PROVE  DataThere' /\ HeadRead'
  <1>1. pc[t] # "idle" /\ pc' = [pc EXCEPT ![t] = "idle"]
        /\ UNCHANGED <<version, bufs, reading, target, rpc, out>>
    BY DEF SeekFails, Goto, readerVars
  <1>2. /\ DOMAIN ring' = DOMAIN ring /\ ring' \in Seq(Items) /\ ~InRange(ring'[Mine(t)].ver)
        /\ \A i \in DOMAIN ring : i # Mine(t) => ring'[i] = ring[i]
    BY SeekFailsNumbers
  <1>3. PICK m : m = Mine(t) OBVIOUS
  <1>4. ~Needs(m)'
    <2>1. ~InRange(ring[m].ver)' BY <1>1, <1>2, <1>3 DEF InRange, Age
    <2> QED BY <2>1 DEF Needs
  <1> QED BY <1>1, <1>2, <1>3, <1>4, EndData

LEMMA CommitData ==
  ASSUME OversizeInv, DataInv, NEW t \in Threads, Commit(t)
  PROVE  DataThere' /\ HeadRead'
  <1>1. pc[t] = "commit" /\ pc' = [pc EXCEPT ![t] = "idle"]
        /\ UNCHANGED <<version, bufs, reading, target, rpc, out>>
    BY DEF Commit, Goto, readerVars
  <1>2. PICK m : m = Mine(t) OBVIOUS
  <1>3. m \in DOMAIN ring /\ ring[m].t = t BY <1>1, <1>2, MineIs
  <1>4. ring \in Seq(Items) BY EntryTypes
  <1>5. PICK e : e = [ring[m] EXCEPT !.done = TRUE] OBVIOUS
  <1>6. ring[m] \in Items BY <1>3, <1>4
  <1>7. /\ e \in Items /\ e.ver = ring[m].ver /\ e.t = ring[m].t /\ e.seq = ring[m].seq
        /\ e.id = ring[m].id /\ e.ref = ring[m].ref
    BY <1>5, <1>6 DEF Items
  <1>8. ring' = [ring EXCEPT ![m] = e] BY <1>2, <1>5 DEF Commit
  <1>9. /\ DOMAIN ring' = DOMAIN ring /\ ring'[m] = e /\ ring' \in Seq(Items)
        /\ \A i \in DOMAIN ring : i # m => ring'[i] = ring[i]
    BY <1>3, <1>4, <1>7, <1>8
  <1>10. ASSUME Needs(m)' PROVE Passes(m, m)
    <2>1. Needs(m) BY <1>1, <1>3, <1>7, <1>9, <1>10 DEF Needs, InRange, Age
    <2>2. Returned(m) => Returned(m)' BY <1>1 DEF Returned
    <2> QED BY <1>1, <1>7, <1>9, <2>1, <2>2, SameData DEF Passes, SameKey
  <1> QED BY <1>1, <1>2, <1>9, <1>10, EndData

\* A thread changes a buffer, but none of the chunks in it that are whole.
LEMMA FillData ==
  ASSUME OversizeInv, DataInv, NEW t \in Threads, pc[t] # "idle", NEW m, m = Mine(t),
         NEW s \in Slots, NEW nb \in Buffers, NEW p,
         bufs' = [bufs EXCEPT ![s] = nb], pc' = [pc EXCEPT ![t] = p],
         s \in Live => \A k \in DOMAIN bufs[s].chunks : bufs[s].chunks[k].done =>
             k \in DOMAIN nb.chunks /\ nb.chunks[k] = bufs[s].chunks[k],
         p = "commit" => Served(m)',
         UNCHANGED <<version, ring, reading, target, rpc, out>>
  PROVE  DataThere' /\ HeadRead'
  <1>1. /\ pc \in [Threads -> {"idle", "seek", "fill", "commit"}]
        /\ bufs \in [Slots -> Buffers \cup {None}]
    BY DEF OversizeInv, TypeOK
  <1>2. pc'[t] = p /\ \A u \in Threads : u # t => pc'[u] = pc[u] BY <1>1
  <1>3. bufs'[s] = nb /\ \A z \in Slots : z # s => bufs'[z] = bufs[z] BY <1>1
  <1>4. nb # None BY OversizeAssumption
  <1>5. ASSUME NEW z \in Live, NEW n \in DOMAIN bufs[z].chunks, bufs[z].chunks[n].done
        PROVE  Survives(z, n) /\ n \in DOMAIN bufs'[z].chunks /\ bufs'[z].chunks[n] = bufs[z].chunks[n]
    <2>1. z \in Slots BY DEF Live
    <2>2. CASE z = s
      <3>1. n \in DOMAIN nb.chunks /\ nb.chunks[n] = bufs[s].chunks[n] BY <1>5, <2>2
      <3>2. z \in Live' BY <1>3, <1>4, <2>2 DEF Live
      <3> QED BY <1>3, <2>2, <3>1, <3>2 DEF Survives
    <2>3. CASE z # s
      <3>1. bufs'[z] = bufs[z] BY <1>3, <2>1, <2>3
      <3>2. z \in Live' BY <2>1, <3>1 DEF Live
      <3> QED BY <3>1, <3>2 DEF Survives
    <2> QED BY <2>2, <2>3
  <1>6. \A i \in DOMAIN ring : HasData(ring[i]) => HasDataThen(ring[i]) BY <1>5, DataStays
  <1>7. HandedOut \subseteq HandedOut' BY HandedOutGrows
  <1>8. ASSUME NEW i \in DOMAIN ring', Needs(i)' PROVE Served(i)' \/ Passes(i, i)
    <2>1. i \in DOMAIN ring /\ ring'[i] = ring[i] /\ ring[i].t \in Threads
      <3>1. i \in DOMAIN ring /\ ring'[i] = ring[i] OBVIOUS
      <3> QED BY <3>1, EntryTypes
    <2>2. Returned(i) => Returned(i)' BY DEF Returned
    <2>3. CASE Needs(i) BY <1>6, <2>1, <2>2, <2>3 DEF Passes, SameKey
    <2>4. CASE ~Needs(i)
      <3>1. ~ring[i].done /\ pc'[ring[i].t] = "commit" /\ pc[ring[i].t] # "commit"
        BY <1>8, <2>1, <2>4 DEF Needs, InRange, Age
      <3>2. ring[i].t = t BY <1>2, <2>1, <3>1
      <3>3. i = m BY <2>1, <3>1, <3>2, MineIs
      <3> QED BY <1>2, <3>1, <3>2, <3>3
    <2> QED BY <2>3, <2>4
  <1>9. DataThere' BY <1>7, <1>8, DataPasses DEF DataInv
  <1>10. HeadRead'
    <2>1. HeadInUse' => Head(ring').ver = reading' BY DEF DataInv, HeadRead, HeadInUse
    <2>2. ASSUME rpc = "big" PROVE Head(bufs'[target].chunks) = Head(bufs[target].chunks)
      <3>1. target \in Live /\ bufs[target].chunks # <<>> /\ Head(bufs[target].chunks).done
        BY <2>2 DEF OversizeInv, ReaderSound
      <3>2. bufs[target].chunks \in Seq(Chunks) BY <3>1, ChunkTypes
      <3>3. 1 \in DOMAIN bufs[target].chunks /\ Head(bufs[target].chunks) = bufs[target].chunks[1]
        BY <3>1, <3>2
      <3>4. 1 \in DOMAIN bufs'[target].chunks /\ bufs'[target].chunks[1] = bufs[target].chunks[1]
        BY <1>5, <3>1, <3>3
      <3> QED BY <3>3, <3>4
    <2>3. rpc' = "big" => IsFor(Head(bufs'[target'].chunks), Head(ring')) /\ Head(ring').id \in HandedOut'
      BY <1>7, <2>2 DEF DataInv, HeadRead
    <2> QED BY <2>1, <2>3 DEF HeadRead, IsFor, SameKey
  <1> QED BY <1>9, <1>10

LEMMA SeekData ==
  ASSUME OversizeInv, DataInv, NEW t \in Threads, Seek(t)
  PROVE  DataThere' /\ HeadRead'
  <1>1. /\ pc[t] # "idle" /\ pc' = [pc EXCEPT ![t] = "fill"]
        /\ UNCHANGED <<version, ring, reading, target, rpc, out>>
    BY DEF Seek, Goto, readerVars
  <1>2. PICK s \in Slots, b \in Buffers, c \in Chunks, nb \in Buffers : SeekPuts(t, s, b, c, nb)
    BY SeekPlaces
  <1>3. /\ s \in Live => b = bufs[s]
        /\ nb.chunks = Append(b.chunks, c) /\ bufs' = [bufs EXCEPT ![s] = nb]
    BY <1>2 DEF SeekPuts
  <1>4. \A k \in DOMAIN b.chunks : k \in DOMAIN nb.chunks /\ nb.chunks[k] = b.chunks[k]
    <2>1. b.chunks \in Seq(Chunks) BY DEF Buffers
    <2> QED BY <1>3, <2>1
  <1>5. PICK p : p = "fill" OBVIOUS
  <1>6. pc' = [pc EXCEPT ![t] = p] /\ p # "commit" BY <1>1, <1>5
  <1>7. s \in Live => \A k \in DOMAIN bufs[s].chunks : bufs[s].chunks[k].done =>
          k \in DOMAIN nb.chunks /\ nb.chunks[k] = bufs[s].chunks[k]
    BY <1>3, <1>4
  <1>8. PICK m : m = Mine(t) OBVIOUS
  <1>9. p = "commit" => Served(m)' BY <1>6
  <1>10. bufs' = [bufs EXCEPT ![s] = nb] BY <1>3
  <1>11. pc' = [pc EXCEPT ![t] = p] BY <1>6
  <1>12. pc[t] # "idle" /\ UNCHANGED <<version, ring, reading, target, rpc, out>> BY <1>1
  <1>13. DataThere' BY <1>7, <1>8, <1>9, <1>10, <1>11, <1>12, FillData
  <1>14. HeadRead' BY <1>7, <1>8, <1>9, <1>10, <1>11, <1>12, FillData
  <1> QED BY <1>13, <1>14

LEMMA CommitChunkData ==
  ASSUME OversizeInv, DataInv, NEW t \in Threads, CommitChunk(t)
  PROVE  DataThere' /\ HeadRead'
  <1>1. /\ pc[t] = "fill" /\ pc' = [pc EXCEPT ![t] = "commit"]
        /\ UNCHANGED <<version, ring, reading, target, rpc, out>>
    BY DEF CommitChunk, Goto, readerVars
  <1>2. PICK s \in Slots, b \in Buffers, n \in Nat, c \in Chunks, nb \in Buffers :
          ChunkEnds(t, s, b, n, c, nb)
    BY CommitChunkEnds
  <1>3. /\ s = filling[t] /\ s \in Live /\ b = bufs[s] /\ b.t = t /\ Unfinished(b)
        /\ n = Len(b.chunks) /\ n \in DOMAIN b.chunks /\ DOMAIN b.chunks = 1..n
        /\ c.ver = b.chunks[n].ver /\ c.t = b.chunks[n].t /\ c.seq = b.chunks[n].seq
        /\ c.done /\ DOMAIN nb.chunks = 1..n /\ nb.chunks[n] = c
        /\ \A k \in 1..n : k # n => nb.chunks[k] = b.chunks[k]
        /\ bufs' = [bufs EXCEPT ![s] = nb]
    BY <1>2 DEF ChunkEnds
  <1>4. Last(b.chunks) = b.chunks[n] /\ ~b.chunks[n].done BY <1>3 DEF Unfinished, Last
  <1>5. \A k \in DOMAIN b.chunks : b.chunks[k].done => k \in DOMAIN nb.chunks /\ nb.chunks[k] = b.chunks[k]
    BY <1>3, <1>4
  <1>6. PICK m : m = Mine(t) OBVIOUS
  <1>7. m \in DOMAIN ring /\ ring[m].t = t /\ ring[m].ver = version /\ ring[m].seq = writeSeq[t] - 1
    BY <1>1, <1>6, MineIs
  <1>8. b.ver = version /\ b.chunks[n].seq + 1 = writeSeq[t]
    BY <1>1, <1>3, <1>4 DEF DataInv, FillersKnown
  <1>9. IsFor(c, ring[m])
    <2>1. b.chunks[n].ver = b.ver /\ b.chunks[n].t = b.t /\ b.chunks[n].seq \in Nat BY <1>3, ChunkTypes
    <2>2. writeSeq[t] \in Nat BY DEF OversizeInv, TypeOK
    <2> QED BY <1>3, <1>7, <1>8, <2>1, <2>2 DEF IsFor, SameKey
  <1>10. Served(m)'
    <2>1. bufs \in [Slots -> Buffers \cup {None}] BY DEF OversizeInv, TypeOK
    <2>2. bufs'[s] = nb BY <1>3, <2>1
    <2>3. s \in Live' BY <2>2, OversizeAssumption DEF Live
    <2>4. bufs'[s].chunks[n].done /\ IsFor(bufs'[s].chunks[n], ring'[m]) /\ n \in DOMAIN bufs'[s].chunks
      BY <1>1, <1>3, <1>9, <2>2
    <2>5. HasData(ring[m])' BY <2>3, <2>4 DEF HasData, IsFor, SameKey
    <2> QED BY <2>5 DEF Served
  <1>11. PICK p : p = "commit" OBVIOUS
  <1>12. pc' = [pc EXCEPT ![t] = p] /\ pc[t] # "idle" BY <1>1, <1>11
  <1>13. s \in Live => \A k \in DOMAIN bufs[s].chunks : bufs[s].chunks[k].done =>
           k \in DOMAIN nb.chunks /\ nb.chunks[k] = bufs[s].chunks[k]
    BY <1>3, <1>5
  <1>14. bufs' = [bufs EXCEPT ![s] = nb] BY <1>3
  <1>15. p = "commit" => Served(m)' BY <1>10
  <1>16. DataThere' BY <1>1, <1>6, <1>12, <1>13, <1>14, <1>15, FillData
  <1>17. HeadRead' BY <1>1, <1>6, <1>12, <1>13, <1>14, <1>15, FillData
  <1> QED BY <1>16, <1>17

\* Every whole chunk in a file of a version in range is found again.
LEMMA DieData ==
  ASSUME OversizeInv, DataInv, Die
  PROVE  DataThere' /\ HeadRead'
  <1>1. PICK v : v = (version + 1) % V OBVIOUS
  <1>2. /\ version' = v /\ ring' = Fixed(v) /\ bufs' = [s \in Slots |-> Recovered(s, v)]
        /\ rpc' = "idle" /\ out' = out
    BY <1>1 DEF Die
  <1>3. version \in Version /\ v \in Version BY <1>1, NextVer DEF OversizeInv, TypeOK
  <1>4. HeadRead' BY <1>2 DEF HeadRead, HeadInUse
  <1>5. HandedOut \subseteq HandedOut' BY <1>2, HandedOutGrows
  <1>6. ASSUME NEW i \in DOMAIN ring', Needs(i)' PROVE i \in DOMAIN ring /\ Passes(i, i)
    <2>1. /\ i \in DOMAIN ring /\ ring[i] \in Items /\ ring[i].done
          /\ ring'[i].id = ring[i].id /\ ring'[i].t = ring[i].t
          /\ ring'[i].seq = ring[i].seq /\ ring'[i].ref = ring[i].ref
          /\ \/ ring'[i].ver = ring[i].ver /\ ring[i].ver # v
             \/ ring'[i].ver = (v + 1) % V /\ ring[i].ver = v
      BY <1>2, <1>3, <1>6, FixedOf
    <2>2. Old(v, ring'[i].ver) <= Span /\ ring[i].ref
      <3>1. InRange(ring[i].ver)' /\ ring'[i].ref BY <1>6 DEF Needs
      <3> QED BY <1>2, <2>1, <3>1 DEF InRange, Age, Old
    <2>3. ring'[i].ver = ring[i].ver /\ ring[i].ver # v
      <3>1. Old(v, (v + 1) % V) = V - 1 /\ ~(V - 1 <= Span) BY <1>3, OldVersions, Constants
      <3> QED BY <2>1, <2>2, <3>1
    <2>4. ring[i].ver \in Version BY <2>1 DEF Items
    <2>5. Old(version, ring[i].ver) <= Span
      <3>1. Old(v, ring[i].ver) = Old(version, ring[i].ver) + 1
        BY <1>1, <1>3, <2>3, <2>4, Ageing
      <3>2. Old(version, ring[i].ver) \in 0..(V - 1) BY <1>3, <2>4, OldVersions
      <3> QED BY <2>2, <2>3, <3>1, <3>2, Constants
    <2>6. Needs(i) BY <2>1, <2>2, <2>5, RangeIsOld DEF Needs
    <2>7. ASSUME NEW s \in Live, NEW n \in DOMAIN bufs[s].chunks,
                 bufs[s].chunks[n].done, IsFor(bufs[s].chunks[n], ring[i])
          PROVE  Survives(s, n)
      <3>1. /\ s \in Slots /\ bufs[s] \in Buffers /\ bufs[s].chunks \in Seq(Chunks)
            /\ bufs[s].ver = ring[i].ver /\ bufs[s] # None
        BY <2>7, ChunkTypes DEF IsFor, SameKey, Live
      <3>2. PICK cs : cs = bufs[s].chunks OBVIOUS
      <3>3. PICK fs : fs = Finished(bufs[s]) OBVIOUS
      <3>4. fs \in Seq(Chunks) /\ n \in DOMAIN fs /\ fs[n] = cs[n]
        <4>1. CASE ~Unfinished(bufs[s]) BY <2>7, <3>1, <3>2, <3>3, <4>1 DEF Finished
        <4>2. CASE Unfinished(bufs[s])
          <5>1. cs \in Seq(Chunks) /\ cs # <<>> /\ ~cs[Len(cs)].done
            BY <3>1, <3>2, <4>2 DEF Unfinished, Last
          <5>2. PICK k \in Nat : Len(cs) = k + 1 BY <5>1
          <5>3. fs = SubSeq(cs, 1, k) BY <3>2, <3>3, <4>2, <5>2 DEF Finished, Front
          <5>4. n \in 1..k
            <6>1. n \in 1..(k + 1) /\ n # k + 1 BY <2>7, <3>2, <5>1, <5>2
            <6> QED BY <6>1
          <5> QED BY <5>1, <5>2, <5>3, <5>4
        <4> QED BY <4>1, <4>2
      <3>5. PICK b : b = [bufs[s] EXCEPT !.chunks = fs] OBVIOUS
      <3>6. b \in Buffers /\ b.chunks = fs BY <3>1, <3>4, <3>5 DEF Buffers
      <3>7. bufs'[s] = b
        <4>1. bufs'[s] = Recovered(s, v) BY <1>2, <3>1
        <4>2. ~((v - bufs[s].ver) % V > Span)
          <5>1. Old(v, ring[i].ver) \in 0..(V - 1) BY <1>3, <2>4, OldVersions
          <5> QED BY <2>2, <2>3, <3>1, <5>1, Constants DEF Old
        <4>3. Recovered(s, v) = [bufs[s] EXCEPT !.chunks = fs] BY <3>1, <3>3, <4>2 DEF Recovered
        <4> QED BY <3>5, <4>1, <4>3
      <3>8. s \in Live' BY <3>1, <3>6, <3>7, OversizeAssumption DEF Live
      <3> QED BY <3>2, <3>4, <3>6, <3>7, <3>8 DEF Survives
    <2>8. HasData(ring[i]) => HasDataThen(ring[i]) BY <2>7, DataStays
    <2>9. ring'[i].ver # version' BY <1>2, <2>3
    <2> QED BY <2>1, <2>3, <2>6, <2>8, <2>9 DEF Passes, SameKey
  <1>7. DataThere' BY <1>5, <1>6, DataPasses DEF DataInv
  <1> QED BY <1>4, <1>7

-----------------------------------------------------------------------------

LEMMA DataInit ==
  ASSUME Init
  PROVE  DataInv
  <1>1. /\ ring = <<>> /\ bufs = [s \in Slots |-> None] /\ pc = [t \in Threads |-> "idle"]
        /\ writeSeq = [t \in Threads |-> 0] /\ readSeq = [t \in Threads |-> 0]
        /\ records = <<>> /\ rpc = "idle"
    BY DEF Init
  <1>2. DOMAIN ring = {} /\ Live = {} BY <1>1 DEF Live
  <1>3. RecordTypes
    <2>1. DOMAIN records = {} BY <1>1
    <2>2. records \in [{} -> Nat] BY <1>1
    <2> QED BY <1>1, <2>1, <2>2 DEF RecordTypes
  <1>4. VersionsInOrder /\ NotPassed BY <1>1, <1>2 DEF VersionsInOrder, NotPassed
  <1>5. NumbersInOrder BY <1>2 DEF NumbersInOrder
  <1>6. LastNumber BY <1>1, <1>2 DEF LastNumber
  <1>7. ChunksInOrder /\ FillersKnown BY <1>1, <1>2 DEF ChunksInOrder, FillersKnown
  <1>8. DataThere BY <1>2 DEF DataThere
  <1>9. HeadRead BY <1>1 DEF HeadRead, HeadInUse
  <1> QED BY <1>3, <1>4, <1>5, <1>6, <1>7, <1>8, <1>9 DEF DataInv

LEMMA DataNext ==
  ASSUME OversizeInv, DataInv, [Next]_vars
  PROVE  DataInv'
  <1>1. NumbersInv' BY NumbersNext
  <1>2. ChunksInOrder' /\ FillersKnown' BY BuffersNext
  <1>3. DataThere' /\ HeadRead'
    <2>1. CASE Begin \/ LeaveRing \/ RecycleLater \/ NextVersion \/ AnswerEmpty
      <3>1. UNCHANGED <<version, ring, bufs, pc, out>> /\ rpc # "parent" /\ ~HeadInUse'
        BY <2>1 DEF Begin, LeaveRing, RecycleLater, NextVersion, AnswerEmpty, threadVars, HeadInUse
      <3>2. ~Returned(1) BY <3>1 DEF Returned
      <3> QED BY <3>1, <3>2, QuietData
    <2>2. CASE ReadSmall BY <2>2, ReadSmallData
    <2>3. CASE ReadBig BY <2>3, ReadBigData
    <2>4. CASE ReadMissing \/ DropInvalid \/ ReturnSmall \/ ReturnParent BY <2>4, HeadGoesData
    <2>5. CASE ReturnBig BY <2>5, ReturnBigData
    <2>6. CASE Recycle BY <2>6, RecycleData
    <2>7. CASE \E t \in Threads : \E big \in BOOLEAN : Reserve(t, big) BY <2>7, ReserveData
    <2>8. CASE \E t \in Threads : Seek(t) BY <2>8, SeekData
    <2>9. CASE \E t \in Threads : CommitChunk(t) BY <2>9, CommitChunkData
    <2>10. CASE \E t \in Threads : Commit(t) BY <2>10, CommitData
    <2>11. CASE \E t \in Threads : SeekFails(t) BY <2>11, SeekFailsData
    <2>12. CASE Die BY <2>12, DieData
    <2>13. CASE UNCHANGED vars
      <3>1. UNCHANGED <<version, ring, bufs, pc, out, rpc, reading, target>>
        BY <2>13 DEF vars, threadVars, readerVars
      <3>2. DataThere' /\ HeadRead'
        <4>1. DataThere /\ HeadRead BY DEF DataInv
        <4>2. DataThere'
          BY <3>1, <4>1 DEF DataThere, HasData, IsFor, SameKey, Live, InRange, Age, HandedOut, Returned
        <4>3. HeadRead' BY <3>1, <4>1 DEF HeadRead, HeadInUse, IsFor, SameKey, HandedOut
        <4> QED BY <4>2, <4>3
      <3> QED BY <3>2
    <2> QED
      BY <2>1, <2>2, <2>3, <2>4, <2>5, <2>6, <2>7, <2>8, <2>9, <2>10, <2>11, <2>12, <2>13
      DEF Next, Reader, Proceed
  <1> QED BY <1>1, <1>2, <1>3 DEF DataInv, NumbersInv

\* The data of a parent that the reader accepts is where it looks for it,
\* but for what a process that died has handed out.
LEMMA MissingIsHandedOut ==
  ASSUME OversizeInv, DataInv, ReadMissing
  PROVE  Head(ring).id \in HandedOut /\ Head(ring).ver # version
  <1>1. rpc = "ring" /\ HeadIs("valid") /\ Head(ring).ref /\ Found(Head(ring)) = {} BY DEF ReadMissing
  <1>2. /\ Head(ring) = ring[1] /\ 1 \in DOMAIN ring /\ ring[1].done /\ ring[1].ver = reading
    BY <1>1, ValidIsWhole
  <1>3. PICK parent : parent = ring[1] OBVIOUS
  <1>4. Needs(1) BY <1>1, <1>2, EntryTypes DEF Needs
  <1>5. ~Returned(1) BY <1>1 DEF Returned
  <1>6. ASSUME HasData(ring[1]) PROVE FALSE
    <2>0. PICK s \in Live : \E n \in DOMAIN bufs[s].chunks :
            bufs[s].chunks[n].done /\ IsFor(bufs[s].chunks[n], parent)
      BY <1>3, <1>6 DEF HasData
    <2>1. PICK n \in DOMAIN bufs[s].chunks :
            bufs[s].chunks[n].done /\ IsFor(bufs[s].chunks[n], parent)
      BY <2>0
    <2>2. PICK cs : cs = bufs[s].chunks OBVIOUS
    <2>3. PICK c : c = cs[n] OBVIOUS
    <2>4. c.done /\ c.ver = parent.ver /\ c.t = parent.t /\ c.seq = parent.seq /\ c.seq \in Nat
          /\ c.ver = bufs[s].ver /\ c.t = bufs[s].t /\ c.ver \in Nat /\ n \in DOMAIN cs
      BY <2>1, <2>2, <2>3, ChunkTypes DEF IsFor, SameKey, Version
    <2>5. s \in Searched(parent) BY <2>4 DEF Searched
    <2>6. ~Stale(parent, c) BY <2>4 DEF Stale
    <2>7. PICK r : r = Cut(parent, s) OBVIOUS
    <2>8. PICK b : b = [bufs[s] EXCEPT !.chunks = r] OBVIOUS
    <2>9. EndOf(r, cs) BY <2>2, <2>7, <2>8, CutIsEnd
    <2>10. \A k \in DOMAIN cs : ~Stale(parent, cs[k]) => \E m \in DOMAIN r : r[m] = cs[k]
      BY <2>2, <2>7, <2>8, CutIsEnd
    <2>11. r # <<>> => ~r[1].done \/ ~Stale(parent, r[1]) BY <2>7, <2>8, CutIsEnd
    <2>12. r \in Seq(Chunks) BY <2>7, CutOf
    <2>13. PICK m \in DOMAIN r : r[m] = c BY <2>3, <2>4, <2>6, <2>10
    <2>14. r # <<>> /\ 1 \in DOMAIN r /\ m \in Nat /\ m >= 1 /\ Head(r) = r[1] BY <2>12, <2>13
    <2>15. r[1].done /\ ~(r[1].ver = parent.ver /\ r[1].seq < parent.seq) /\ r[1] = c
      <3>1. m = 1
        <4>1. ASSUME m # 1 PROVE FALSE
          <5>1. PICK k \in Nat : \A i \in DOMAIN r : i + k \in DOMAIN cs /\ r[i] = cs[i + k]
            BY <2>9 DEF EndOf
          <5>2. 1 + k < m + k BY <2>14, <4>1
          <5>3. cs[1 + k].done /\ cs[1 + k].seq < cs[m + k].seq /\ 1 + k \in DOMAIN cs
            BY <2>2, <2>14, <5>1, <5>2 DEF DataInv, ChunksInOrder
          <5>4. r[1].done /\ r[1].seq < parent.seq /\ r[1].ver = parent.ver
            <6>1. cs[1 + k].ver = bufs[s].ver /\ cs[1 + k].seq \in Nat
              BY <2>2, <5>3, ChunkTypes
            <6>2. r[1] = cs[1 + k] /\ c = cs[m + k] BY <2>13, <2>14, <5>1
            <6> QED BY <2>4, <5>3, <6>1, <6>2
          <5>5. Stale(parent, r[1]) BY <5>4 DEF Stale
          <5> QED BY <2>11, <2>14, <5>4, <5>5
        <4> QED BY <4>1
      <3> QED BY <2>4, <2>13, <3>1
    <2>16. Matches(parent, Head(r)) BY <2>4, <2>14, <2>15 DEF Matches
    <2>17. s \in Found(parent) BY <2>5, <2>7, <2>14, <2>15, <2>16 DEF Found
    <2> QED BY <1>1, <1>2, <1>3, <2>17
  <1> QED BY <1>2, <1>4, <1>5, <1>6 DEF DataInv, DataThere, Needs

\* How the numbers in the ring, those that are expected and those in the
\* buffers go together, in every state.
THEOREM DataInvariant == Spec => [](OversizeInv /\ DataInv)
  <1>1. Init => OversizeInv /\ DataInv BY OversizeInit, DataInit
  <1>2. OversizeInv /\ DataInv /\ [Next]_vars => (OversizeInv /\ DataInv)' BY OversizeNext, DataNext
  <1> QED BY <1>1, <1>2, PTL DEF Spec

\* rt_read_oversize_chunk: if the data of a record that is due is not found,
\* the record is of an earlier process and was handed out by it.
THEOREM NoDataIsLost == Spec => NothingMissing
  <1>1. OversizeInv /\ DataInv /\ [Next]_vars =>
          [ReadMissing => Head(ring).id \in HandedOut /\ Head(ring).ver # version]_vars
    BY MissingIsHandedOut
  <1> QED BY <1>1, DataInvariant, PTL DEF Spec, NothingMissing

=============================================================================
