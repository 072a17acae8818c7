--------------------------- MODULE SisoRingProofs ---------------------------
EXTENDS SisoRing, TLAPS

\* A remainder is known by its range and what it differs by.
LEMMA RemainderIs ==
  ASSUME NEW n \in Nat, n > 0, NEW z \in Int, 0 <= z, z < n, NEW k \in Int, NEW x \in Int,
         x = z + n * k
  PROVE x % n = z
  <1> DEFINE y == x % n
             d == k - (x \div n)
  <1>1. x = n * (x \div n) + y /\ y \in 0..(n - 1) /\ x \div n \in Int OBVIOUS
  <1>2. d \in Int /\ y - z = n * d BY <1>1
  <1> HIDE DEF y, d
  <1>3. CASE d <= -1
    <2>1. n * d <= -n BY <1>2, <1>3
    <2> QED BY <1>1, <1>2, <2>1
  <1>4. CASE d >= 1
    <2>1. n * d >= n BY <1>2, <1>4
    <2> QED BY <1>1, <1>2, <2>1
  <1>5. CASE d = 0 BY <1>1, <1>2, <1>5 DEF y
  <1> QED BY <1>2, <1>3, <1>4, <1>5

LEMMA Division ==
  ASSUME NEW n \in Nat, n > 0, NEW x \in Nat
  PROVE /\ x % n \in 0..(n - 1) /\ x \div n \in Nat
        /\ x = (x % n) + n * (x \div n)
  OBVIOUS

\* Cursors less than a turn apart are at different blocks, or differ.
LEMMA RemaindersDiffer ==
  ASSUME NEW n \in Nat, n > 0, NEW x \in Nat, NEW y \in Nat, x < y, y - x < n
  PROVE x % n # y % n
  <1> SUFFICES ASSUME x % n = y % n PROVE FALSE OBVIOUS
  <1> DEFINE d == (y \div n) - (x \div n)
  <1>1. /\ x = (x % n) + n * (x \div n) /\ y = (y % n) + n * (y \div n)
        /\ x \div n \in Int /\ y \div n \in Int /\ x % n \in Int
    BY Division
  <1>2. d \in Int /\ y - x = n * d BY <1>1
  <1> HIDE DEF d
  <1>3. CASE d <= 0
    <2>1. n * d <= 0 BY <1>2, <1>3
    <2> QED BY <1>2, <2>1
  <1>4. CASE d >= 1
    <2>1. n * d >= n BY <1>2, <1>4
    <2> QED BY <1>2, <2>1
  <1> QED BY <1>2, <1>3, <1>4

\* The distance between two cursors is that of the positions they stand for.
LEMMA DistIs ==
  ASSUME NEW a \in Nat, NEW b \in Nat, NEW m \in Nat, 0 <= b + m - a, b + m - a < W
  PROVE Dist(a % W, (b % W) + m) = b + m - a
  <1>1. W \in Nat /\ W > 0 BY SisoRingAssumption
  <1>2. /\ a = (a % W) + W * (a \div W) /\ b = (b % W) + W * (b \div W)
        /\ a \div W \in Int /\ b \div W \in Int /\ a % W \in Int /\ b % W \in Int
    BY <1>1, Division
  <1> DEFINE k == (a \div W) - (b \div W)
             x == ((b % W) + m) - (a % W)
             z == b + m - a
  <1>3. /\ k \in Int /\ x = z + W * k /\ x \in Int /\ z \in Int
        /\ 0 <= z /\ z < W
    BY <1>1, <1>2
  <1>4. Dist(a % W, (b % W) + m) = x % W BY DEF Dist
  <1> HIDE DEF k, x, z
  <1>5. x % W = z BY <1>1, <1>3, RemainderIs
  <1> QED BY <1>4, <1>5 DEF z

LEMMA CursorPlus ==
  ASSUME NEW a \in Nat, NEW m \in Nat
  PROVE ((a % W) + m) % W = (a + m) % W
  <1>1. W \in Nat /\ W > 0 BY SisoRingAssumption
  <1>2. a = (a % W) + W * (a \div W) /\ a \div W \in Int /\ a % W \in Int
    BY <1>1, Division
  <1> DEFINE z == (a + m) % W
             k == ((a + m) \div W) - (a \div W)
  <1>3. a + m = z + W * ((a + m) \div W) /\ (a + m) \div W \in Int /\ z \in 0..(W - 1)
    BY <1>1, Division
  <1> DEFINE x == (a % W) + m
  <1>4. k \in Int /\ x = z + W * k /\ x \in Int /\ 0 <= z /\ z < W /\ z \in Int
    BY <1>1, <1>2, <1>3
  <1> HIDE DEF z, k, x
  <1>5. x % W = z BY <1>1, <1>4, RemainderIs
  <1> QED BY <1>5 DEF x, z

\* A cursor and the position it stands for are at the same block.
LEMMA SameBlock ==
  ASSUME NEW p \in Nat
  PROVE (p % W) % N = p % N
  <1>1. W \in Nat /\ W > 0 /\ N \in Nat /\ N > 0 /\ W % N = 0 BY SisoRingAssumption
  <1>2. PICK k \in Int : W = N * k
    <2>1. W = (W % N) + N * (W \div N) /\ W \div N \in Int BY <1>1, Division
    <2> QED BY <1>1, <2>1
  <1>3. PICK d \in Int : p = (p % W) + W * d BY <1>1, Division
  <1>4. PICK e \in Int : p = (p % N) + N * e BY <1>1, Division
  <1>5. p % W \in Nat /\ p % N \in 0..(N - 1) BY <1>1, Division
  <1>6. W * d = N * (k * d) BY <1>1, <1>2
  <1> DEFINE f == e - k * d
  <1>7. f \in Int /\ N * f = N * e - N * (k * d) BY <1>1
  <1> DEFINE x == p % W
             z == p % N
  <1> HIDE DEF f
  <1>8. /\ x = z + N * f /\ x \in Int /\ z \in Int /\ 0 <= z /\ z < N
    BY <1>1, <1>3, <1>4, <1>5, <1>6, <1>7
  <1> HIDE DEF x, z
  <1>9. x % N = z BY <1>1, <1>7, <1>8, RemainderIs
  <1> QED BY <1>9 DEF x, z

\* Where the block after next of a position is.
LEMMA BlockPlus ==
  ASSUME NEW c \in Nat, NEW j \in Nat
  PROVE /\ (c % N) + j < N => (c + j) % N = (c % N) + j
        /\ N <= (c % N) + j /\ (c % N) + j < 2 * N => (c + j) % N = (c % N) + j - N
  <1>1. N \in Nat /\ N > 0 BY SisoRingAssumption
  <1>2. PICK e \in Int : c = (c % N) + N * e BY <1>1, Division
  <1>3. c % N \in 0..(N - 1) BY <1>1, Division
  <1>4. ASSUME (c % N) + j < N PROVE (c + j) % N = (c % N) + j
    <2> DEFINE z == (c % N) + j
               x == c + j
    <2>1. z \in Int /\ 0 <= z /\ z < N /\ x \in Int /\ x = z + N * e
      BY <1>1, <1>2, <1>3, <1>4
    <2> HIDE DEF z, x
    <2>2. x % N = z BY <1>1, <2>1, RemainderIs
    <2> QED BY <2>2 DEF x, z
  <1>5. ASSUME N <= (c % N) + j, (c % N) + j < 2 * N
        PROVE (c + j) % N = (c % N) + j - N
    <2> DEFINE z == (c % N) + j - N
               g == e + 1
    <2>1. z \in Int /\ 0 <= z /\ z < N /\ g \in Int /\ N * g = N * e + N
      BY <1>1, <1>3, <1>5
    <2> DEFINE x == c + j
    <2>2. x = z + N * g /\ x \in Int BY <1>1, <1>2, <1>3, <2>1
    <2> HIDE DEF z, g, x
    <2>3. x % N = z BY <1>1, <2>1, <2>2, RemainderIs
    <2> QED BY <2>3 DEF x, z
  <1> QED BY <1>4, <1>5

-----------------------------------------------------------------------------

LEMMA NeedType ==
  ASSUME NEW c \in Nat, NEW k \in Nat
  PROVE Need(c, k) \in Nat /\ Need(c, k) > 0 /\ Need(c, k) > k
  <1>1. N \in Nat /\ N > 0 BY SisoRingAssumption
  <1>2. c % N \in 0..(N - 1) BY <1>1, Division
  <1> QED BY <1>1, <1>2 DEF Need, Splits, LeftToTail

\* The data of a chunk lies within the blocks it takes, behind the header.
LEMMA DataInside ==
  ASSUME NEW c \in Nat, NEW k \in Nat, Need(c, k) <= N, NEW i \in DataBlocks(c, k)
  PROVE \E j \in Nat : 1 <= j /\ j < Need(c, k) /\ i = (c + j) % N
  <1>1. N \in Nat /\ N > 0 BY SisoRingAssumption
  <1>2. c % N \in 0..(N - 1) BY <1>1, Division
  <1>3. CASE Splits(c, k)
    <2> DEFINE j == LeftToTail(c) + i
    <2>1. i \in 0..(k - 1) /\ Need(c, k) = LeftToTail(c) + k
      BY <1>3 DEF DataBlocks, Need
    <2>2. j \in Nat /\ 1 <= j /\ j < Need(c, k) /\ (c % N) + j = N + i /\ i < N
      BY <1>1, <1>2, <2>1 DEF LeftToTail
    <2>3. N <= (c % N) + j /\ (c % N) + j < 2 * N BY <1>1, <2>1, <2>2
    <2>4. (c % N) + j - N = i BY <1>1, <1>2, <2>1, <2>2
    <2> HIDE DEF j
    <2>5. (c + j) % N = (c % N) + j - N BY <2>2, <2>3, BlockPlus
    <2>6. i = (c + j) % N BY <2>4, <2>5
    <2> QED BY <2>2, <2>6
  <1>4. CASE ~Splits(c, k)
    <2>1. Need(c, k) = k + 1 /\ (c % N) + k < N
      BY <1>1, <1>2, <1>4 DEF Need, Splits, LeftToTail
    <2>2. PICK j \in 1..k : i = (c % N) + j BY <1>4 DEF DataBlocks
    <2>3. (c + j) % N = (c % N) + j BY <1>1, <1>2, <2>1, <2>2, BlockPlus
    <2> QED BY <2>1, <2>2, <2>3
  <1> QED BY <1>3, <1>4

\* A chunk is the same whether its cursor has wrapped or not.
LEMMA SameChunk ==
  ASSUME NEW p \in Nat, NEW k
  PROVE /\ Need(p % W, k) = Need(p, k)
        /\ DataBlocks(p % W, k) = DataBlocks(p, k)
  BY SameBlock DEF Need, Splits, LeftToTail, DataBlocks

-----------------------------------------------------------------------------
(***************************************************************************)
(* The cursors count modulo W.  The invariant gives each of them a         *)
(* position, a number that does not wrap: the cursor is the position       *)
(* modulo W, and its block the position modulo N.  wr, r, rr, rw, w and ww *)
(* are the positions of wtReading, reading, rtReading, rtWriting, writing  *)
(* and wtWriting, and S is where the chunks that were not given back begin *)
(* and end.                                                                *)
(***************************************************************************)

\* The chunk at position p is whole, no other begins inside it, and the next
\* one, if it is not the last, is the one that was sent after it.
Laid(p, S, ww) ==
    LET h == mem[p % N]
    IN  /\ Whole(p)
        /\ p + h.num \in S
        /\ \A q \in S : q <= p \/ p + h.num <= q
        /\ h.chunk \in 1..sent
        /\ p + h.num = ww => h.chunk = sent
        /\ p + h.num # ww => mem[(p + h.num) % N].chunk = h.chunk + 1

Positions(wr, r, rr, rw, w, ww) ==
    /\ wr <= r /\ r <= rr /\ rr <= rw /\ rw <= w /\ w <= ww /\ ww <= wr + N
    /\ wtReading = wr % W /\ reading = r % W /\ rtReading = rr % W
    /\ rtWriting = rw % W /\ writing = w % W /\ wtWriting = ww % W

Chunks(r, rr, rw, w, ww, S) ==
    /\ {r, rr, rw, w, ww} \subseteq S
    /\ \A p \in S : r <= p /\ p <= ww
    /\ \A p \in S \ {ww} : Laid(p, S, ww)

\* What the writer is at lies behind the last chunk, in the room it has found.
WriterSound(wr, ww) ==
    /\ pc \in {"low", "fill", "commit"} =>
        /\ size \in Sizes /\ sent < Rounds
        /\ mem[ww % N] = Header(sent + 1, Need(ww, size), size)
        /\ ww + Need(ww, size) <= wr + N
    /\ pc = "commit" => \A i \in DataBlocks(ww, size) : mem[i].chunk = sent + 1

ReaderSound ==
    /\ rpc = "batch" => end = rtWriting
    /\ rpc = "one" => rtReading # rtWriting

Sound(wr, r, rr, rw, w, ww, S) ==
    /\ Positions(wr, r, rr, rw, w, ww)
    /\ Chunks(r, rr, rw, w, ww, S)
    /\ WriterSound(wr, ww)
    /\ ReaderSound

SisoInv ==
    /\ TypeOK
    /\ \E wr, r, rr, rw, w, ww \in Nat, S \in SUBSET Nat : Sound(wr, r, rr, rw, w, ww, S)

-----------------------------------------------------------------------------

LEMMA BlockType ==
  ASSUME TypeOK, NEW p \in Nat
  PROVE /\ p % N \in Index
        /\ mem[p % N] \in [chunk : 0..Rounds, num : 0..N, size : {0} \cup Sizes]
        /\ mem[p % N].size \in Nat /\ mem[p % N].num \in Nat /\ mem[p % N].chunk \in Nat
  <1>1. N \in Nat /\ N > 0 /\ Rounds \in Nat /\ Sizes \subseteq Nat BY SisoRingAssumption
  <1>2. p % N \in Index BY <1>1, Division DEF Index
  <1>3. mem[p % N] \in [chunk : 0..Rounds, num : 0..N, size : {0} \cup Sizes]
    <2> DEFINE x == p % N
    <2>1. x \in Index BY <1>2
    <2> HIDE DEF x
    <2>2. mem[x] \in [chunk : 0..Rounds, num : 0..N, size : {0} \cup Sizes]
      BY <2>1 DEF TypeOK
    <2> QED BY <2>2 DEF x
  <1> DEFINE h == mem[p % N]
  <1>4. h \in [chunk : 0..Rounds, num : 0..N, size : {0} \cup Sizes] BY <1>3
  <1> HIDE DEF h
  <1>5. h.size \in {0} \cup Sizes /\ h.num \in 0..N /\ h.chunk \in 0..Rounds BY <1>4
  <1>6. h.size \in Nat
    <2>1. \A k \in {0} \cup Sizes : k \in Nat BY <1>1
    <2> QED BY <1>5, <2>1
  <1>7. h.num \in Nat /\ h.chunk \in Nat BY <1>1, <1>5
  <1> QED BY <1>2, <1>3, <1>6, <1>7 DEF h

\* A chunk takes what its header says, and that is at least a block.
LEMMA LaidSize ==
  ASSUME TypeOK, NEW p \in Nat, NEW S, NEW ww, Laid(p, S, ww)
  PROVE /\ mem[p % N].num \in 1..N
        /\ mem[p % N].num = Need(p, mem[p % N].size)
  BY BlockType, SisoRingAssumption DEF Laid, Whole

\* A chunk stays whole when no block up to the writer's position changes.
LEMMA KeepLaid ==
  ASSUME TypeOK, NEW p \in Nat, NEW ww \in Nat, NEW S,
         Laid(p, S, ww), p + mem[p % N].num <= ww,
         \A x \in Nat : p <= x /\ x < ww => mem'[x % N] = mem[x % N],
         sent' = sent
  PROVE Laid(p, S, ww)'
  <1> DEFINE h == mem[p % N]
  <1>1. h.num \in 1..N /\ h.num = Need(p, h.size) /\ h.size \in Nat /\ h.num \in Nat
    BY LaidSize, BlockType
  <1>2. mem'[p % N] = h BY <1>1
  <1>3. ASSUME NEW i \in DataBlocks(p, h.size) PROVE mem'[i] = mem[i]
    <2>1. Need(p, h.size) <= N BY <1>1, SisoRingAssumption
    <2>2. PICK j \in Nat : 1 <= j /\ j < h.num /\ i = (p + j) % N
      <3> HIDE DEF h
      <3> QED BY <1>1, <2>1, <1>3, DataInside
    <2> DEFINE x == p + j
    <2>3. x \in Nat /\ p <= x /\ x < ww BY <1>1, <2>2
    <2> HIDE DEF x
    <2>4. mem'[x % N] = mem[x % N] BY <2>3
    <2> QED BY <2>2, <2>4 DEF x
  <1>4. p + h.num # ww => mem'[(p + h.num) % N] = mem[(p + h.num) % N]
    <2> DEFINE x == p + h.num
    <2>1. x \in Nat /\ p <= x /\ x <= ww BY <1>1
    <2> HIDE DEF x
    <2>2. x # ww => mem'[x % N] = mem[x % N] BY <2>1
    <2> QED BY <2>2 DEF x
  <1>5. /\ h.num > 0 /\ h.num = Need(p, h.size)
        /\ \A i \in DataBlocks(p, h.size) : mem[i].chunk = h.chunk
    BY DEF Laid, Whole
  <1>6. Whole(p)' 
    <2>1. \A i \in DataBlocks(p, h.size) : mem'[i].chunk = h.chunk BY <1>3, <1>5
    <2> HIDE DEF h
    <2> QED BY <1>2, <1>5, <2>1 DEF Whole
  <1>7. /\ p + h.num \in S
        /\ \A q \in S : q <= p \/ p + h.num <= q
        /\ h.chunk \in 1..sent
        /\ p + h.num = ww => h.chunk = sent
        /\ p + h.num # ww => mem[(p + h.num) % N].chunk = h.chunk + 1
    BY DEF Laid
  <1> HIDE DEF h
  <1> QED BY <1>2, <1>4, <1>6, <1>7 DEF Laid

LEMMA KeepChunks ==
  ASSUME TypeOK, NEW r \in Nat, NEW rr, NEW rw, NEW w, NEW ww \in Nat, NEW S \in SUBSET Nat,
         Chunks(r, rr, rw, w, ww, S),
         \A x \in Nat : r <= x /\ x < ww => mem'[x % N] = mem[x % N],
         sent' = sent
  PROVE Chunks(r, rr, rw, w, ww, S)'
  <1>1. ASSUME NEW p \in S \ {ww} PROVE Laid(p, S, ww)'
    <2>1. p \in Nat /\ r <= p /\ Laid(p, S, ww) BY DEF Chunks
    <2>2. p + mem[p % N].num <= ww BY <2>1 DEF Chunks, Laid
    <2>3. \A x \in Nat : p <= x /\ x < ww => mem'[x % N] = mem[x % N] BY <2>1
    <2> QED BY <2>1, <2>2, <2>3, KeepLaid
  <1> QED BY <1>1 DEF Chunks

\* The chunks from a later one on are as sound as all.
LEMMA CutChunks ==
  ASSUME TypeOK, NEW r, NEW rr, NEW rw, NEW w, NEW ww \in Nat, NEW S \in SUBSET Nat,
         Chunks(r, rr, rw, w, ww, S),
         NEW a \in S, NEW b \in S, NEW c \in S, NEW d \in S,
         a <= b, a <= c, a <= d
  PROVE Chunks(a, b, c, d, ww, {p \in S : a <= p})
  <1> DEFINE T == {p \in S : a <= p}
  <1>1. a \in Nat /\ ww \in S /\ a <= ww BY DEF Chunks
  <1>2. ASSUME NEW p \in T \ {ww} PROVE Laid(p, T, ww)
    <2>1. p \in S \ {ww} /\ p \in Nat /\ a <= p OBVIOUS
    <2>2. Laid(p, S, ww) BY <2>1 DEF Chunks
    <2>3. mem[p % N].num \in 1..N BY <2>1, <2>2, LaidSize
    <2>4. p + mem[p % N].num \in S BY <2>2 DEF Laid
    <2>5. p + mem[p % N].num \in T BY <1>1, <2>1, <2>3, <2>4
    <2>6. T \subseteq S OBVIOUS
    <2> HIDE DEF T
    <2> QED BY <2>2, <2>5, <2>6 DEF Laid
  <1>3. {a, b, c, d, ww} \subseteq T BY <1>1
  <1>4. \A p \in T : a <= p /\ p <= ww BY DEF Chunks
  <1> HIDE DEF T
  <1>5. Chunks(a, b, c, d, ww, T) BY <1>2, <1>3, <1>4 DEF Chunks
  <1> QED BY <1>5 DEF T

\* A chunk that was committed comes after all others.
LEMMA CommitChunks ==
  ASSUME TypeOK, NEW r \in Nat, NEW rr, NEW rw, NEW w, NEW ww \in Nat, NEW S \in SUBSET Nat,
         Chunks(r, rr, rw, w, ww, S),
         sent' = sent + 1, sent \in Nat, mem' = mem,
         Whole(ww), mem[ww % N].chunk = sent + 1,
         NEW v, v = ww + mem[ww % N].num
  PROVE Chunks(r, rr, rw, w, v, S \cup {v})'
  <1> DEFINE n == mem[ww % N].num
             T == S \cup {v}
  <1>1. n \in Nat /\ n > 0 /\ v \in Nat /\ ww < v BY BlockType DEF Whole
  <1>2. \A p \in S : p \in Nat /\ r <= p /\ p <= ww BY DEF Chunks
  <1>3. ww \in S /\ {r, rr, rw, w} \subseteq S BY DEF Chunks
  <1>4. ASSUME NEW p \in T \ {v} PROVE Laid(p, T, v)'
    <2>1. p \in S /\ p \in Nat BY <1>2
    <2>2. CASE p = ww
      <3>1. /\ Whole(p)' /\ p + mem'[p % N].num = v /\ mem'[p % N].chunk = sent'
            /\ mem'[p % N].chunk \in 1..sent'
        BY <2>2 DEF Whole
      <3>2. ASSUME NEW q \in T PROVE q <= p \/ v <= q
        <4>1. CASE q \in S BY <1>2, <2>2, <4>1
        <4>2. CASE q = v BY <1>1, <4>2
        <4> QED BY <4>1, <4>2
      <3>3. v \in T OBVIOUS
      <3> HIDE DEF T
      <3> QED BY <3>1, <3>2, <3>3 DEF Laid
    <2>3. CASE p # ww
      <3> DEFINE h == mem[p % N]
      <3>1. Laid(p, S, ww) BY <2>1, <2>3 DEF Chunks
      <3>2. h.num \in 1..N /\ h.num \in Nat BY <2>1, <3>1, LaidSize, BlockType
      <3>3. /\ Whole(p) /\ p + h.num \in S /\ h.chunk \in 1..sent
            /\ \A q \in S : q <= p \/ p + h.num <= q
            /\ p + h.num = ww => h.chunk = sent
            /\ p + h.num # ww => mem[(p + h.num) % N].chunk = h.chunk + 1
        BY <3>1 DEF Laid
      <3>4. mem'[p % N] = h /\ Whole(p)' BY <3>3 DEF Whole
      <3>5. p + h.num <= ww BY <1>2, <3>3
      <3>6. \A q \in T : q <= p \/ p + h.num <= q
        <4>1. p + h.num <= v BY <1>1, <2>1, <3>2, <3>5
        <4> QED BY <3>3, <4>1
      <3>7. p + h.num # v BY <1>1, <2>1, <3>2, <3>5
      <3>8. mem'[(p + h.num) % N].chunk = h.chunk + 1 BY <3>3
      <3>9. h.chunk \in 1..sent' BY <3>3
      <3>10. p + h.num \in T BY <3>3
      <3> HIDE DEF h, T
      <3> QED BY <3>4, <3>6, <3>7, <3>8, <3>9, <3>10 DEF Laid
    <2> QED BY <2>2, <2>3
  <1>5. \A p \in T : r <= p /\ p <= v BY <1>1, <1>2, <1>3
  <1>6. {r, rr, rw, w, v} \subseteq T BY <1>3
  <1>7. mem' = mem OBVIOUS
  <1> HIDE DEF T
  <1>8. Chunks(r, rr, rw, w, v, T)' BY <1>4, <1>5, <1>6 DEF Chunks
  <1> QED BY <1>8 DEF T

-----------------------------------------------------------------------------

\* Positions that are less than W apart and have the same cursor are the same.
LEMMA SamePosition ==
  ASSUME NEW a \in Nat, NEW b \in Nat, a <= b, b - a < W, a % W = b % W
  PROVE a = b
  <1>1. W \in Nat /\ W > 0 BY SisoRingAssumption
  <1>2. ~(a < b) BY <1>1, RemaindersDiffer
  <1> QED BY <1>2

LEMMA InCursors == ASSUME NEW p \in Nat PROVE p % W \in Cursors
  <1>1. W \in Nat /\ W > 0 BY SisoRingAssumption
  <1> QED BY <1>1, Division DEF Cursors

\* What the copies of the read cursor say of the room.
LEMMA Room ==
  ASSUME NEW wr \in Nat, NEW r \in Nat, NEW rr \in Nat, NEW rw \in Nat, NEW w \in Nat,
         NEW ww \in Nat, Positions(wr, r, rr, rw, w, ww)
  PROVE /\ Left(wtReading) = wr + N - ww /\ Left(reading) = r + N - ww
        /\ wtWriting % N = ww % N
        /\ \A k : Need(wtWriting, k) = Need(ww, k)
                  /\ DataBlocks(wtWriting, k) = DataBlocks(ww, k)
        /\ wr <= r /\ r <= ww /\ ww <= wr + N
  <1>1. N \in Nat /\ W \in Nat /\ N < W BY SisoRingAssumption
  <1>2. wr <= r /\ r <= ww /\ ww <= wr + N BY <1>1 DEF Positions
  <1>3. wtReading = wr % W /\ reading = r % W /\ wtWriting = ww % W BY DEF Positions
  <1>4. 0 <= wr + N - ww /\ wr + N - ww < W /\ 0 <= r + N - ww /\ r + N - ww < W
    BY <1>1, <1>2
  <1>5. Dist(ww % W, (wr % W) + N) = wr + N - ww BY <1>1, <1>4, DistIs
  <1>6. Dist(ww % W, (r % W) + N) = r + N - ww BY <1>1, <1>4, DistIs
  <1>7. wtWriting % N = ww % N BY <1>3, SameBlock
  <1>8. \A k : Need(wtWriting, k) = Need(ww, k)
               /\ DataBlocks(wtWriting, k) = DataBlocks(ww, k)
    BY <1>3, SameChunk
  <1> QED BY <1>2, <1>3, <1>5, <1>6, <1>7, <1>8 DEF Left

LEMMA Witnessed ==
  ASSUME TypeOK', NEW wr \in Nat, NEW r \in Nat, NEW rr \in Nat, NEW rw \in Nat,
         NEW w \in Nat, NEW ww \in Nat, NEW S \in SUBSET Nat,
         Sound(wr, r, rr, rw, w, ww, S)'
  PROVE SisoInv'
  BY DEF SisoInv

-----------------------------------------------------------------------------

\* A step of the reader: its cursors go on within the chunks.
LEMMA ReaderMoves ==
  ASSUME TypeOK, NEW wr \in Nat, NEW r \in Nat, NEW rr \in Nat, NEW rw \in Nat,
         NEW w \in Nat, NEW ww \in Nat, NEW S \in SUBSET Nat,
         Sound(wr, r, rr, rw, w, ww, S),
         UNCHANGED <<mem, writing, wtReading, wtWriting, pc, size, sent, crashes>>,
         NEW r2 \in S, NEW rr2 \in S, NEW rw2 \in S, r2 <= rr2, rr2 <= rw2, rw2 <= w,
         reading' = r2 % W, rtReading' = rr2 % W, rtWriting' = rw2 % W,
         end' \in Cursors, rpc' \in {"idle", "one", "batch", "publish"}, ReaderSound'
  PROVE SisoInv'
  <1> DEFINE T == {p \in S : r2 <= p}
  <1>1. Chunks(r, rr, rw, w, ww, S) /\ Positions(wr, r, rr, rw, w, ww) BY DEF Sound
  <1>2. /\ r2 \in Nat /\ rr2 \in Nat /\ rw2 \in Nat /\ T \in SUBSET Nat
        /\ w \in S /\ r <= r2 /\ wr <= r /\ w <= ww /\ ww <= wr + N
        /\ wtReading = wr % W /\ writing = w % W /\ wtWriting = ww % W
    BY <1>1 DEF Chunks, Positions
  <1>3. r2 <= rw2 /\ r2 <= w /\ wr <= r2 BY <1>2
  <1>4. Chunks(r2, rr2, rw2, w, ww, T) BY <1>1, <1>2, <1>3, CutChunks
  <1>5. \A x \in Nat : r2 <= x /\ x < ww => mem'[x % N] = mem[x % N] OBVIOUS
  <1> HIDE DEF T
  <1>6. Chunks(r2, rr2, rw2, w, ww, T)'
    BY <1>2, <1>4, <1>5, KeepChunks
  <1>7. Positions(wr, r2, rr2, rw2, w, ww)' BY <1>2, <1>3 DEF Positions
  <1>8. WriterSound(wr, ww)' BY DEF Sound, WriterSound
  <1>9. TypeOK'
    <2>1. reading' \in Cursors /\ rtReading' \in Cursors /\ rtWriting' \in Cursors
      BY <1>2, InCursors
    <2> QED BY <2>1 DEF TypeOK
  <1>10. Sound(wr, r2, rr2, rw2, w, ww, T)' BY <1>6, <1>7, <1>8 DEF Sound
  <1> QED BY <1>2, <1>9, <1>10, Witnessed

\* A step of the writer that commits nothing.
LEMMA WriterMoves ==
  ASSUME TypeOK, NEW wr \in Nat, NEW r \in Nat, NEW rr \in Nat, NEW rw \in Nat,
         NEW w \in Nat, NEW ww \in Nat, NEW S \in SUBSET Nat,
         Sound(wr, r, rr, rw, w, ww, S),
         UNCHANGED <<reading, rtReading, rtWriting, wtWriting, rpc, end, sent, crashes>>,
         NEW wr2 \in {wr, r}, NEW w2 \in {w, ww},
         wtReading' = wr2 % W, writing' = w2 % W,
         mem' \in [Index -> [chunk : 0..Rounds, num : 0..N, size : {0} \cup Sizes]],
         size' \in {0} \cup Sizes,
         pc' \in {"idle", "low", "fill", "commit", "publish", "gone"},
         \A x \in Nat : r <= x /\ x < ww => mem'[x % N] = mem[x % N],
         WriterSound(wr2, ww)'
  PROVE SisoInv' /\ Taken' = Taken
  <1>0. N \in Nat BY SisoRingAssumption
  <1>1. Chunks(r, rr, rw, w, ww, S) /\ Positions(wr, r, rr, rw, w, ww) BY DEF Sound
  <1>2. Chunks(r, rr, rw, w2, ww, S) BY <1>1 DEF Chunks
  <1>3. Chunks(r, rr, rw, w2, ww, S)' BY <1>2, KeepChunks
  <1>4. /\ wr2 \in Nat /\ w2 \in Nat /\ wr2 <= r /\ r <= rr /\ rr <= rw /\ rw <= w2
        /\ w2 <= ww /\ ww <= wr2 + N
    BY <1>0, <1>1 DEF Positions
  <1>5. Positions(wr2, r, rr, rw, w2, ww)' BY <1>1, <1>4 DEF Positions
  <1>6. ReaderSound' BY DEF Sound, ReaderSound
  <1>7. TypeOK'
    <2>1. wtReading' \in Cursors /\ writing' \in Cursors BY <1>4, InCursors
    <2> QED BY <2>1 DEF TypeOK
  <1>8. Sound(wr2, r, rr, rw, w2, ww, S)' BY <1>3, <1>5, <1>6 DEF Sound
  <1>9. Taken' = Taken
    <2>1. CASE rtReading = wtWriting BY <2>1 DEF Taken
    <2>2. CASE rtReading # wtWriting
      <3>1. rtReading = rr % W /\ wtWriting = ww % W /\ rr <= ww /\ r <= rr
        BY <1>1 DEF Positions
      <3>2. rr < ww BY <2>2, <3>1
      <3>3. mem'[rr % N] = mem[rr % N] BY <3>1, <3>2
      <3>4. rtReading % N = rr % N BY <3>1, SameBlock
      <3> QED BY <2>2, <3>3, <3>4 DEF Taken
    <2> QED BY <2>1, <2>2
  <1>10. SisoInv' BY <1>4, <1>7, <1>8, Witnessed
  <1> QED BY <1>9, <1>10

-----------------------------------------------------------------------------

\* The blocks behind the last chunk are not of any chunk.
LEMMA RoomIsFree ==
  ASSUME NEW r \in Nat, NEW ww \in Nat, NEW v \in Nat, r <= ww, ww <= v, v < r + N,
         NEW x \in Nat, r <= x, x < ww
  PROVE v % N # x % N
  <1>1. N \in Nat /\ N > 0 BY SisoRingAssumption
  <1>2. x < v /\ v - x < N BY <1>1
  <1> QED BY <1>1, <1>2, RemaindersDiffer

LEMMA AllocStep == ASSUME SisoInv, NEW k \in Sizes, Alloc(k)
                   PROVE  SisoInv' /\ Taken' = Taken
  <1>1. PICK wr \in Nat, r \in Nat, rr \in Nat, rw \in Nat, w \in Nat, ww \in Nat,
             S \in SUBSET Nat : Sound(wr, r, rr, rw, w, ww, S)
    BY DEF SisoInv
  <1>2. TypeOK /\ Positions(wr, r, rr, rw, w, ww) BY <1>1 DEF SisoInv, Sound
  <1>3. /\ Left(wtReading) = wr + N - ww /\ Left(reading) = r + N - ww
        /\ wtWriting % N = ww % N /\ Need(wtWriting, k) = Need(ww, k)
        /\ wr <= r /\ r <= ww /\ ww <= wr + N
    BY <1>2, Room
  <1>4. k \in Nat /\ N \in Nat BY SisoRingAssumption
  <1>5. Need(ww, k) \in Nat /\ Need(ww, k) > 0 BY <1>4, NeedType
  <1>6. PICK wr2 \in {wr, r} : Known(k) = wr2 % W /\ Left(Known(k)) = wr2 + N - ww
    BY <1>2, <1>3 DEF Known, Positions
  <1>7. /\ UNCHANGED <<reading, writing, rtReading, rtWriting, wtWriting, rpc, end, sent,
                       crashes>>
        /\ wtReading' = wr2 % W /\ writing' = w % W /\ pc = "idle" /\ sent < Rounds
    BY <1>2, <1>6 DEF Alloc, Positions
  <1>8. CASE wr2 + N - ww < Need(ww, k)
    <2>1. UNCHANGED <<mem, pc, size>> BY <1>3, <1>6, <1>8 DEF Alloc
    <2>2. WriterSound(wr2, ww)' BY <1>7, <2>1 DEF WriterSound
    <2>3. /\ mem' \in [Index -> [chunk : 0..Rounds, num : 0..N, size : {0} \cup Sizes]]
          /\ size' \in {0} \cup Sizes
          /\ pc' \in {"idle", "low", "fill", "commit", "publish", "gone"}
      BY <1>2, <2>1 DEF TypeOK
    <2>4. \A x \in Nat : r <= x /\ x < ww => mem'[x % N] = mem[x % N] BY <2>1
    <2>11. CASE wr2 = wr BY <1>1, <1>2, <1>7, <2>2, <2>3, <2>4, <2>11, WriterMoves
    <2>12. CASE wr2 = r BY <1>1, <1>2, <1>7, <2>2, <2>3, <2>4, <2>12, WriterMoves
    <2> QED BY <2>11, <2>12
  <1>9. CASE ~(wr2 + N - ww < Need(ww, k))
    <2> DEFINE h == Header(sent + 1, Need(ww, k), k)
    <2>1. /\ mem' = [mem EXCEPT ![ww % N] = h] /\ size' = k /\ pc' \in {"low", "fill"}
      BY <1>3, <1>6, <1>9 DEF Alloc
    <2>2. Need(ww, k) <= N BY <1>3, <1>7 DEF Alloc, Fits
    <2>3. h \in [chunk : 0..Rounds, num : 0..N, size : {0} \cup Sizes]
      <3>1. sent + 1 \in 0..Rounds BY <1>2, <1>7, SisoRingAssumption DEF TypeOK
      <3>2. Need(ww, k) \in 0..N BY <1>4, <1>5, <2>2
      <3> QED BY <3>1, <3>2 DEF Header
    <2>4. ww % N \in Index BY <1>2, BlockType
    <2> HIDE DEF h
    <2>5. /\ mem' \in [Index -> [chunk : 0..Rounds, num : 0..N, size : {0} \cup Sizes]]
          /\ mem'[ww % N] = h
      BY <1>2, <2>1, <2>3, <2>4 DEF TypeOK
    <2>6. ww + Need(ww, k) <= wr2 + N /\ ww < r + N
      BY <1>3, <1>4, <1>5, <1>9
    <2>7. ASSUME NEW x \in Nat, r <= x, x < ww PROVE mem'[x % N] = mem[x % N]
      <3>1. ww % N # x % N BY <1>3, <2>6, <2>7, RoomIsFree
      <3>2. x % N \in Index BY <1>2, BlockType
      <3> QED BY <1>2, <2>1, <3>1, <3>2 DEF TypeOK
    <2>8. WriterSound(wr2, ww)'
      <3>1. size' \in Sizes /\ sent' < Rounds BY <1>7, <2>1
      <3>2. mem'[ww % N] = Header(sent' + 1, Need(ww, size'), size')
        BY <1>7, <2>1, <2>5 DEF h
      <3>3. ww + Need(ww, size') <= wr2 + N BY <2>1, <2>6
      <3> QED BY <2>1, <3>1, <3>2, <3>3 DEF WriterSound
    <2>9. size' \in {0} \cup Sizes /\ pc' \in {"idle", "low", "fill", "commit", "publish", "gone"}
      BY <2>1
    <2>11. CASE wr2 = wr BY <1>1, <1>2, <1>7, <2>5, <2>7, <2>8, <2>9, <2>11, WriterMoves
    <2>12. CASE wr2 = r BY <1>1, <1>2, <1>7, <2>5, <2>7, <2>8, <2>9, <2>12, WriterMoves
    <2> QED BY <2>11, <2>12
  <1> QED BY <1>8, <1>9

LEMMA LowSpaceStep == ASSUME SisoInv, LowSpace PROVE SisoInv' /\ Taken' = Taken
  <1>1. PICK wr \in Nat, r \in Nat, rr \in Nat, rw \in Nat, w \in Nat, ww \in Nat,
             S \in SUBSET Nat : Sound(wr, r, rr, rw, w, ww, S)
    BY DEF SisoInv
  <1>2. TypeOK /\ Positions(wr, r, rr, rw, w, ww) BY <1>1 DEF SisoInv, Sound
  <1>3. wr <= r /\ N \in Nat BY <1>2, SisoRingAssumption DEF Positions
  <1>4. /\ wtReading' = r % W /\ writing' = w % W
        /\ mem' = mem /\ size' = size /\ pc = "low" /\ pc' = "fill" /\ sent' = sent
        /\ UNCHANGED <<reading, rtReading, rtWriting, wtWriting, rpc, end, sent, crashes>>
    BY <1>2 DEF LowSpace, Positions
  <1>5. WriterSound(r, ww)'
    <2>1. /\ size \in Sizes /\ sent < Rounds
          /\ mem[ww % N] = Header(sent + 1, Need(ww, size), size)
          /\ ww + Need(ww, size) <= wr + N
      BY <1>1, <1>4 DEF Sound, WriterSound
    <2>2. size \in Nat BY <2>1, SisoRingAssumption
    <2>3. Need(ww, size) \in Nat BY <2>2, NeedType
    <2>4. ww + Need(ww, size) <= r + N BY <1>3, <2>1, <2>3
    <2> QED BY <1>4, <2>1, <2>4 DEF WriterSound
  <1>6. /\ mem' \in [Index -> [chunk : 0..Rounds, num : 0..N, size : {0} \cup Sizes]]
        /\ size' \in {0} \cup Sizes
        /\ pc' \in {"idle", "low", "fill", "commit", "publish", "gone"}
    BY <1>2, <1>4 DEF TypeOK
  <1> QED BY <1>1, <1>2, <1>4, <1>5, <1>6, WriterMoves

LEMMA FillStep == ASSUME SisoInv, Fill PROVE SisoInv' /\ Taken' = Taken
  <1>1. PICK wr \in Nat, r \in Nat, rr \in Nat, rw \in Nat, w \in Nat, ww \in Nat,
             S \in SUBSET Nat : Sound(wr, r, rr, rw, w, ww, S)
    BY DEF SisoInv
  <1>2. TypeOK /\ Positions(wr, r, rr, rw, w, ww) BY <1>1 DEF SisoInv, Sound
  <1>3. /\ DataBlocks(wtWriting, size) = DataBlocks(ww, size)
        /\ wr <= r /\ r <= ww /\ ww <= wr + N /\ N \in Nat
    BY <1>2, Room, SisoRingAssumption
  <1>4. /\ size \in Sizes /\ sent < Rounds
        /\ mem[ww % N] = Header(sent + 1, Need(ww, size), size)
        /\ ww + Need(ww, size) <= wr + N
    BY <1>1 DEF Fill, Sound, WriterSound
  <1>5. size \in Nat /\ Need(ww, size) \in Nat /\ Need(ww, size) > 0
    BY <1>4, NeedType, SisoRingAssumption
  <1>6. Need(ww, size) <= N
    BY <1>2, <1>4, <1>5, BlockType DEF Header
  <1>7. \A i \in DataBlocks(ww, size) :
          \E v \in Nat : ww < v /\ v < ww + Need(ww, size) /\ i = v % N
    <2> TAKE i \in DataBlocks(ww, size)
    <2>1. PICK j \in Nat : 1 <= j /\ j < Need(ww, size) /\ i = (ww + j) % N
      BY <1>5, <1>6, DataInside
    <2> WITNESS ww + j \in Nat
    <2> QED BY <1>5, <2>1
  <1>8. \A i \in DataBlocks(ww, size) : i # ww % N
    <2> TAKE i \in DataBlocks(ww, size)
    <2>1. PICK v \in Nat : ww < v /\ v < ww + Need(ww, size) /\ i = v % N BY <1>7
    <2>2. v - ww < N /\ N > 0 BY <1>3, <1>5, <1>6, <2>1
    <2> QED BY <1>3, <2>1, <2>2, RemaindersDiffer
  <1>9. \A x \in Nat : r <= x /\ x < ww => x % N \notin DataBlocks(ww, size)
    <2> SUFFICES ASSUME NEW x \in Nat, r <= x, x < ww, x % N \in DataBlocks(ww, size)
                 PROVE FALSE
      OBVIOUS
    <2>1. PICK v \in Nat : ww < v /\ v < ww + Need(ww, size) /\ x % N = v % N BY <1>7
    <2>2. ww <= v /\ v < r + N BY <1>3, <1>4, <1>5, <2>1
    <2> QED BY <1>3, <2>1, <2>2, RoomIsFree
  <1>10. /\ mem' = [i \in Index |-> IF i \in DataBlocks(ww, size) THEN Data(sent + 1)
                                    ELSE mem[i]]
         /\ wtReading' = wr % W /\ writing' = w % W /\ size' = size /\ pc' = "commit"
         /\ UNCHANGED <<reading, rtReading, rtWriting, wtWriting, rpc, end, sent, crashes>>
    BY <1>2, <1>3 DEF Fill, Positions, cursors
  <1>11. \A i \in DataBlocks(ww, size) : i \in Index
    BY <1>7, BlockType, <1>2
  <1>12. mem' \in [Index -> [chunk : 0..Rounds, num : 0..N, size : {0} \cup Sizes]]
    <2>1. sent + 1 \in 0..Rounds BY <1>2, <1>4, SisoRingAssumption DEF TypeOK
    <2>2. Data(sent + 1) \in [chunk : 0..Rounds, num : 0..N, size : {0} \cup Sizes]
      BY <1>3, <2>1 DEF Data
    <2> QED BY <1>2, <1>10, <2>2 DEF TypeOK
  <1>13. \A x \in Nat : r <= x /\ x < ww => mem'[x % N] = mem[x % N]
    <2>1. \A x \in Nat : x % N \in Index BY <1>2, BlockType
    <2> QED BY <1>9, <1>10, <2>1
  <1>14. WriterSound(wr, ww)'
    <2>1. ww % N \in Index BY <1>2, BlockType
    <2>2. ww % N \notin DataBlocks(ww, size) BY <1>8
    <2>3. mem'[ww % N] = mem[ww % N] BY <1>10, <2>1, <2>2
    <2>4. \A i \in DataBlocks(ww, size) : mem'[i].chunk = sent + 1
      BY <1>10, <1>11 DEF Data
    <2> QED BY <1>4, <1>10, <2>3, <2>4 DEF WriterSound
  <1>15. size' \in {0} \cup Sizes /\ pc' \in {"idle", "low", "fill", "commit", "publish", "gone"}
    BY <1>4, <1>10
  <1> QED BY <1>1, <1>2, <1>10, <1>12, <1>13, <1>14, <1>15, WriterMoves

LEMMA PublishStep == ASSUME SisoInv, Publish PROVE SisoInv' /\ Taken' = Taken
  <1>1. PICK wr \in Nat, r \in Nat, rr \in Nat, rw \in Nat, w \in Nat, ww \in Nat,
             S \in SUBSET Nat : Sound(wr, r, rr, rw, w, ww, S)
    BY DEF SisoInv
  <1>2. TypeOK /\ Positions(wr, r, rr, rw, w, ww) BY <1>1 DEF SisoInv, Sound
  <1>3. /\ wtReading' = wr % W /\ writing' = ww % W
        /\ mem' = mem /\ size' = size /\ pc' = "idle"
        /\ UNCHANGED <<reading, rtReading, rtWriting, wtWriting, rpc, end, sent, crashes>>
    BY <1>2 DEF Publish, Positions
  <1>4. WriterSound(wr, ww)' BY <1>3 DEF WriterSound
  <1>5. /\ mem' \in [Index -> [chunk : 0..Rounds, num : 0..N, size : {0} \cup Sizes]]
        /\ size' \in {0} \cup Sizes
        /\ pc' \in {"idle", "low", "fill", "commit", "publish", "gone"}
    BY <1>2, <1>3 DEF TypeOK
  <1> QED BY <1>1, <1>2, <1>3, <1>4, <1>5, WriterMoves

LEMMA CommitStep == ASSUME SisoInv, Commit PROVE SisoInv'
  <1>1. PICK wr \in Nat, r \in Nat, rr \in Nat, rw \in Nat, w \in Nat, ww \in Nat,
             S \in SUBSET Nat : Sound(wr, r, rr, rw, w, ww, S)
    BY DEF SisoInv
  <1>2. /\ TypeOK /\ Positions(wr, r, rr, rw, w, ww) /\ Chunks(r, rr, rw, w, ww, S)
        /\ WriterSound(wr, ww)
    BY <1>1 DEF SisoInv, Sound
  <1>3. /\ wr <= r /\ r <= ww /\ ww <= wr + N /\ N \in Nat /\ wtWriting % N = ww % N
    BY <1>2, Room, SisoRingAssumption
  <1>4. /\ size \in Sizes /\ sent < Rounds
        /\ mem[ww % N] = Header(sent + 1, Need(ww, size), size)
        /\ ww + Need(ww, size) <= wr + N
        /\ \A i \in DataBlocks(ww, size) : mem[i].chunk = sent + 1
    BY <1>2 DEF Commit, WriterSound
  <1>5. size \in Nat /\ Need(ww, size) \in Nat /\ Need(ww, size) > 0
    BY <1>4, NeedType, SisoRingAssumption
  <1>6. /\ mem[ww % N].chunk = sent + 1 /\ mem[ww % N].num = Need(ww, size)
        /\ mem[ww % N].size = size
    BY <1>4 DEF Header
  <1>7. Whole(ww) BY <1>4, <1>5, <1>6 DEF Whole
  <1>8. PICK v \in Nat : v = ww + Need(ww, size) BY <1>5
  <1>9. ww < v /\ v <= wr + N BY <1>4, <1>5, <1>8
  <1>10. wtWriting' = v % W
    <2>1. wtWriting' = (wtWriting + Need(ww, size)) % W BY <1>3, <1>6 DEF Commit
    <2>2. ((ww % W) + Need(ww, size)) % W = (ww + Need(ww, size)) % W BY <1>5, CursorPlus
    <2> QED BY <1>2, <1>8, <2>1, <2>2 DEF Positions
  <1>11. /\ mem' = mem /\ sent' = sent + 1 /\ sent \in Nat /\ pc' = "publish"
         /\ UNCHANGED <<reading, writing, rtReading, rtWriting, wtReading, size, rpc, end,
                        crashes>>
    BY <1>2, SisoRingAssumption DEF Commit, TypeOK
  <1>12. Chunks(r, rr, rw, w, v, S \cup {v})'
    <2>1. v = ww + mem[ww % N].num BY <1>6, <1>8
    <2> QED BY <1>2, <1>6, <1>7, <1>11, <2>1, CommitChunks
  <1>13. Positions(wr, r, rr, rw, w, v)'
    <2>1. w <= v BY <1>2, <1>9 DEF Positions
    <2> QED BY <1>2, <1>9, <1>10, <1>11, <2>1 DEF Positions
  <1>14. WriterSound(wr, v)' BY <1>11 DEF WriterSound
  <1>15. ReaderSound' BY <1>1, <1>11 DEF Sound, ReaderSound
  <1>16. TypeOK'
    <2>1. wtWriting' \in Cursors BY <1>10, InCursors
    <2>2. sent' \in 0..Rounds BY <1>4, <1>11, SisoRingAssumption
    <2> QED BY <1>2, <1>11, <2>1, <2>2 DEF TypeOK
  <1>17. Sound(wr, r, rr, rw, w, v, S \cup {v})' BY <1>12, <1>13, <1>14, <1>15 DEF Sound
  <1>18. S \cup {v} \in SUBSET Nat OBVIOUS
  <1> QED BY <1>16, <1>17, <1>18, Witnessed

-----------------------------------------------------------------------------

\* What the reader sees is a position up to the published one.
LEMMA SeenPosition ==
  ASSUME NEW wr \in Nat, NEW r \in Nat, NEW rr \in Nat, NEW rw \in Nat, NEW w \in Nat,
         NEW ww \in Nat, NEW S \in SUBSET Nat, Sound(wr, r, rr, rw, w, ww, S)
  PROVE \E x \in S : Seen = x % W /\ rr <= x /\ x <= w
  <1>1. rw \in S /\ w \in S BY DEF Sound, Chunks
  <1>2. /\ rtWriting = rw % W /\ writing = w % W /\ rr <= rw /\ rw <= w
    BY DEF Sound, Positions
  <1>3. CASE rtWriting = rtReading BY <1>1, <1>2, <1>3 DEF Seen
  <1>4. CASE rtWriting # rtReading BY <1>1, <1>2, <1>4 DEF Seen
  <1> QED BY <1>3, <1>4

\* The next chunk of the reader, where it ends, and what comes after it.
LEMMA NextChunk ==
  ASSUME TypeOK, NEW wr \in Nat, NEW r \in Nat, NEW rr \in Nat, NEW rw \in Nat,
         NEW w \in Nat, NEW ww \in Nat, NEW S \in SUBSET Nat,
         Sound(wr, r, rr, rw, w, ww, S), rtReading # rtWriting
  PROVE /\ rr # ww /\ Laid(rr, S, ww) /\ rr + mem[rr % N].num \in S
        /\ rr < rr + mem[rr % N].num /\ rr + mem[rr % N].num <= rw
        /\ Behind(rtReading) = (rr + mem[rr % N].num) % W
  <1>1. /\ rtReading = rr % W /\ rtWriting = rw % W /\ rr <= rw /\ rw <= ww
    BY DEF Sound, Positions
  <1>2. rr # rw /\ rr # ww BY <1>1
  <1>3. rr \in S /\ rw \in S /\ rr \in S \ {ww} BY <1>2 DEF Sound, Chunks
  <1>4. Laid(rr, S, ww) BY <1>3 DEF Sound, Chunks
  <1> DEFINE n == mem[rr % N].num
  <1>5. n \in Nat /\ n > 0 BY <1>4, LaidSize
  <1>6. rr + n \in S /\ (rw <= rr \/ rr + n <= rw) BY <1>3, <1>4 DEF Laid
  <1>7. Behind(rtReading) = (rr + n) % W
    <2>1. (rr % W) % N = rr % N BY SameBlock
    <2>2. ((rr % W) + n) % W = (rr + n) % W
      <3> HIDE DEF n
      <3> QED BY <1>5, CursorPlus
    <2> QED BY <1>1, <2>1, <2>2 DEF Behind
  <1> QED BY <1>1, <1>2, <1>4, <1>5, <1>6, <1>7

LEMMA ReaderStep == ASSUME SisoInv, Reader PROVE SisoInv'
  <1>1. PICK wr \in Nat, r \in Nat, rr \in Nat, rw \in Nat, w \in Nat, ww \in Nat,
             S \in SUBSET Nat : Sound(wr, r, rr, rw, w, ww, S)
    BY DEF SisoInv
  <1>2. /\ TypeOK /\ Positions(wr, r, rr, rw, w, ww) /\ ReaderSound
        /\ r \in S /\ rr \in S /\ rw \in S /\ w \in S
    BY <1>1 DEF SisoInv, Sound, Chunks
  <1>3. /\ reading = r % W /\ rtReading = rr % W /\ rtWriting = rw % W /\ writing = w % W
        /\ r <= rr /\ rr <= rw /\ rw <= w /\ end \in Cursors
    BY <1>2 DEF Positions, TypeOK
  <1>4. PICK x \in S : Seen = x % W /\ rr <= x /\ x <= w BY <1>1, SeenPosition
  <1> DEFINE Rest == <<mem, writing, wtReading, wtWriting, pc, size, sent, crashes>>
  <1> DEFINE Goes(a, b, c) ==
        /\ a <= b /\ b <= c /\ c <= w /\ UNCHANGED Rest
        /\ reading' = a % W /\ rtReading' = b % W /\ rtWriting' = c % W
        /\ end' \in Cursors /\ rpc' \in {"idle", "one", "batch", "publish"} /\ ReaderSound'
  <1>4a. ASSUME NEW a \in S, NEW b \in S, NEW c \in S, Goes(a, b, c) PROVE SisoInv'
    BY <1>1, <1>2, <1>4a, ReaderMoves
  <1>5. CASE ReadOne
    <2>1. /\ UNCHANGED Rest /\ reading' = r % W /\ rtReading' = rr % W /\ rtWriting' = x % W
          /\ end' \in Cursors /\ rpc' = "one"
      BY <1>3, <1>4, <1>5 DEF ReadOne
    <2>2. ReaderSound' BY <1>5 DEF ReadOne, ReaderSound
    <2>4. Goes(r, rr, x) BY <1>3, <1>4, <2>1, <2>2
    <2> QED BY <1>2, <2>4, <1>4a
  <1>6. CASE BatchRead
    <2>1. /\ UNCHANGED Rest /\ reading' = r % W /\ rtReading' = rr % W /\ rtWriting' = x % W
          /\ end' = x % W /\ rpc' = "batch"
      BY <1>3, <1>4, <1>6 DEF BatchRead
    <2>2. ReaderSound' BY <1>6 DEF BatchRead, ReaderSound
    <2>3. end' \in Cursors BY <2>1, InCursors
    <2>4. Goes(r, rr, x) BY <1>3, <1>4, <2>1, <2>2, <2>3
    <2> QED BY <1>2, <2>4, <1>4a
  <1>7. CASE Discard \/ ReturnBatch
    <2>1. /\ UNCHANGED Rest /\ reading' = r % W /\ rtReading' = rr % W /\ rtWriting' = rw % W
          /\ end' \in Cursors /\ rpc' \in {"idle", "publish"}
      BY <1>3, <1>7 DEF Discard, ReturnBatch, cursors
    <2>2. ReaderSound' BY <2>1 DEF ReaderSound
    <2>4. Goes(r, rr, rw) BY <1>2, <1>3, <2>1, <2>2
    <2> QED BY <1>2, <2>4, <1>4a
  <1>8. CASE Traverse
    <2>1. /\ UNCHANGED Rest /\ reading' = r % W /\ rtReading' = rr % W /\ rtWriting' = w % W
          /\ end' \in Cursors /\ rpc' = "idle" /\ rr <= w
      BY <1>3, <1>8 DEF Traverse
    <2>2. ReaderSound' BY <2>1 DEF ReaderSound
    <2>4. Goes(r, rr, w) BY <1>2, <1>3, <2>1, <2>2
    <2> QED BY <1>2, <2>4, <1>4a
  <1>9. CASE PublishRead
    <2>1. /\ UNCHANGED Rest /\ reading' = rr % W /\ rtReading' = rr % W
          /\ rtWriting' = rw % W /\ end' \in Cursors /\ rpc' = "idle"
      BY <1>3, <1>9 DEF PublishRead
    <2>2. ReaderSound' BY <2>1 DEF ReaderSound
    <2>4. Goes(rr, rr, rw) BY <1>2, <1>3, <2>1, <2>2
    <2> QED BY <1>2, <2>4, <1>4a
  <1>10. CASE Return \/ NextOfBatch
    <2>1. rtReading # rtWriting BY <1>2, <1>10 DEF Return, NextOfBatch, ReaderSound
    <2>2. PICK y \in S : rr <= y /\ y <= rw /\ Behind(rtReading) = y % W
      <3> DEFINE y == rr + mem[rr % N].num
      <3>1. y \in S /\ rr < y /\ y <= rw /\ Behind(rtReading) = y % W
        BY <1>1, <1>2, <2>1, NextChunk
      <3> HIDE DEF y
      <3>2. y \in Nat BY <3>1
      <3> QED BY <3>1, <3>2
    <2>3. /\ UNCHANGED Rest /\ reading' = r % W /\ rtReading' = y % W /\ rtWriting' = rw % W
          /\ end' \in Cursors /\ rpc' \in {"batch", "publish"}
          /\ rpc' = "batch" => rpc = "batch" /\ end' = end /\ rtWriting' = rtWriting
      BY <1>3, <1>10, <2>2 DEF Return, NextOfBatch
    <2>4. ReaderSound' BY <1>2, <2>3 DEF ReaderSound
    <2>5. Goes(r, y, rw) BY <1>2, <1>3, <2>2, <2>3, <2>4
    <2> QED BY <1>2, <2>2, <2>5, <1>4a
  <1> QED BY <1>5, <1>6, <1>7, <1>8, <1>9, <1>10 DEF Reader

-----------------------------------------------------------------------------

\* With all cursors at zero there is nothing to read.
LEMMA ResetStep ==
  ASSUME SisoInv, ResetCursors, UNCHANGED <<mem, sent>>,
         pc' \in {"idle", "gone"}, rpc' = "idle", size' \in {0} \cup Sizes,
         end' \in Cursors, crashes' \in 0..MaxCrashes
  PROVE SisoInv'
  <1>1. TypeOK /\ N \in Nat /\ W \in Nat /\ W > 0 BY SisoRingAssumption DEF SisoInv
  <1>2. 0 % W = 0
    <2>1. 0 = 0 + W * 0 BY <1>1
    <2> QED BY <1>1, <2>1, RemainderIs
  <1>3. Positions(0, 0, 0, 0, 0, 0)' BY <1>1, <1>2 DEF Positions, ResetCursors
  <1>4. Chunks(0, 0, 0, 0, 0, {0})' BY DEF Chunks
  <1>5. WriterSound(0, 0)' /\ ReaderSound' BY DEF WriterSound, ReaderSound
  <1>6. TypeOK'
    <2>1. 0 \in Cursors BY <1>1 DEF Cursors
    <2> QED BY <1>1, <2>1 DEF TypeOK, ResetCursors
  <1>7. Sound(0, 0, 0, 0, 0, 0, {0})' BY <1>3, <1>4, <1>5 DEF Sound
  <1> QED BY <1>6, <1>7, Witnessed

LEMMA RenewStep == ASSUME SisoInv, Renew PROVE SisoInv'
  <1>1. TypeOK BY DEF SisoInv
  <1> QED BY <1>1, ResetStep DEF Renew, TypeOK

LEMMA CrashStep == ASSUME SisoInv, Crash PROVE SisoInv'
  <1>1. PICK wr \in Nat, r \in Nat, rr \in Nat, rw \in Nat, w \in Nat, ww \in Nat,
             S \in SUBSET Nat : Sound(wr, r, rr, rw, w, ww, S)
    BY DEF SisoInv
  <1>2. TypeOK /\ Positions(wr, r, rr, rw, w, ww) /\ Chunks(r, rr, rw, w, ww, S)
    BY <1>1 DEF SisoInv, Sound
  <1>3. N \in Nat /\ W \in Nat /\ W > 0 /\ MaxCrashes \in Nat BY SisoRingAssumption
  <1>4. /\ pc' = "gone" /\ rpc' = "idle" /\ size' = 0 /\ end' = 0 /\ mem' = mem
        /\ sent' = sent /\ crashes' \in 0..MaxCrashes /\ end' \in Cursors
    BY <1>2, <1>3 DEF Crash, TypeOK, Cursors
  <1>5. CASE ResetCursors BY <1>4, <1>5, ResetStep
  <1>6. CASE TakeCursors
    <2> DEFINE T == {p \in S : rr <= p}
    <2>1. rr \in S /\ ww \in S /\ rr <= ww /\ ww <= rr + N
      BY <1>2, <1>3 DEF Positions, Chunks
    <2>2. Chunks(rr, rr, ww, ww, ww, T) BY <1>2, <2>1, CutChunks
    <2>3. \A x \in Nat : rr <= x /\ x < ww => mem'[x % N] = mem[x % N] BY <1>4
    <2>4. T \in SUBSET Nat OBVIOUS
    <2> HIDE DEF T
    <2>5. Chunks(rr, rr, ww, ww, ww, T)' BY <1>2, <1>4, <2>2, <2>3, <2>4, KeepChunks
    <2>6. Positions(rr, rr, rr, ww, ww, ww)' BY <1>2, <1>6, <2>1 DEF Positions, TakeCursors
    <2>7. WriterSound(rr, ww)' /\ ReaderSound' BY <1>4 DEF WriterSound, ReaderSound
    <2>8. TypeOK' BY <1>2, <1>4, <1>6 DEF TypeOK, TakeCursors
    <2>9. Sound(rr, rr, rr, ww, ww, ww, T)' BY <2>5, <2>6, <2>7 DEF Sound
    <2> QED BY <2>4, <2>8, <2>9, Witnessed
  <1> QED BY <1>5, <1>6 DEF Crash

LEMMA InitInv == Init => SisoInv
  <1> SUFFICES ASSUME Init PROVE SisoInv OBVIOUS
  <1>1. N \in Nat /\ N > 0 /\ W \in Nat /\ W > 0 /\ Rounds \in Nat /\ MaxCrashes \in Nat
    BY SisoRingAssumption
  <1>2. 0 % W = 0
    <2>1. 0 = 0 + W * 0 BY <1>1
    <2> QED BY <1>1, <2>1, RemainderIs
  <1>3. Positions(0, 0, 0, 0, 0, 0) BY <1>1, <1>2 DEF Positions, Init
  <1>4. Chunks(0, 0, 0, 0, 0, {0}) BY DEF Chunks
  <1>5. WriterSound(0, 0) /\ ReaderSound BY DEF WriterSound, ReaderSound, Init
  <1>6. TypeOK
    <2>1. 0 \in Cursors /\ 0 \in 0..Rounds /\ 0 \in 0..N /\ 0 \in 0..MaxCrashes
      BY <1>1 DEF Cursors
    <2>2. Data(0) \in [chunk : 0..Rounds, num : 0..N, size : {0} \cup Sizes]
      BY <2>1 DEF Data
    <2> QED BY <2>1, <2>2 DEF TypeOK, Init
  <1>7. Sound(0, 0, 0, 0, 0, 0, {0}) BY <1>3, <1>4, <1>5 DEF Sound
  <1> QED BY <1>6, <1>7 DEF SisoInv

LEMMA StepInv == ASSUME SisoInv, [Next]_vars PROVE SisoInv'
  <1>1. CASE UNCHANGED vars
    <2>1. PICK wr \in Nat, r \in Nat, rr \in Nat, rw \in Nat, w \in Nat, ww \in Nat,
               S \in SUBSET Nat : Sound(wr, r, rr, rw, w, ww, S)
      BY DEF SisoInv
    <2>2. TypeOK BY DEF SisoInv
    <2>3. TypeOK' BY <1>1, <2>2 DEF TypeOK, vars, cursors
    <2>4. Chunks(r, rr, rw, w, ww, S)'
      <3>1. Chunks(r, rr, rw, w, ww, S) /\ mem' = mem /\ sent' = sent
        BY <1>1, <2>1 DEF Sound, vars
      <3>2. \A x \in Nat : r <= x /\ x < ww => mem'[x % N] = mem[x % N] BY <3>1
      <3> QED BY <2>2, <3>1, <3>2, KeepChunks
    <2>5. Positions(wr, r, rr, rw, w, ww)' /\ WriterSound(wr, ww)' /\ ReaderSound'
      BY <1>1, <2>1 DEF Sound, Positions, WriterSound, ReaderSound, vars, cursors
    <2>6. Sound(wr, r, rr, rw, w, ww, S)' BY <2>4, <2>5 DEF Sound
    <2> QED BY <2>3, <2>6, Witnessed
  <1>2. CASE Writer
    BY <1>2, AllocStep, LowSpaceStep, FillStep, CommitStep, PublishStep DEF Writer
  <1> QED BY <1>1, <1>2, ReaderStep, RenewStep, CrashStep DEF Next

-----------------------------------------------------------------------------

\* SisoInv is an invariant: behind the cursors that wrap there are positions in
\* order, and the chunks up to the writer's lie one behind the other.
THEOREM SisoInvariant == Spec => []SisoInv
  <1>1. Init => SisoInv BY InitInv
  <1>2. SisoInv /\ [Next]_vars => SisoInv' BY StepInv
  <1> QED BY <1>1, <1>2, PTL DEF Spec

LEMMA InOrder == ASSUME SisoInv PROVE CursorsInOrder
  <1>1. PICK wr \in Nat, r \in Nat, rr \in Nat, rw \in Nat, w \in Nat, ww \in Nat,
             S \in SUBSET Nat : Sound(wr, r, rr, rw, w, ww, S)
    BY DEF SisoInv
  <1>2. Positions(wr, r, rr, rw, w, ww) BY <1>1 DEF Sound
  <1>3. N \in Nat /\ W \in Nat /\ W > 0 /\ N < W BY SisoRingAssumption
  <1>4. ASSUME NEW x \in Nat, wr <= x, x <= wr + N PROVE Dist(wtReading, x % W) = x - wr
    <2>0. 0 \in Nat /\ 0 <= x + 0 - wr /\ x + 0 - wr < W BY <1>3, <1>4
    <2>1. Dist(wr % W, (x % W) + 0) = x + 0 - wr BY <2>0, DistIs
    <2>2. x % W \in Nat BY <1>3, Division
    <2>3. (x % W) + 0 = x % W
      <3> DEFINE z == x % W
      <3>1. z \in Nat BY <2>2
      <3> HIDE DEF z
      <3>2. z + 0 = z BY <3>1
      <3> QED BY <3>2 DEF z
    <2>4. x + 0 - wr = x - wr OBVIOUS
    <2> QED BY <1>2, <2>1, <2>3, <2>4 DEF Positions
  <1>5. /\ wr <= r /\ r <= rr /\ rr <= rw /\ rw <= w /\ w <= ww /\ ww <= wr + N
        /\ reading = r % W /\ rtReading = rr % W /\ rtWriting = rw % W
        /\ writing = w % W /\ wtWriting = ww % W
    BY <1>2 DEF Positions
  <1>6. /\ wr <= rr /\ wr <= rw /\ wr <= w /\ wr <= ww
        /\ r <= wr + N /\ rr <= wr + N /\ rw <= wr + N /\ w <= wr + N
    BY <1>3, <1>5
  <1>7. /\ Dist(wtReading, reading) = r - wr /\ Dist(wtReading, rtReading) = rr - wr
        /\ Dist(wtReading, rtWriting) = rw - wr /\ Dist(wtReading, writing) = w - wr
        /\ Dist(wtReading, wtWriting) = ww - wr
    BY <1>4, <1>5, <1>6
  <1>8. r - wr <= rr - wr /\ rr - wr <= rw - wr /\ rw - wr <= w - wr /\ w - wr <= ww - wr
        /\ ww - wr <= N
    BY <1>3, <1>5
  <1> QED BY <1>7, <1>8 DEF CursorsInOrder

LEMMA Intact == ASSUME SisoInv PROVE UnreturnedIntact
  <1>1. PICK wr \in Nat, r \in Nat, rr \in Nat, rw \in Nat, w \in Nat, ww \in Nat,
             S \in SUBSET Nat : Sound(wr, r, rr, rw, w, ww, S)
    BY DEF SisoInv
  <1>2. /\ TypeOK /\ Positions(wr, r, rr, rw, w, ww) /\ Chunks(r, rr, rw, w, ww, S)
        /\ r \in S /\ ww \in S
    BY <1>1 DEF SisoInv, Sound, Chunks
  <1>3. N \in Nat /\ W \in Nat /\ W > 0 /\ N < W BY SisoRingAssumption
  <1>4. /\ reading = r % W /\ wtWriting = ww % W /\ r <= ww /\ ww <= r + N
    BY <1>2, <1>3 DEF Positions
  <1>5. Dist(reading, wtWriting) = ww - r
    <2>1. Dist(r % W, (ww % W) + 0) = ww + 0 - r BY <1>3, <1>4, DistIs
    <2> DEFINE z == ww % W
    <2>2. z \in Nat BY <1>3, Division
    <2> HIDE DEF z
    <2>3. z + 0 = z BY <2>2
    <2>4. (ww % W) + 0 = ww % W BY <2>3 DEF z
    <2>5. ww + 0 - r = ww - r OBVIOUS
    <2> QED BY <1>4, <2>1, <2>4, <2>5
  <1> DEFINE C == {p % W : p \in S}
  <1>6. ASSUME NEW p \in S PROVE p % W \in Unreturned
    <2> DEFINE i == p - r
    <2>1. i \in 0..(ww - r) /\ i \in Nat /\ p = r + i BY <1>2 DEF Chunks
    <2> HIDE DEF i
    <2>2. ((r % W) + i) % W = (r + i) % W BY <2>1, CursorPlus
    <2> QED BY <1>4, <1>5, <2>1, <2>2 DEF Unreturned
  <1>7. ASSUME NEW c \in C \ {wtWriting} PROVE Whole(c) /\ Behind(c) \in C
    <2>1. PICK p \in S : c = p % W OBVIOUS
    <2>2. p # ww /\ p \in Nat BY <1>4, <2>1
    <2>3. Laid(p, S, ww) BY <1>2, <2>2 DEF Chunks
    <2>4. c % N = p % N BY <2>1, <2>2, SameBlock
    <2>5. \A k : Need(c, k) = Need(p, k) /\ DataBlocks(c, k) = DataBlocks(p, k)
      BY <2>1, <2>2, SameChunk
    <2>6. Whole(p) /\ p + mem[p % N].num \in S BY <2>3 DEF Laid
    <2>7. Whole(c) BY <2>4, <2>5, <2>6 DEF Whole
    <2>8. PICK n \in Nat : n = mem[p % N].num BY <1>2, <2>2, BlockType
    <2>9. Behind(c) = (p + n) % W
      <3>1. ((p % W) + n) % W = (p + n) % W BY <2>2, <2>8, CursorPlus
      <3> QED BY <2>1, <2>4, <2>8, <3>1 DEF Behind
    <2> QED BY <2>6, <2>7, <2>8, <2>9
  <1>8. C \in SUBSET Unreturned BY <1>6
  <1>9. {reading, wtWriting} \subseteq C BY <1>2, <1>4
  <1> HIDE DEF C
  <1> QED BY <1>7, <1>8, <1>9 DEF UnreturnedIntact

\* The published cursors and their copies never get out of order or more than a
\* turn apart, and no chunk is overwritten, in its header or its data, before
\* the reader has given it back: through laps of the cursors, chunks over the
\* end of the memory, reuse of the ring and crashes.
THEOREM ChunksStayWhole == Spec => []NothingIsOverwritten
  <1>1. SisoInv => NothingIsOverwritten BY InOrder, Intact DEF NothingIsOverwritten
  <1> QED BY <1>1, SisoInvariant, PTL

\* The types of the ring's state.
THEOREM SisoTypes == Spec => []TypeOK
  <1>1. SisoInv => TypeOK BY DEF SisoInv
  <1> QED BY <1>1, SisoInvariant, PTL

-----------------------------------------------------------------------------

\* Recovery gets over the chunks when the writer's cursor has not wrapped past
\* the reader's.
LEMMA RecoveryWorks == ASSUME SisoInv, rtReading <= wtWriting PROVE Recovered
  <1>1. PICK wr \in Nat, r \in Nat, rr \in Nat, rw \in Nat, w \in Nat, ww \in Nat,
             S \in SUBSET Nat : Sound(wr, r, rr, rw, w, ww, S)
    BY DEF SisoInv
  <1>2. /\ TypeOK /\ Positions(wr, r, rr, rw, w, ww) /\ Chunks(r, rr, rw, w, ww, S)
        /\ rr \in S /\ ww \in S
    BY <1>1 DEF SisoInv, Sound, Chunks
  <1>3. N \in Nat /\ W \in Nat /\ W > 0 /\ N < W BY SisoRingAssumption
  <1>4. /\ rtReading = rr % W /\ wtWriting = ww % W /\ rr <= ww /\ ww <= rr + N
        /\ rtReading \in 0..(W - 1) /\ wtWriting \in 0..(W - 1)
    BY <1>2, <1>3 DEF Positions, TypeOK, Cursors
  <1>5. PICK e \in Int : e % W = 0 /\ rr = rtReading + e /\ ww = wtWriting + e
                         /\ \E k \in Int : e = W * k
    <2>1. PICK a \in Int, b \in Int : rr = rtReading + W * a /\ ww = wtWriting + W * b
      BY <1>3, <1>4, Division
    <2> DEFINE d == b - a
    <2>2. d \in Int /\ ww - rr = (wtWriting - rtReading) + W * d BY <1>3, <1>4, <2>1
    <2> HIDE DEF d
    <2>3. CASE d >= 1
      <3>1. W * d >= W BY <1>3, <2>2, <2>3
      <3> QED BY <1>3, <1>4, <2>2, <3>1
    <2>4. CASE d <= -1
      <3>1. W * d <= -W BY <1>3, <2>2, <2>4
      <3> QED BY <1>3, <1>4, <2>2, <3>1
    <2>5. CASE d = 0
      <3>1. a = b BY <2>1, <2>5 DEF d
      <3>2. PICK e \in Int : e = W * a BY <1>3
      <3>3. e = 0 + W * a BY <1>3, <3>2
      <3>4. e % W = 0 BY <1>3, <3>3, RemainderIs
      <3> QED BY <2>1, <3>1, <3>2, <3>4
    <2> QED BY <2>2, <2>3, <2>4, <2>5
  <1>6. PICK k \in Int : e = W * k BY <1>5
  <1> DEFINE U == {c \in rtReading..wtWriting : c + e \in S}
  <1>7. ASSUME NEW c \in U \ {wtWriting}
        PROVE  LET h == mem[c % N]
               IN  h.num > 0 /\ h.num = Need(c, h.size) /\ c + h.num \in U
    <2>0. c \in rtReading..wtWriting /\ c # wtWriting OBVIOUS
    <2>1. PICK p \in S : p = c + e OBVIOUS
    <2>2. /\ p \in Nat /\ p # ww /\ c \in Int /\ 0 <= c /\ c < W
          /\ rtReading <= c /\ c <= wtWriting
      <3>1. rtReading \in Int /\ wtWriting \in Int /\ wtWriting < W /\ 0 <= rtReading
        BY <1>3, <1>4
      <3>2. c \in Int /\ rtReading <= c /\ c <= wtWriting /\ c # wtWriting BY <2>0, <3>1
      <3>3. e \in Int /\ ww = wtWriting + e BY <1>5
      <3>4. p # ww BY <2>1, <3>1, <3>2, <3>3
      <3>5. 0 <= c /\ c < W BY <1>3, <3>1, <3>2
      <3> QED BY <3>2, <3>4, <3>5
    <2>3. p = c + W * k BY <1>6, <2>1
    <2>4. p % W = c
      <3>1. p \in Int BY <2>2
      <3> HIDE DEF U
      <3> QED BY <1>3, <2>2, <2>3, <3>1, RemainderIs
    <2>5. Laid(p, S, ww) BY <1>2, <2>2 DEF Chunks
    <2>6. c % N = p % N /\ \A j : Need(c, j) = Need(p, j)
      BY <2>2, <2>4, SameBlock, SameChunk
    <2>7. PICK n \in Nat : n = mem[p % N].num BY <1>2, <2>2, BlockType
    <2>8. n > 0 /\ n = Need(p, mem[p % N].size) /\ p + n \in S
      BY <2>5, <2>7 DEF Laid, Whole
    <2>9. p + n <= ww BY <1>2, <2>8 DEF Chunks
    <2>10. c + n \in U BY <1>4, <1>5, <2>1, <2>2, <2>8, <2>9
    <2> HIDE DEF U
    <2> QED BY <2>6, <2>7, <2>8, <2>10
  <1>8. {rtReading, wtWriting} \subseteq U BY <1>2, <1>4, <1>5
  <1>9. U \in SUBSET (rtReading..wtWriting) OBVIOUS
  <1> HIDE DEF U
  <1>10. Walks(U) BY <1>7, <1>8 DEF Walks
  <1>11. Dist(rtReading, wtWriting) <= N
    <2>1. 0 \in Nat /\ 0 <= ww + 0 - rr /\ ww + 0 - rr < W BY <1>3, <1>4
    <2>2. Dist(rr % W, (ww % W) + 0) = ww + 0 - rr BY <2>1, DistIs
    <2>3. (ww % W) + 0 = ww % W BY <1>4
    <2>4. ww + 0 - rr <= N BY <1>3, <1>4
    <2> QED BY <1>4, <2>2, <2>3, <2>4
  <1> QED BY <1>9, <1>10, <1>11 DEF Recovered

\* A position and its cursor tell the same of what is there.
Tells(y, ww) ==
    /\ y = ww <=> y % W = wtWriting
    /\ mem[(y % W) % N] = mem[y % N]

\* What the chunk that is next says of how many were taken.
LEMMA TakenNext ==
  ASSUME TypeOK, NEW wr \in Nat, NEW r \in Nat, NEW rr \in Nat, NEW rw \in Nat,
         NEW w \in Nat, NEW ww \in Nat, NEW S \in SUBSET Nat,
         Sound(wr, r, rr, rw, w, ww, S), NEW y \in S, rr <= y
  PROVE Tells(y, ww)
  <1>1. N \in Nat /\ W \in Nat /\ N < W BY SisoRingAssumption
  <1>2. /\ wtWriting = ww % W /\ y \in Nat /\ y <= ww /\ rr <= ww /\ ww <= rr + N
    BY <1>1 DEF Sound, Positions, Chunks
  <1>3. ww - y < W BY <1>1, <1>2
  <1>4. y = ww <=> y % W = wtWriting BY <1>2, <1>3, SamePosition
  <1>5. (y % W) % N = y % N BY <1>2, SameBlock
  <1> QED BY <1>4, <1>5 DEF Tells

\* The reader goes on: one more is taken, and it was there.
LEMMA TakeStep ==
  ASSUME SisoInv, rtReading # rtWriting, rtReading' = Behind(rtReading),
         UNCHANGED <<mem, wtWriting, sent>>
  PROVE Taken < sent /\ Taken' = Taken + 1
  <1>1. PICK wr \in Nat, r \in Nat, rr \in Nat, rw \in Nat, w \in Nat, ww \in Nat,
             S \in SUBSET Nat : Sound(wr, r, rr, rw, w, ww, S)
    BY DEF SisoInv
  <1>2. TypeOK /\ rr \in S /\ rtReading = rr % W /\ wtWriting = ww % W /\ sent \in Nat
    BY <1>1, SisoRingAssumption DEF SisoInv, Sound, Chunks, Positions, TypeOK
  <1>3. /\ rr # ww /\ Laid(rr, S, ww) /\ rr + mem[rr % N].num \in S
        /\ rr < rr + mem[rr % N].num
        /\ Behind(rtReading) = (rr + mem[rr % N].num) % W
    BY <1>1, <1>2, NextChunk
  <1>4. PICK y \in S : y = rr + mem[rr % N].num BY <1>3
  <1>5. PICK m \in Nat : m = mem[rr % N].chunk BY <1>2, BlockType
  <1>6. m \in 1..sent /\ (y = ww => m = sent) /\ (y # ww => mem[y % N].chunk = m + 1)
    BY <1>3, <1>4, <1>5 DEF Laid
  <1>7. Taken = m - 1
    <2>1. rr <= rr OBVIOUS
    <2>2. Tells(rr, ww) BY <1>1, <1>2, <2>1, TakenNext
    <2> QED BY <1>2, <1>3, <1>5, <2>2 DEF Taken, Tells
  <1>8. Taken' = m
    <2>1. rr <= y /\ rtReading' = y % W BY <1>3, <1>4
    <2>2. Tells(y, ww) BY <1>1, <1>2, <2>1, TakenNext
    <2>3. CASE y = ww BY <1>6, <2>1, <2>2, <2>3 DEF Taken, Tells
    <2>4. CASE y # ww
      <3>1. Taken' = mem[(y % W) % N].chunk - 1 BY <2>1, <2>2, <2>4 DEF Taken, Tells
      <3>2. mem[(y % W) % N].chunk = m + 1 BY <1>6, <2>2, <2>4 DEF Tells
      <3> QED BY <1>5, <3>1, <3>2
    <2> QED BY <2>3, <2>4
  <1> QED BY <1>2, <1>6, <1>7, <1>8

LEMMA CommitTakes == ASSUME SisoInv, Commit PROVE Taken' = Taken
  <1>1. PICK wr \in Nat, r \in Nat, rr \in Nat, rw \in Nat, w \in Nat, ww \in Nat,
             S \in SUBSET Nat : Sound(wr, r, rr, rw, w, ww, S)
    BY DEF SisoInv
  <1>2. /\ TypeOK /\ rr \in S /\ rtReading = rr % W /\ wtWriting = ww % W /\ rr <= ww
        /\ N \in Nat /\ W \in Nat /\ W > 0 /\ N < W
        /\ wr <= rr /\ r <= ww /\ rw <= ww
    BY <1>1, SisoRingAssumption DEF SisoInv, Sound, Chunks, Positions
  <1>3. /\ size \in Sizes /\ mem[ww % N] = Header(sent + 1, Need(ww, size), size)
        /\ ww + Need(ww, size) <= wr + N
    BY <1>1 DEF Commit, Sound, WriterSound
  <1>4. PICK n \in Nat : n = Need(ww, size) /\ n > 0 BY <1>3, NeedType, SisoRingAssumption
  <1>5. wtWriting % N = ww % N BY <1>2, SameBlock
  <1>6. wtWriting' = (ww + n) % W
    <2>1. wtWriting' = (wtWriting + n) % W BY <1>3, <1>4, <1>5 DEF Commit, Header
    <2>2. ((ww % W) + n) % W = (ww + n) % W BY CursorPlus
    <2> QED BY <1>2, <2>1, <2>2
  <1>7. PICK v \in Nat : v = ww + n BY <1>4
  <1>8. rr < v /\ v - rr < W BY <1>2, <1>3, <1>4, <1>7
  <1>9. rr % W # v % W BY <1>8, <1>2, RemaindersDiffer
  <1>10. rtReading' # wtWriting' /\ mem' = mem /\ rtReading' = rtReading /\ sent' = sent + 1
    BY <1>2, <1>6, <1>7, <1>9 DEF Commit
  <1>11. Taken' = mem[rtReading % N].chunk - 1 BY <1>10 DEF Taken
  <1>12. CASE rtReading = wtWriting
    <2>1. mem[rtReading % N].chunk = sent + 1 BY <1>3, <1>5, <1>12 DEF Header
    <2>2. sent \in Nat BY <1>2, SisoRingAssumption DEF TypeOK
    <2> QED BY <1>11, <1>12, <2>1, <2>2 DEF Taken
  <1>13. CASE rtReading # wtWriting BY <1>11, <1>13 DEF Taken
  <1> QED BY <1>12, <1>13

\* A step logs a chunk, hands one out, or does neither.
StreamMoves ==
    \/ sent' = sent /\ Taken' = Taken
    \/ sent < Rounds /\ sent' = sent + 1 /\ Taken' = Taken
    \/ Taken < sent /\ Taken' = Taken + 1 /\ sent' = sent

LEMMA StreamStep ==
  ASSUME SisoInv, LateCrash = FALSE, [Next]_vars
  PROVE StreamMoves
  <1> USE DEF StreamMoves
  <1>1. CASE UNCHANGED vars BY <1>1 DEF vars, cursors, Taken
  <1>2. ASSUME NEW k \in Sizes, Alloc(k) PROVE StreamMoves
    BY <1>2, AllocStep DEF Alloc
  <1>3. CASE LowSpace BY <1>3, LowSpaceStep DEF LowSpace
  <1>4. CASE Fill BY <1>4, FillStep DEF Fill
  <1>5. CASE Commit
    <2>1. sent < Rounds BY <1>5 DEF SisoInv, Sound, WriterSound, Commit
    <2> QED BY <1>5, <2>1, CommitTakes DEF Commit
  <1>6. CASE Publish BY <1>6, PublishStep DEF Publish
  <1>7. CASE ReadOne \/ Discard \/ BatchRead \/ ReturnBatch \/ PublishRead \/ Traverse
    BY <1>7 DEF ReadOne, Discard, BatchRead, ReturnBatch, PublishRead, Traverse, cursors, Taken
  <1>8. CASE Return \/ NextOfBatch
    <2>1. rtReading # rtWriting
      BY <1>8 DEF SisoInv, Sound, ReaderSound, Return, NextOfBatch
    <2> QED BY <1>8, <2>1, TakeStep DEF Return, NextOfBatch
  <1>9. CASE Renew
    BY <1>9 DEF Renew, ResetCursors, Taken
  <1>10. CASE Crash
    <2>1. rtReading <= wtWriting BY <1>10 DEF Crash, InTime
    <2>2. Recovered BY <2>1, RecoveryWorks
    <2> QED BY <1>10, <2>2 DEF Crash, TakeCursors, Taken
  <1> QED
    BY <1>1, <1>2, <1>3, <1>4, <1>5, <1>6, <1>7, <1>8, <1>9, <1>10
    DEF Next, Writer, Reader

\* The ring implements the stream: the chunks come out in the order of their
\* commits, each once and none left out, one by one and in batches, through
\* reuse, and through crashes that come before the writer's cursor has wrapped
\* past the reader's.
THEOREM RingImplementsStream == LateCrash = FALSE => (Spec => ImplementsStream)
  <1> SUFFICES ASSUME LateCrash = FALSE PROVE Spec => ImplementsStream OBVIOUS
  <1>1. Init => Stream!Init
    BY DEF Init, Stream!Init, Taken
  <1>2. SisoInv /\ [Next]_vars => [Stream!Next]_(Stream!vars)
    <2> HAVE SisoInv /\ [Next]_vars
    <2>1. StreamMoves BY StreamStep
    <2>2. CASE sent' = sent /\ Taken' = Taken BY <2>2 DEF Stream!vars
    <2>3. CASE sent < Rounds /\ sent' = sent + 1 /\ Taken' = Taken
      <3>1. Stream!Log("writer") BY <2>3 DEF Stream!Log
      <3> QED BY <3>1 DEF Stream!Next
    <2>4. CASE Taken < sent /\ Taken' = Taken + 1 /\ sent' = sent
      <3>1. Stream!HandOut("writer") BY <2>4 DEF Stream!HandOut
      <3> QED BY <3>1 DEF Stream!Next
    <2> QED BY <2>1, <2>2, <2>3, <2>4 DEF StreamMoves
  <1> QED BY <1>1, <1>2, SisoInvariant, PTL DEF Spec, ImplementsStream, Stream!Spec
=============================================================================
