--------------------------- MODULE MisoRingProofs ---------------------------
EXTENDS MisoRingRefinement, SequenceTheorems, FiniteSetTheorems, TLAPS

LEMMA SlotInIndex == ASSUME NEW c \in Nat PROVE Slot(c) \in Index
  BY RingAssumption DEF Slot, Index

LEMMA SlotInjective ==
  ASSUME NEW a \in Nat, NEW b \in Nat, a <= b, b - a < N, Slot(a) = Slot(b)
  PROVE a = b
  <1> DEFINE k == (b \div N) - (a \div N)
  <1>1. N \in Nat /\ N > 0 BY RingAssumption
  <1>2. a = N * (a \div N) + Slot(a) /\ b = N * (b \div N) + Slot(b)
    BY <1>1 DEF Slot
  <1>3. a \div N \in Int /\ b \div N \in Int /\ Slot(a) \in Int BY <1>1 DEF Slot
  <1>4. k \in Int /\ b - a = N * k BY <1>1, <1>2, <1>3
  <1>5. CASE k <= 0 
    <2>1. N * k <= 0 BY <1>1, <1>4, <1>5
    <2> QED BY <1>4, <2>1
  <1>6. CASE k >= 1
    <2>1. N * k >= N BY <1>1, <1>4, <1>6
    <2> QED BY <1>4, <2>1, <1>1
  <1> QED BY <1>4, <1>5, <1>6

LEMMA DistExact ==
  ASSUME NEW a \in Nat, NEW b \in Nat, b <= a, a - b < W
  PROVE Dist(a, b) = a - b
  BY RingAssumption DEF Dist

-----------------------------------------------------------------------------

USE DEF NoRef

LEMMA HeadBlockType ==
  ASSUME TypeOK
  PROVE HeadBlock \in [status : Status, num : Nat, chunk : Chunks \cup {NoChunk}]
  BY SlotInIndex DEF TypeOK, HeadBlock

LEMMA TypeStep ==
  ASSUME TypeOK, ThreadInv, [Next]_vars
  PROVE TypeOK'
  <1> USE DEF TypeOK
  <1> SUFFICES ASSUME Next PROVE TypeOK'
    BY DEF vars, producerVars, readerVars
  <1>1. ASSUME NEW p \in Producers, AllocBegin(p) PROVE TypeOK'
    BY <1>1, RingAssumption DEF AllocBegin, Goto, readerVars
  <1>2. ASSUME NEW p \in Producers, TakeReference(p) PROVE TypeOK'
    BY <1>2 DEF TakeReference, Goto, readerVars
  <1>3. ASSUME NEW p \in Producers, CheckAgain(p) PROVE TypeOK'
    BY <1>3 DEF CheckAgain, Goto, readerVars
  <1>4. ASSUME NEW p \in Producers, FetchAdd(p) PROVE TypeOK'
    BY <1>4 DEF FetchAdd, Goto, readerVars
  <1>5. ASSUME NEW p \in Producers, LookAgain(p) PROVE TypeOK'
    BY <1>5 DEF LookAgain, Goto, readerVars
  <1>6. ASSUME NEW p \in Producers, FallBack(p) PROVE TypeOK'
    BY <1>6 DEF FallBack, Goto, readerVars
  <1>7. ASSUME NEW p \in Producers, LeaveGap(p) PROVE TypeOK'
    BY <1>7, SlotInIndex DEF LeaveGap, Goto, readerVars, NewHeader, Status
  <1>8. ASSUME NEW p \in Producers, AllocReturn(p) PROVE TypeOK'
    <2>1. ref' \in [Producers -> Nat \cup {NoRef}]
      BY <1>8 DEF AllocReturn
    <2>2. block' \in [Index -> [status : Status, num : Nat,
                               chunk : Chunks \cup {NoChunk}]]
      BY <1>8, SlotInIndex DEF AllocReturn, NewHeader, Status
    <2> QED BY <1>8, <2>1, <2>2 DEF AllocReturn, Goto, readerVars
  <1>9. ASSUME NEW p \in Producers, Fill(p) PROVE TypeOK'
    <2>1. ChunkOf(p) \in Chunks
      BY <1>9, RingAssumption DEF Fill, ThreadInv, ChunkOf, Chunks
    <2>2. block' \in [Index -> [status : Status, num : Nat,
                               chunk : Chunks \cup {NoChunk}]]
      BY <1>9, <2>1 DEF Fill, Status
    <2> QED BY <1>9, <2>2 DEF Fill, Goto, readerVars
  <1>10. ASSUME NEW p \in Producers, Commit(p) PROVE TypeOK'
    <2>1. block' \in [Index -> [status : Status, num : Nat,
                               chunk : Chunks \cup {NoChunk}]]
      BY <1>10, SlotInIndex DEF Commit, Status
    <2>2. sent' \in [Producers -> 0..Rounds]
      BY <1>10, RingAssumption DEF Commit, ThreadInv
    <2> QED BY <1>10, <2>1, <2>2 DEF Commit, Goto, readerVars
  <1>11. ASSUME Reader PROVE TypeOK'
    <2> USE HeadBlockType, SlotInIndex DEF producerVars, Status
    <2>1. CASE ReadGap BY <2>1 DEF ReadGap
    <2>2. CASE StepOverGap BY <2>2 DEF StepOverGap
    <2>3. CASE ReadUsed BY <2>3 DEF ReadUsed
    <2>4. CASE ReadUnused BY <2>4 DEF ReadUnused
    <2>5. CASE ReadNothing BY <2>5 DEF ReadNothing
    <2>6. ASSUME NEW c \in Nat, NEW b \in BOOLEAN, FreeUpTo(c, b)
          PROVE /\ cacheCursor' \in Nat /\ startCursor' \in Nat /\ readCursor' \in Nat
                /\ block' \in [Index -> [status : Status, num : Nat,
                                         chunk : Chunks \cup {NoChunk}]]
      <3>1. CASE b /\ c # startCursor
        <4>1. \A i \in Index : [block[i] EXCEPT !.status = "unused"]
                \in [status : Status, num : Nat, chunk : Chunks \cup {NoChunk}]
          OBVIOUS
        <4> QED BY <2>6, <3>1, <4>1 DEF FreeUpTo
      <3>2. CASE ~(b /\ c # startCursor) BY <2>6, <3>2 DEF FreeUpTo
      <3> QED BY <3>1, <3>2
    <2>7. CASE ReturnChunk
      <3> DEFINE c == cacheCursor + HeadBlock.num
                 b == Dist(c, startCursor) >= N \div 4
      <3>1. c \in Nat /\ b \in BOOLEAN /\ FreeUpTo(c, b) BY <2>7 DEF ReturnChunk
      <3> QED BY <2>6, <2>7, <3>1 DEF ReturnChunk
    <2>8. CASE ReturnEmpty BY <2>6, <2>8 DEF ReturnEmpty
    <2>9. CASE Discard BY <2>9 DEF Discard
    <2> QED BY <1>11, <2>1, <2>2, <2>3, <2>4, <2>5, <2>7, <2>8, <2>9 DEF Reader, Read
  <1> QED
    BY <1>1, <1>2, <1>3, <1>4, <1>5, <1>6, <1>7, <1>8, <1>9, <1>10, <1>11
    DEF Next, Proceed

-----------------------------------------------------------------------------

\* Two cursors of the window name different blocks.
LEMMA WindowSlots ==
  ASSUME TypeOK
  PROVE /\ Window \subseteq Nat
        /\ \A c \in Window : Slot(c) \in Index
        /\ \A c, d \in Window : Slot(c) = Slot(d) => c = d
  <1>1. Window \subseteq Nat BY RingAssumption DEF TypeOK, Window
  <1>2. \A c \in Window : Slot(c) \in Index BY <1>1, SlotInIndex
  <1>3. ASSUME NEW c \in Window, NEW d \in Window, Slot(c) = Slot(d) PROVE c = d
    <2>1. c - d < N /\ d - c < N BY RingAssumption DEF TypeOK, Window
    <2>2. CASE c <= d BY <1>1, <1>3, <2>1, <2>2, SlotInjective
    <2>3. CASE d <= c BY <1>1, <1>3, <2>1, <2>3, SlotInjective
    <2> QED BY <1>1, <2>2, <2>3
  <1> QED BY <1>1, <1>2, <1>3

\* A step of a thread that touches neither the memory nor the cursors, and
\* after which nobody holds what it did not hold before.
LEMMA SameMemory ==
  ASSUME IInv,
         UNCHANGED <<writeCursor, readCursor, cacheCursor, startCursor, block>>,
         \A q \in Producers : Holds(q)' =>
            Holds(q) /\ cur'[q] = cur[q] /\ need'[q] = need[q],
         \A q \in Producers : pc'[q] \in {"over", "back", "mine", "filling"} =>
            pc[q] \in {"over", "back", "mine", "filling"},
         \A q \in Producers : pc'[q] \in {"filling", "filled"} =>
            pc[q] \in {"filling", "filled"}
  PROVE /\ rpc' = rpc => ReaderInv'
        /\ ReservationsApart' /\ HeadersApart' /\ FreshBlocks'
  <1> USE DEF NextCursor
  <1>1. \A q \in Producers : Holds(q)' => NextCursor(q)' = NextCursor(q) OBVIOUS
  <1>2. Window' = Window /\ (\A c : Header(c)' <=> Header(c))
        /\ (\A c : BlockAt(c)' = BlockAt(c)) /\ HeadBlock' = HeadBlock
    BY DEF Window, Header, BlockAt, HeadBlock
  <1>3. rpc' = rpc => ReaderInv'
    BY <1>1, <1>2 DEF IInv, ReaderInv
  <1>4. ReservationsApart' BY <1>1 DEF IInv, ReservationsApart
  <1>5. HeadersApart'
    BY <1>1, <1>2 DEF IInv, HeadersApart, ClearOfThreads
  <1>6. FreshBlocks' BY <1>1, <1>2 DEF IInv, FreshBlocks, Holds
  <1> QED BY <1>3, <1>4, <1>5, <1>6

\* The order of the cursors that the invariant gives for one thread.
LEMMA CursorOrder ==
  ASSUME IInv
  PROVE /\ writeCursor \in Nat /\ readCursor \in Nat /\ cacheCursor \in Nat
        /\ readCursor <= cacheCursor /\ cacheCursor <= writeCursor
        /\ writeCursor - readCursor < W
        /\ \A q \in Producers :
              /\ need[q] \in Nat /\ cur[q] \in Nat /\ NextCursor(q) \in Nat
              /\ ref[q] \in Nat \cup {NoRef}
              /\ pc[q] # "idle" => need[q] > 0
              /\ ref[q] # NoRef => ref[q] <= readCursor
              /\ Holds(q) => /\ cacheCursor <= cur[q] /\ cur[q] < NextCursor(q)
                             /\ NextCursor(q) <= writeCursor
  <1>1. TypeOK /\ ReaderInv /\ ThreadInv BY DEF IInv
  <1>2. /\ writeCursor \in Nat /\ readCursor \in Nat /\ cacheCursor \in Nat
        /\ \A q \in Producers : /\ need[q] \in Nat /\ cur[q] \in Nat
                                /\ ref[q] \in Nat \cup {NoRef}
    BY <1>1 DEF TypeOK
  <1>3. /\ readCursor <= cacheCursor /\ cacheCursor <= writeCursor
        /\ writeCursor - readCursor < W
    BY <1>1 DEF ReaderInv
  <1>4. \A q \in Producers :
          /\ pc[q] # "idle" => need[q] > 0
          /\ ref[q] # NoRef => ref[q] <= readCursor
          /\ Holds(q) => cacheCursor <= cur[q] /\ NextCursor(q) <= writeCursor
          /\ Holds(q) => pc[q] # "idle"
    BY <1>1 DEF ThreadInv, Holds
  <1> QED BY <1>2, <1>3, <1>4 DEF NextCursor

\* The steps of alloc before fetch_add, and the look at the read cursor in the
\* fall-back loop.
LEMMA CheckStep ==
  ASSUME IInv, NEW p \in Producers,
         AllocBegin(p) \/ TakeReference(p) \/ CheckAgain(p)
  PROVE ReaderInv' /\ ThreadInv' /\ ReservationsApart' /\ HeadersApart' /\ FreshBlocks'
  <1> USE DEF Goto, Holds, Owns, readerVars
  <1>1. CASE AllocBegin(p)
    <2>1. ThreadInv'
      BY <1>1, RingAssumption DEF AllocBegin, IInv, TypeOK, ThreadInv, NextCursor
    <2> QED BY <1>1, <2>1, SameMemory DEF AllocBegin, IInv, TypeOK
  <1>2. CASE TakeReference(p)
    <2>1. ThreadInv' BY <1>2 DEF TakeReference, IInv, TypeOK, ThreadInv, NextCursor
    <2> QED BY <1>2, <2>1, SameMemory DEF TakeReference, IInv, TypeOK
  <1>3. CASE CheckAgain(p)
    <2>1. ThreadInv' BY <1>3 DEF CheckAgain, IInv, TypeOK, ThreadInv, NextCursor
    <2> QED BY <1>3, <2>1, SameMemory DEF CheckAgain, IInv, TypeOK
  <1> QED BY <1>1, <1>2, <1>3

LEMMA LookAgainStep ==
  ASSUME IInv, NEW p \in Producers, LookAgain(p)
  PROVE ReaderInv' /\ ThreadInv' /\ ReservationsApart' /\ HeadersApart' /\ FreshBlocks'
  <1> USE DEF Goto, Holds, Owns, readerVars
  <1>1. /\ NextCursor(p) \in Nat /\ readCursor \in Nat
        /\ readCursor <= NextCursor(p) /\ NextCursor(p) - readCursor < W
    BY CursorOrder, RingAssumption DEF LookAgain
  <1>2. Dist(NextCursor(p), readCursor) = NextCursor(p) - readCursor
    BY <1>1, DistExact
  <1>3. ThreadInv'
    <2>1. UNCHANGED <<cacheCursor, writeCursor, readCursor, need, cur, sent>>
          /\ ref' = [ref EXCEPT ![p] = readCursor]
          /\ pc[p] = "over" /\ pc' = [pc EXCEPT ![p] =
                IF NextCursor(p) - readCursor >= N THEN "back" ELSE "mine"]
      BY <1>2 DEF LookAgain
    <2>2. \A q \in Producers : NextCursor(q)' = NextCursor(q) BY <2>1 DEF NextCursor
    <2>3. N \in Nat BY RingAssumption
    <2> QED BY <1>1, <2>1, <2>2, <2>3, CursorOrder DEF IInv, TypeOK, ThreadInv
  <1> QED BY <1>3, SameMemory DEF LookAgain, IInv, TypeOK

LEMMA FetchAddStep ==
  ASSUME IInv, Sleepers = FALSE, NEW p \in Producers, FetchAdd(p)
  PROVE ReaderInv' /\ ThreadInv' /\ ReservationsApart' /\ HeadersApart' /\ FreshBlocks'
  <1>1. /\ need[p] \in Nat /\ need[p] > 0 /\ ref[p] \in Nat
        /\ ref[p] <= readCursor /\ readCursor <= writeCursor
        /\ writeCursor + need[p] - ref[p] < W
    BY CursorOrder DEF IInv, ThreadInv, WithinAWrap, FetchAdd
  <1>2. Dist(writeCursor + need[p], ref[p]) = writeCursor + need[p] - ref[p]
    BY <1>1, DistExact, CursorOrder
  <1>3. /\ cur' = [cur EXCEPT ![p] = writeCursor]
        /\ writeCursor' = writeCursor + need[p]
        /\ pc[p] = "check" /\ pc' = [pc EXCEPT ![p] =
                IF writeCursor + need[p] - ref[p] >= N THEN "over" ELSE "mine"]
        /\ UNCHANGED <<readCursor, cacheCursor, startCursor, block, need, ref, rpc, sent>>
    BY <1>2 DEF FetchAdd, Goto, readerVars
  <1>4. Window' = Window /\ (\A c : Header(c)' <=> Header(c))
        /\ (\A c : BlockAt(c)' = BlockAt(c)) /\ HeadBlock' = HeadBlock
    BY <1>3 DEF Window, Header, BlockAt, HeadBlock
  <1>5. /\ Holds(p)' /\ ~Holds(p) /\ cur'[p] = writeCursor
        /\ NextCursor(p)' = writeCursor'
        /\ \A q \in Producers \ {p} :
                /\ (Holds(q)' <=> Holds(q)) /\ cur'[q] = cur[q]
                /\ NextCursor(q)' = NextCursor(q) /\ pc'[q] = pc[q]
    BY <1>3 DEF IInv, TypeOK, Holds, NextCursor
  <1>6. ReaderInv'
    <2>1. /\ startCursor' = readCursor' /\ readCursor' <= cacheCursor'
          /\ cacheCursor' <= writeCursor' /\ cacheCursor' - readCursor' < N
          /\ writeCursor' - readCursor' < W
          /\ rpc' = "holding" => HeadBlock'.status = "used"
      BY <1>1, <1>3, <1>4, CursorOrder, RingAssumption DEF IInv, ReaderInv
    <2>2. ASSUME rpc' = "gap"
          PROVE LET c == (cacheCursor + HeadBlock.num)'
                IN  /\ HeadBlock'.num > 0 /\ c <= writeCursor' /\ c - readCursor' < N
                    /\ \A q \in Producers : Holds(q)' => c <= cur'[q]
                    /\ \A d \in Window' : Header(d)' => c <= d
      BY <1>1, <1>3, <1>4, <1>5, <2>2, CursorOrder, HeadBlockType DEF IInv, ReaderInv
    <2> QED BY <2>1, <2>2 DEF ReaderInv
  <1>7. ThreadInv'
    <2>1. N \in Nat BY RingAssumption
    <2> QED BY <1>1, <1>3, <1>5, <2>1, CursorOrder DEF IInv, TypeOK, ThreadInv, Owns
  <1>8. ReservationsApart'
    BY <1>5, CursorOrder DEF IInv, ReservationsApart
  <1>9. HeadersApart'
    <2> SUFFICES ASSUME NEW c \in Window, Header(c)
                 PROVE  /\ BlockAt(c).num > 0
                        /\ c + BlockAt(c).num <= writeCursor'
                        /\ c + BlockAt(c).num - readCursor < N
                        /\ ClearOfThreads(c, BlockAt(c).num)'
                        /\ \A d \in Window : Header(d) /\ c < d => c + BlockAt(c).num <= d
      BY <1>3, <1>4 DEF HeadersApart, ClearOfThreads
    <2>1. c \in Nat /\ BlockAt(c).num \in Nat
      BY WindowSlots DEF IInv, TypeOK, BlockAt
    <2>2. c + BlockAt(c).num <= writeCursor /\ ClearOfThreads(c, BlockAt(c).num)
      BY DEF IInv, HeadersApart
    <2>3. ClearOfThreads(c, BlockAt(c).num)'
      BY <1>4, <1>5, <2>2 DEF ClearOfThreads
    <2> QED BY <1>1, <2>1, <2>2, <2>3, <1>3, CursorOrder DEF IInv, HeadersApart
  <1>10. FreshBlocks'
    BY <1>1, <1>3, <1>4, <1>5, CursorOrder, WindowSlots DEF IInv, FreshBlocks
  <1> QED BY <1>6, <1>7, <1>8, <1>9, <1>10

\* A settled reservation starts in the window, at a block that is not a header.
LEMMA SettledInWindow ==
  ASSUME IInv, NEW p \in Producers, Owns(p)
  PROVE /\ cur[p] \in Window /\ NextCursor(p) - readCursor < N
        /\ cacheCursor \in Window /\ HeadBlock = BlockAt(cacheCursor)
        /\ BlockAt(cur[p]).status = "unused" /\ ~Header(cur[p])
  <1>1. NextCursor(p) - readCursor < N /\ Holds(p)
    BY DEF IInv, ThreadInv, Owns, Holds
  <1>2. cur[p] \in Window /\ cacheCursor \in Window
    BY <1>1, CursorOrder, RingAssumption DEF Window
  <1>3. BlockAt(cur[p]).status = "unused"
    BY <1>1, <1>2, CursorOrder DEF IInv, FreshBlocks, Owns
  <1> QED BY <1>1, <1>2, <1>3 DEF Header, HeadBlock, BlockAt

\* A settled reservation becomes a chunk or a gap of the reader's.
LEMMA NewHeaderStep ==
  ASSUME IInv, NEW p \in Producers, Owns(p),
         NEW b \in [status : {"used", "invalid"}, num : Nat,
                    chunk : Chunks \cup {NoChunk}],
         b.num = need[p],
         block' = [block EXCEPT ![Slot(cur[p])] = b],
         UNCHANGED <<writeCursor, readCursor, cacheCursor, startCursor, cur, need, rpc>>,
         NEW l \in {"check", "idle"}, pc' = [pc EXCEPT ![p] = l]
  PROVE ReaderInv' /\ ReservationsApart' /\ HeadersApart' /\ FreshBlocks'
  <1> DEFINE w == cur[p]
  <1>1. /\ w \in Window /\ NextCursor(p) - readCursor < N
        /\ cacheCursor \in Window /\ HeadBlock = BlockAt(cacheCursor)
        /\ BlockAt(w).status = "unused" /\ ~Header(w)
    BY SettledInWindow
  <1>2. /\ need[p] \in Nat /\ need[p] > 0 /\ w \in Nat /\ cacheCursor <= w
        /\ Holds(p) /\ NextCursor(p) = w + need[p] /\ NextCursor(p) <= writeCursor
    BY CursorOrder DEF NextCursor, Owns, Holds
  <1>3. /\ \A q \in Producers : NextCursor(q)' = NextCursor(q) /\ cur'[q] = cur[q]
        /\ \A q \in Producers \ {p} : (Holds(q)' <=> Holds(q)) /\ pc'[q] = pc[q]
        /\ ~Holds(p)' /\ pc'[p] \in {"check", "idle"}
    BY DEF NextCursor, Holds, IInv, TypeOK
  <1>4. Window' = Window /\ BlockAt(w)' = b /\ Header(w)'
        /\ \A c \in Window \ {w} : BlockAt(c)' = BlockAt(c) /\ (Header(c)' <=> Header(c))
    <2>1. Window' = Window BY DEF Window
    <2>2. BlockAt(w)' = b BY <1>1, WindowSlots DEF BlockAt, IInv, TypeOK
    <2>3. Header(w)' BY <1>2, <2>2 DEF Header
    <2>4. ASSUME NEW c \in Window \ {w}
          PROVE BlockAt(c)' = BlockAt(c) /\ (Header(c)' <=> Header(c))
      BY <1>1, WindowSlots DEF BlockAt, IInv, TypeOK, Header
    <2> QED BY <2>1, <2>2, <2>3, <2>4
  <1>5. ReaderInv'
    <2>1. /\ startCursor' = readCursor' /\ readCursor' <= cacheCursor'
          /\ cacheCursor' <= writeCursor' /\ cacheCursor' - readCursor' < N
          /\ writeCursor' - readCursor' < W
      BY DEF IInv, ReaderInv
    <2>2. HeadBlock' = BlockAt(cacheCursor)' BY DEF HeadBlock, BlockAt
    <2>3. rpc = "holding" => HeadBlock'.status = "used"
      BY <1>1, <1>4, <2>2 DEF IInv, ReaderInv
    <2>4. ASSUME rpc = "gap"
          PROVE LET c == cacheCursor + HeadBlock'.num
                IN  /\ HeadBlock'.num > 0 /\ c <= writeCursor /\ c - readCursor < N
                    /\ \A q \in Producers : Holds(q)' => c <= cur[q]
                    /\ \A d \in Window : Header(d)' => c <= d
      <3> DEFINE c == cacheCursor + HeadBlock.num
      <3>1. /\ HeadBlock.num > 0 /\ c <= writeCursor /\ c - readCursor < N
            /\ \A q \in Producers : Holds(q) => c <= cur[q]
            /\ \A d \in Window : Header(d) => c <= d
        BY <2>4 DEF IInv, ReaderInv
      <3>2. HeadBlock.num \in Nat BY HeadBlockType DEF IInv
      <3>3. cacheCursor # w BY <3>1, <3>2, <1>2, CursorOrder
      <3>4. HeadBlock' = HeadBlock BY <1>1, <1>4, <2>2, <3>3
      <3> QED BY <1>2, <1>3, <1>4, <3>1, <3>4
    <2> QED BY <1>4, <2>1, <2>3, <2>4, <1>3 DEF ReaderInv
  <1>6. ReservationsApart'
    BY <1>3 DEF IInv, ReservationsApart
  <1>7. HeadersApart'
    <2> SUFFICES ASSUME NEW c \in Window, Header(c)'
                 PROVE  /\ BlockAt(c)'.num > 0
                        /\ c + BlockAt(c)'.num <= writeCursor
                        /\ c + BlockAt(c)'.num - readCursor < N
                        /\ \A q \in Producers : Holds(q)' =>
                              NextCursor(q) <= c \/ c + BlockAt(c)'.num <= cur[q]
                        /\ \A d \in Window : Header(d)' /\ c < d => c + BlockAt(c)'.num <= d
      BY <1>3, <1>4 DEF HeadersApart, ClearOfThreads
    <2>1. c \in Nat /\ \A d \in Window : d \in Nat /\ BlockAt(d).num \in Nat
      BY WindowSlots DEF IInv, TypeOK, BlockAt
    <2>2. CASE c = w
      <3>1. \A q \in Producers : Holds(q)' => NextCursor(q) <= c \/ c + need[p] <= cur[q]
        BY <1>2, <1>3, <2>2 DEF IInv, ReservationsApart
      <3>2. ASSUME NEW d \in Window, Header(d)', c < d PROVE c + need[p] <= d
        <4>1. Header(d) BY <1>4, <2>1, <2>2, <3>2
        <4>2. NextCursor(p) <= d \/ d + BlockAt(d).num <= w
          BY <1>2, <4>1 DEF IInv, HeadersApart, ClearOfThreads
        <4>3. d \in Nat /\ BlockAt(d).num \in Nat /\ w < d BY <2>1, <2>2, <3>2
        <4>4. w + need[p] <= d BY <1>2, <4>2, <4>3
        <4> QED BY <2>2, <4>4
      <3>3. BlockAt(c)'.num = need[p] BY <1>4, <2>2
      <3>4. need[p] > 0 /\ c + need[p] <= writeCursor /\ c + need[p] - readCursor < N
        <4>1. NextCursor(p) = c + need[p] /\ NextCursor(p) <= writeCursor BY <1>2, <2>2
        <4>2. NextCursor(p) - readCursor < N BY <1>1
        <4> QED BY <1>2, <2>1, <4>1, <4>2, CursorOrder
      <3> QED BY <3>1, <3>2, <3>3, <3>4
    <2>3. CASE c # w
      <3>1. Header(c) /\ BlockAt(c)' = BlockAt(c) BY <1>4, <2>3
      <3>2. /\ BlockAt(c).num > 0
            /\ c + BlockAt(c).num <= writeCursor
            /\ c + BlockAt(c).num - readCursor < N
            /\ \A q \in Producers : Holds(q) =>
                  NextCursor(q) <= c \/ c + BlockAt(c).num <= cur[q]
            /\ \A d \in Window : Header(d) /\ c < d => c + BlockAt(c).num <= d
        BY <3>1 DEF IInv, HeadersApart, ClearOfThreads
      <3>3. c < w => c + BlockAt(c).num <= w
        BY <1>2, <2>1, <3>2
      <3> QED BY <1>3, <1>4, <3>1, <3>2, <3>3
    <2> QED BY <2>2, <2>3
  <1>8. FreshBlocks'
    <2>1. ASSUME NEW c \in Window, c >= writeCursor PROVE BlockAt(c)'.status = "unused"
      <3>1. c # w BY <1>2, <2>1, CursorOrder
      <3> QED BY <1>4, <2>1, <3>1 DEF IInv, FreshBlocks
    <2>2. ASSUME NEW q \in Producers, pc'[q] \in {"over", "back", "mine", "filling"},
                 NEW c \in Window, cur[q] <= c, c < NextCursor(q)
          PROVE BlockAt(c)'.status = "unused"
      <3>1. q # p /\ pc'[q] = pc[q] /\ Holds(q) BY <1>3, <2>2 DEF Holds
      <3>2. c # w
        BY <1>2, <2>2, <3>1, WindowSlots, CursorOrder DEF IInv, ReservationsApart
      <3> QED BY <1>4, <2>2, <3>1, <3>2 DEF IInv, FreshBlocks
    <2>3. ASSUME NEW q \in Producers, pc'[q] \in {"filling", "filled"}
          PROVE BlockAt(cur[q])'.status = "unused" /\ BlockAt(cur[q])'.num = need[q]
      <3>1. q # p /\ pc'[q] = pc[q] /\ Owns(q) BY <1>3, <2>3 DEF Owns
      <3>2. cur[q] \in Window BY <3>1, SettledInWindow
      <3>3. cur[q] # w
        BY <1>2, <3>1, CursorOrder DEF IInv, ReservationsApart, Owns, Holds
      <3> QED BY <1>4, <2>3, <3>1, <3>2, <3>3 DEF IInv, FreshBlocks, BlockAt
    <2> QED BY <1>3, <1>4, <2>1, <2>2, <2>3 DEF FreshBlocks, BlockAt
  <1> QED BY <1>5, <1>6, <1>7, <1>8

LEMMA LeaveGapStep ==
  ASSUME IInv, NEW p \in Producers, LeaveGap(p)
  PROVE ReaderInv' /\ ThreadInv' /\ ReservationsApart' /\ HeadersApart' /\ FreshBlocks'
  <1> DEFINE b == NewHeader(p, "invalid")
  <1>1. Owns(p) BY DEF LeaveGap, Owns
  <1>2. b.num = need[p] /\ b \in [status : {"used", "invalid"}, num : Nat,
                                  chunk : Chunks \cup {NoChunk}]
    <2>1. block[Slot(cur[p])] \in [status : Status, num : Nat, chunk : Chunks \cup {NoChunk}]
      BY CursorOrder, SlotInIndex DEF IInv, TypeOK
    <2> QED BY <2>1, CursorOrder DEF NewHeader
  <1>3. ThreadInv'
    <2>1. \A q \in Producers : NextCursor(q)' = NextCursor(q)
      BY DEF LeaveGap, NextCursor
    <2> QED BY <2>1 DEF LeaveGap, Goto, readerVars, IInv, TypeOK, ThreadInv, Holds, Owns
  <1>4. ReaderInv' /\ ReservationsApart' /\ HeadersApart' /\ FreshBlocks'
    BY <1>1, <1>2, NewHeaderStep DEF LeaveGap, Goto, readerVars
  <1> QED BY <1>3, <1>4

LEMMA CommitStep ==
  ASSUME IInv, NEW p \in Producers, Commit(p)
  PROVE ReaderInv' /\ ThreadInv' /\ ReservationsApart' /\ HeadersApart' /\ FreshBlocks'
  <1> DEFINE b == [block[Slot(cur[p])] EXCEPT !.status = "used"]
  <1>1. Owns(p) BY DEF Commit, Owns
  <1>2. b.num = need[p] /\ b \in [status : {"used", "invalid"}, num : Nat,
                                  chunk : Chunks \cup {NoChunk}]
    <2>1. block[Slot(cur[p])] \in [status : Status, num : Nat, chunk : Chunks \cup {NoChunk}]
      BY CursorOrder, SlotInIndex DEF IInv, TypeOK
    <2>2. block[Slot(cur[p])].num = need[p]
      BY DEF Commit, IInv, FreshBlocks, BlockAt
    <2> QED BY <2>1, <2>2
  <1>3. block' = [block EXCEPT ![Slot(cur[p])] = b]
    BY DEF Commit
  <1>4. ThreadInv'
    <2>1. \A q \in Producers : NextCursor(q)' = NextCursor(q)
      BY DEF Commit, NextCursor
    <2> QED BY <2>1 DEF Commit, Goto, readerVars, IInv, TypeOK, ThreadInv, Holds, Owns
  <1>5. ReaderInv' /\ ReservationsApart' /\ HeadersApart' /\ FreshBlocks'
    BY <1>1, <1>2, <1>3, NewHeaderStep DEF Commit, Goto, readerVars
  <1> QED BY <1>4, <1>5

LEMMA FallBackStep ==
  ASSUME IInv, NEW p \in Producers, FallBack(p)
  PROVE ReaderInv' /\ ThreadInv' /\ ReservationsApart' /\ HeadersApart' /\ FreshBlocks'
  <1>1. Holds(p) /\ pc[p] = "back" BY DEF FallBack, Holds
  <1>2. /\ cacheCursor <= cur[p] /\ cur[p] < NextCursor(p) /\ NextCursor(p) <= writeCursor
        /\ cur[p] \in Nat /\ NextCursor(p) \in Nat
    BY <1>1, CursorOrder
  <1>3. CASE Dist(writeCursor, NextCursor(p)) # 0
    <2>1. \A q \in Producers : NextCursor(q)' = NextCursor(q)
      BY DEF FallBack, NextCursor
    <2>2. ThreadInv'
      BY <1>3, <2>1 DEF FallBack, Goto, readerVars, IInv, TypeOK, ThreadInv, Holds, Owns
    <2> QED BY <1>3, <2>2, SameMemory DEF FallBack, Goto, Holds, readerVars, IInv, TypeOK
  <1>4. CASE Dist(writeCursor, NextCursor(p)) = 0
    <2>1. writeCursor = NextCursor(p)
      <3>1. Dist(writeCursor, NextCursor(p)) = writeCursor - NextCursor(p)
        BY <1>2, CursorOrder, DistExact, RingAssumption
      <3> QED BY <1>2, <1>4, <3>1, CursorOrder
    <2>2. /\ writeCursor' = cur[p] /\ pc' = [pc EXCEPT ![p] = "idle"]
          /\ UNCHANGED <<readCursor, cacheCursor, startCursor, block, need, cur, ref, rpc, sent>>
      BY <1>4 DEF FallBack, Goto, readerVars
    <2>3. /\ ~Holds(p)' /\ pc'[p] = "idle"
          /\ \A q \in Producers : NextCursor(q)' = NextCursor(q)
          /\ \A q \in Producers \ {p} : (Holds(q)' <=> Holds(q)) /\ pc'[q] = pc[q]
      BY <2>2 DEF IInv, TypeOK, Holds, NextCursor
    <2>4. \A q \in Producers \ {p} : Holds(q) => NextCursor(q) <= cur[p]
      BY <1>1, <1>2, <2>1, CursorOrder DEF IInv, ReservationsApart
    <2>5. Window' = Window /\ (\A c : Header(c)' <=> Header(c))
          /\ (\A c : BlockAt(c)' = BlockAt(c)) /\ HeadBlock' = HeadBlock
      BY <2>2 DEF Window, Header, BlockAt, HeadBlock
    <2>6. ReaderInv'
      <3>1. /\ startCursor' = readCursor' /\ readCursor' <= cacheCursor'
            /\ cacheCursor' <= writeCursor' /\ cacheCursor' - readCursor' < N
            /\ writeCursor' - readCursor' < W
            /\ rpc' = "holding" => HeadBlock'.status = "used"
        BY <1>2, <2>1, <2>2, <2>5, CursorOrder, RingAssumption DEF IInv, ReaderInv
      <3>2. ASSUME rpc' = "gap"
            PROVE LET c == (cacheCursor + HeadBlock.num)'
                  IN  /\ HeadBlock'.num > 0 /\ c <= writeCursor' /\ c - readCursor' < N
                      /\ \A q \in Producers : Holds(q)' => c <= cur'[q]
                      /\ \A d \in Window' : Header(d)' => c <= d
        BY <1>1, <2>2, <2>3, <2>5, <3>2 DEF IInv, ReaderInv
      <3> QED BY <3>1, <3>2 DEF ReaderInv
    <2>7. ThreadInv'
      BY <1>2, <2>2, <2>3, <2>4 DEF IInv, TypeOK, ThreadInv, Owns, Holds
    <2>8. ReservationsApart' BY <2>2, <2>3 DEF IInv, ReservationsApart
    <2>9. HeadersApart'
      <3> SUFFICES ASSUME NEW c \in Window, Header(c)
                   PROVE c + BlockAt(c).num <= cur[p]
        BY <2>2, <2>3, <2>5 DEF IInv, HeadersApart, ClearOfThreads
      <3>1. c \in Nat /\ BlockAt(c).num \in Nat
        BY WindowSlots DEF IInv, TypeOK, BlockAt
      <3>2. /\ BlockAt(c).num > 0 /\ c + BlockAt(c).num <= writeCursor
            /\ NextCursor(p) <= c \/ c + BlockAt(c).num <= cur[p]
        BY <1>1 DEF IInv, HeadersApart, ClearOfThreads
      <3> QED BY <1>2, <2>1, <3>1, <3>2
    <2>10. FreshBlocks'
      <3>1. ASSUME NEW c \in Window, c >= cur[p] PROVE BlockAt(c).status = "unused"
        <4>1. c \in Nat BY WindowSlots DEF IInv
        <4>2. CASE c >= writeCursor BY <4>2 DEF IInv, FreshBlocks
        <4>3. CASE c < NextCursor(p) BY <1>1, <3>1, <4>3 DEF IInv, FreshBlocks
        <4> QED BY <1>2, <2>1, <4>1, <4>2, <4>3
      <3> QED BY <2>2, <2>3, <2>5, <3>1 DEF IInv, FreshBlocks
    <2> QED BY <2>6, <2>7, <2>8, <2>9, <2>10
  <1> QED BY <1>3, <1>4

\* A thread writes inside its own settled reservation.
LEMMA PrivateWrite ==
  ASSUME IInv, NEW p \in Producers, pc[p] \in {"mine", "filling"},
         NEW l \in {"filling", "filled"}, pc' = [pc EXCEPT ![p] = l],
         UNCHANGED <<writeCursor, readCursor, cacheCursor, startCursor, cur, need, rpc>>,
         \A c \in Window : \/ cur[p] <= c /\ c < NextCursor(p)
                          \/ BlockAt(c)' = BlockAt(c),
         \A c \in Window : cur[p] <= c /\ c < NextCursor(p) =>
            /\ BlockAt(c)'.status \notin {"used", "invalid"}
            /\ l = "filling" => BlockAt(c)'.status = "unused",
         BlockAt(cur[p])'.status = "unused", BlockAt(cur[p])'.num = need[p]
  PROVE ReaderInv' /\ ReservationsApart' /\ HeadersApart' /\ FreshBlocks'
  <1> DEFINE Mine(c) == cur[p] <= c /\ c < NextCursor(p)
  <1>1. /\ Owns(p) /\ Holds(p) /\ cur[p] \in Window /\ cacheCursor \in Window
        /\ HeadBlock = BlockAt(cacheCursor) /\ BlockAt(cur[p]).status = "unused"
    BY SettledInWindow DEF Owns, Holds
  <1>2. /\ cacheCursor <= cur[p] /\ cur[p] < NextCursor(p) /\ NextCursor(p) <= writeCursor
    BY <1>1, CursorOrder
  <1>3. /\ \A q \in Producers : NextCursor(q)' = NextCursor(q) /\ cur'[q] = cur[q]
        /\ \A q \in Producers : Holds(q)' <=> Holds(q)
        /\ \A q \in Producers \ {p} : pc'[q] = pc[q]
        /\ pc'[p] = l
    BY DEF NextCursor, Holds, IInv, TypeOK
  <1>4. /\ Window' = Window
        /\ \A c \in Window : Header(c)' <=> Header(c)
        /\ \A c \in Window : Header(c) => BlockAt(c)' = BlockAt(c)
    <2>1. Window' = Window BY DEF Window
    <2>2. \A c \in Window : Mine(c) => ~Header(c) /\ ~Header(c)'
      BY DEF IInv, FreshBlocks, Header
    <2>3. \A c \in Window : ~Mine(c) => BlockAt(c)' = BlockAt(c) /\ (Header(c)' <=> Header(c))
      BY DEF Header
    <2> QED BY <2>1, <2>2, <2>3
  <1>5. ReaderInv'
    <2>1. /\ startCursor' = readCursor' /\ readCursor' <= cacheCursor'
          /\ cacheCursor' <= writeCursor' /\ cacheCursor' - readCursor' < N
          /\ writeCursor' - readCursor' < W
      BY DEF IInv, ReaderInv
    <2>2. HeadBlock' = BlockAt(cacheCursor)' BY DEF HeadBlock, BlockAt
    <2>3. rpc \in {"holding", "gap"} => HeadBlock' = HeadBlock
      <3>1. ASSUME rpc = "holding" PROVE HeadBlock' = HeadBlock
        <4>1. Header(cacheCursor)
          BY <1>1, <3>1, CursorOrder DEF Header, IInv, ReaderInv
        <4> QED BY <1>1, <1>4, <2>2, <4>1
      <3>2. ASSUME rpc = "gap" PROVE HeadBlock' = HeadBlock
        <4>1. HeadBlock.num > 0 /\ cacheCursor + HeadBlock.num <= cur[p]
          BY <1>1, <3>2 DEF IInv, ReaderInv
        <4>2. HeadBlock.num \in Nat BY HeadBlockType DEF IInv
        <4>3. ~Mine(cacheCursor) BY <4>1, <4>2, CursorOrder
        <4> QED BY <1>1, <2>2, <4>3
      <3> QED BY <3>1, <3>2
    <2>4. rpc = "holding" => HeadBlock'.status = "used"
      BY <2>3 DEF IInv, ReaderInv
    <2>5. ASSUME rpc = "gap"
          PROVE LET c == cacheCursor + HeadBlock'.num
                IN  /\ HeadBlock'.num > 0 /\ c <= writeCursor /\ c - readCursor < N
                    /\ \A q \in Producers : Holds(q)' => c <= cur[q]
                    /\ \A d \in Window : Header(d)' => c <= d
      BY <1>3, <1>4, <2>3, <2>5 DEF IInv, ReaderInv
    <2> QED BY <1>3, <1>4, <2>1, <2>4, <2>5 DEF ReaderInv
  <1>6. ReservationsApart' BY <1>3 DEF IInv, ReservationsApart
  <1>7. HeadersApart' BY <1>3, <1>4 DEF IInv, HeadersApart, ClearOfThreads
  <1>8. FreshBlocks'
    <2>1. ASSUME NEW c \in Window, c >= writeCursor PROVE BlockAt(c)'.status = "unused"
      <3>1. c \in Nat BY WindowSlots DEF IInv
      <3>2. ~Mine(c) BY <1>2, <2>1, <3>1, CursorOrder
      <3> QED BY <2>1, <3>2 DEF IInv, FreshBlocks
    <2>2. ASSUME NEW q \in Producers, pc'[q] \in {"over", "back", "mine", "filling"},
                 NEW c \in Window, cur[q] <= c, c < NextCursor(q)
          PROVE BlockAt(c)'.status = "unused"
      <3>1. CASE q = p BY <1>3, <2>2, <3>1
      <3>2. CASE q # p
        <4>1. pc'[q] = pc[q] /\ Holds(q) BY <1>3, <2>2, <3>2 DEF Holds
        <4>2. c \in Nat BY WindowSlots DEF IInv
        <4>3. ~Mine(c)
          BY <1>1, <2>2, <3>2, <4>1, <4>2, CursorOrder DEF IInv, ReservationsApart
        <4> QED BY <2>2, <4>1, <4>3 DEF IInv, FreshBlocks
      <3> QED BY <3>1, <3>2
    <2>3. ASSUME NEW q \in Producers, pc'[q] \in {"filling", "filled"}
          PROVE BlockAt(cur[q])'.status = "unused" /\ BlockAt(cur[q])'.num = need[q]
      <3>1. CASE q = p BY <3>1
      <3>2. CASE q # p
        <4>1. pc'[q] = pc[q] /\ Owns(q) /\ Holds(q) BY <1>3, <2>3, <3>2 DEF Owns, Holds
        <4>2. cur[q] \in Window BY <4>1, SettledInWindow
        <4>3. ~Mine(cur[q])
          BY <1>1, <3>2, <4>1, CursorOrder DEF IInv, ReservationsApart
        <4> QED BY <2>3, <4>1, <4>2, <4>3 DEF IInv, FreshBlocks, BlockAt
      <3> QED BY <3>1, <3>2
    <2> QED BY <1>3, <1>4, <2>1, <2>2, <2>3 DEF FreshBlocks, BlockAt
  <1> QED BY <1>5, <1>6, <1>7, <1>8

LEMMA AllocReturnStep ==
  ASSUME IInv, NEW p \in Producers, AllocReturn(p)
  PROVE ReaderInv' /\ ThreadInv' /\ ReservationsApart' /\ HeadersApart' /\ FreshBlocks'
  <1>1. ThreadInv'
    <2>1. \A q \in Producers : NextCursor(q)' = NextCursor(q)
      BY DEF AllocReturn, NextCursor
    <2> QED BY <2>1 DEF AllocReturn, Goto, readerVars, IInv, TypeOK, ThreadInv, Holds, Owns
  <1>2. cur[p] \in Window BY SettledInWindow DEF AllocReturn, Owns
  <1>3. \A c \in Window : IF c = cur[p] THEN /\ BlockAt(c)'.status = "unused"
                                             /\ BlockAt(c)'.num = need[p]
                           ELSE BlockAt(c)' = BlockAt(c)
    <2>1. block[Slot(cur[p])] \in [status : Status, num : Nat, chunk : Chunks \cup {NoChunk}]
      BY CursorOrder, SlotInIndex DEF IInv, TypeOK
    <2> QED BY <1>2, <2>1, WindowSlots DEF AllocReturn, NewHeader, BlockAt, IInv, TypeOK
  <1>4. BlockAt(cur[p])' = block'[Slot(cur[p])] BY DEF AllocReturn, BlockAt
  <1>5. cur[p] \in Nat /\ cur[p] < NextCursor(p)
    BY CursorOrder DEF AllocReturn, Holds
  <1>6. \A c \in Window : cur[p] <= c /\ c < NextCursor(p) => BlockAt(c)'.status = "unused"
    BY <1>3 DEF AllocReturn, IInv, FreshBlocks
  <1>7. \A c \in Window : \/ cur[p] <= c /\ c < NextCursor(p)
                         \/ BlockAt(c)' = BlockAt(c)
    BY <1>3, <1>5
  <1>8. BlockAt(cur[p])'.status = "unused" /\ BlockAt(cur[p])'.num = need[p]
    BY <1>2, <1>3, <1>4 DEF BlockAt
  <1>9. ReaderInv' /\ ReservationsApart' /\ HeadersApart' /\ FreshBlocks'
    BY <1>6, <1>7, <1>8, PrivateWrite DEF AllocReturn, Goto, readerVars
  <1> QED BY <1>1, <1>9

LEMMA FillStep ==
  ASSUME IInv, NEW p \in Producers, Fill(p)
  PROVE ReaderInv' /\ ThreadInv' /\ ReservationsApart' /\ HeadersApart' /\ FreshBlocks'
  <1>1. ThreadInv'
    <2>1. \A q \in Producers : NextCursor(q)' = NextCursor(q)
      BY DEF Fill, NextCursor
    <2> QED BY <2>1 DEF Fill, Goto, readerVars, IInv, TypeOK, ThreadInv, Holds, Owns
  <1>2. /\ cur[p] \in Window /\ BlockAt(cur[p]).status = "unused"
        /\ BlockAt(cur[p]).num = need[p] /\ NextCursor(p) - readCursor < N
    BY SettledInWindow DEF Fill, Owns, IInv, FreshBlocks
  <1>3. cur[p] \in Nat /\ cur[p] < NextCursor(p) /\ need[p] \in Nat /\ need[p] > 0
        /\ readCursor \in Nat /\ readCursor <= cur[p]
    BY CursorOrder DEF Fill, Holds
  <1>4. BlockAt(cur[p])'.status = "unused" /\ BlockAt(cur[p])'.num = need[p]
    BY <1>2, WindowSlots DEF Fill, BlockAt, IInv, TypeOK
  <1>5. ASSUME NEW c \in Window, ~(cur[p] <= c /\ c < NextCursor(p))
        PROVE BlockAt(c)' = BlockAt(c)
    <2>1. c \in Nat /\ Slot(c) \in Index /\ c # cur[p] /\ Slot(c) # Slot(cur[p])
      BY <1>2, <1>3, <1>5, WindowSlots DEF IInv
    <2>2. Slot(c) \notin Region(cur[p], need[p])
      <3> SUFFICES ASSUME NEW i \in 0..(need[p] - 1), Slot(c) = Slot(cur[p] + i)
                   PROVE FALSE
        BY DEF Region
      <3>1. cur[p] + i \in Window /\ cur[p] + i < NextCursor(p) /\ cur[p] <= cur[p] + i
        BY <1>2, <1>3, RingAssumption DEF Window, NextCursor
      <3>2. c = cur[p] + i BY <3>1, WindowSlots DEF IInv
      <3> QED BY <1>5, <3>1, <3>2
    <2> QED BY <2>1, <2>2 DEF Fill, BlockAt
  <1>6. ASSUME NEW c \in Window, cur[p] <= c, c < NextCursor(p)
        PROVE BlockAt(c)'.status \notin {"used", "invalid"}
    <2>1. CASE c = cur[p] BY <1>4, <2>1 DEF Fill, BlockAt
    <2>2. CASE c # cur[p]
      <3>1. Slot(c) \in Index /\ Slot(c) # Slot(cur[p]) /\ c \in Nat
        BY <1>2, <2>2, WindowSlots DEF IInv
      <3>2. Slot(c) \in Region(cur[p], need[p])
        <4>1. c - cur[p] \in 0..(need[p] - 1) /\ c = cur[p] + (c - cur[p])
          BY <1>3, <1>6, <3>1 DEF NextCursor
        <4> QED BY <4>1 DEF Region
      <3> QED BY <3>1, <3>2 DEF Fill, BlockAt
    <2> QED BY <2>1, <2>2
  <1>7. ReaderInv' /\ ReservationsApart' /\ HeadersApart' /\ FreshBlocks'
    BY <1>4, <1>5, <1>6, PrivateWrite DEF Fill, Goto, readerVars
  <1> QED BY <1>1, <1>7

-----------------------------------------------------------------------------
\* The reader's steps.

\* The reader looks, or gives a chunk back unread: nothing moves.
LEMMA LookStep ==
  ASSUME IInv,
         UNCHANGED <<writeCursor, readCursor, cacheCursor, startCursor, block,
                     producerVars, sent>>,
         \/ rpc' \in {"idle", "empty"}
         \/ rpc' = "holding" /\ HeadBlock.status = "used"
  PROVE ReaderInv' /\ ThreadInv' /\ ReservationsApart' /\ HeadersApart' /\ FreshBlocks'
  <1>1. ReservationsApart' /\ HeadersApart' /\ FreshBlocks'
    BY SameMemory DEF Holds, producerVars
  <1>2. ThreadInv'
    BY DEF IInv, ThreadInv, NextCursor, Holds, Owns, producerVars
  <1>3. ReaderInv' BY DEF IInv, ReaderInv, HeadBlock
  <1> QED BY <1>1, <1>2, <1>3

\* What the invariant says of the chunk or gap the reader stands at.
LEMMA FrontFits ==
  ASSUME IInv, HeadBlock.status \in {"used", "invalid"} \/ rpc = "gap"
  PROVE LET c == cacheCursor + HeadBlock.num
        IN  /\ c \in Nat /\ HeadBlock.num > 0 /\ c <= writeCursor /\ c - readCursor < N
            /\ \A q \in Producers : Holds(q) => c <= cur[q]
            /\ \A d \in Window : Header(d) => d = cacheCursor \/ c <= d
  <1>1. HeadBlock.num \in Nat BY HeadBlockType DEF IInv
  <1>2. CASE rpc = "gap" BY <1>1, <1>2, CursorOrder DEF IInv, ReaderInv
  <1>3. CASE HeadBlock.status \in {"used", "invalid"}
    <2>1. cacheCursor \in Window
      BY CursorOrder, RingAssumption DEF IInv, ReaderInv, Window
    <2>2. Header(cacheCursor) /\ HeadBlock = BlockAt(cacheCursor)
      BY <1>3, CursorOrder DEF Header, HeadBlock, BlockAt
    <2>3. /\ HeadBlock.num > 0 /\ cacheCursor + HeadBlock.num <= writeCursor
          /\ cacheCursor + HeadBlock.num - readCursor < N
          /\ \A q \in Producers : Holds(q) =>
                NextCursor(q) <= cacheCursor \/ cacheCursor + HeadBlock.num <= cur[q]
          /\ \A d \in Window : Header(d) /\ cacheCursor < d => cacheCursor + HeadBlock.num <= d
      BY <2>1, <2>2 DEF IInv, HeadersApart, ClearOfThreads
    <2>4. \A d \in Window : Header(d) => d \in Nat /\ (d = cacheCursor \/ cacheCursor < d)
      BY CursorOrder, WindowSlots DEF IInv, Header
    <2> QED BY <1>1, <2>3, <2>4, CursorOrder
  <1> QED BY <1>2, <1>3

LEMMA ReadGapStep ==
  ASSUME IInv, ReadGap
  PROVE ReaderInv' /\ ThreadInv' /\ ReservationsApart' /\ HeadersApart' /\ FreshBlocks'
  <1> USE DEF ReadGap
  <1>1. /\ \A q \in Producers : NextCursor(q)' = NextCursor(q) /\ cur'[q] = cur[q]
        /\ \A q \in Producers : (Holds(q)' <=> Holds(q)) /\ (Owns(q)' <=> Owns(q))
        /\ pc' = pc /\ need' = need /\ ref' = ref /\ cur' = cur
    BY DEF NextCursor, Holds, Owns, producerVars
  <1>2. cacheCursor \in Window
    BY CursorOrder, RingAssumption DEF IInv, ReaderInv, Window
  <1>3. /\ Window' = Window /\ HeadBlock' = [HeadBlock EXCEPT !.status = "unused"]
        /\ \A c \in Window \ {cacheCursor} : BlockAt(c)' = BlockAt(c)
        /\ BlockAt(cacheCursor)' = [BlockAt(cacheCursor) EXCEPT !.status = "unused"]
    BY <1>2, WindowSlots DEF Window, HeadBlock, BlockAt, IInv, TypeOK
  <1>4. \A c \in Window : Header(c)' <=> Header(c) /\ c # cacheCursor
    <2>1. BlockAt(cacheCursor)'.status = "unused"
      BY <1>2, <1>3, WindowSlots DEF IInv, TypeOK, BlockAt
    <2> QED BY <1>3, <2>1 DEF Header, BlockAt
  <1>5. HeadBlock'.num = HeadBlock.num BY <1>3, HeadBlockType DEF IInv
  <1>6. ReaderInv'
    <2>1. /\ startCursor' = readCursor' /\ readCursor' <= cacheCursor'
          /\ cacheCursor' <= writeCursor' /\ cacheCursor' - readCursor' < N
          /\ writeCursor' - readCursor' < W
      BY DEF IInv, ReaderInv
    <2> QED BY <1>1, <1>3, <1>4, <1>5, <2>1, FrontFits DEF ReaderInv
  <1>7. ThreadInv' BY <1>1 DEF IInv, ThreadInv
  <1>8. ReservationsApart' BY <1>1 DEF IInv, ReservationsApart
  <1>9. HeadersApart' BY <1>1, <1>3, <1>4 DEF IInv, HeadersApart, ClearOfThreads
  <1>10. FreshBlocks'
    <2>1. \A c \in Window : BlockAt(c).status = "unused" => BlockAt(c)' = BlockAt(c)
      BY <1>2, <1>3 DEF HeadBlock, BlockAt
    <2>2. \A q \in Producers : Owns(q) => cur[q] \in Window BY SettledInWindow
    <2> QED BY <1>1, <1>3, <2>1, <2>2 DEF IInv, FreshBlocks, BlockAt, Owns
  <1> QED BY <1>6, <1>7, <1>8, <1>9, <1>10

LEMMA SlotPeriod == ASSUME NEW d \in Nat, d >= N PROVE Slot(d - N) = Slot(d)
  <1> DEFINE e == d - N
             k == (d \div N) - (e \div N) - 1
  <1>1. N \in Nat /\ N > 0 /\ e \in Nat BY RingAssumption
  <1>2. e = N * (e \div N) + Slot(e) /\ d = N * (d \div N) + Slot(d)
    BY <1>1 DEF Slot
  <1>3. /\ e \div N \in Int /\ d \div N \in Int
        /\ Slot(e) \in 0..(N - 1) /\ Slot(d) \in 0..(N - 1)
    BY <1>1 DEF Slot
  <1>4. k \in Int /\ Slot(e) - Slot(d) = N * k
    BY <1>1, <1>2, <1>3
  <1>5. CASE k <= -1
    <2>1. N * k <= -N BY <1>1, <1>4, <1>5
    <2> QED BY <1>1, <1>3, <1>4, <2>1
  <1>6. CASE k >= 1
    <2>1. N * k >= N BY <1>1, <1>4, <1>6
    <2> QED BY <1>1, <1>3, <1>4, <2>1
  <1>7. CASE k = 0
    <2>1. N * k = 0 BY <1>1, <1>7
    <2> QED BY <1>1, <1>3, <1>4, <2>1
  <1> HIDE DEF k
  <1>8. k <= -1 \/ k >= 1 \/ k = 0 BY <1>4
  <1> QED BY <1>5, <1>6, <1>7, <1>8

\* The reader may move to cursor c: it passes no reservation.
MayMoveTo(c) ==
  /\ cacheCursor <= c /\ c <= writeCursor /\ c - readCursor < N
  /\ \A q \in Producers : Holds(q) => c <= cur[q]

\* What the memory looks like once the reader has moved on to cursor c, and may
\* have published it: what the window gains is free, the rest is as it was.
LEMMA MoveBlocks ==
  ASSUME IInv, NEW c \in Nat, MayMoveTo(c), NEW b \in BOOLEAN, FreeUpTo(c, b)
  PROVE /\ cacheCursor' = c /\ startCursor' = readCursor'
        /\ readCursor' \in Nat /\ readCursor <= readCursor' /\ readCursor' <= c
        /\ \A d \in Window' :
              \/ BlockAt(d)'.status = "unused" /\ d >= readCursor + N
              \/ d \in Window /\ BlockAt(d)' = BlockAt(d)
  <1>0. cacheCursor <= c /\ c <= writeCursor /\ c - readCursor < N BY DEF MayMoveTo
  <1>1. CASE ~(b /\ c # startCursor)
    BY <1>0, <1>1, CursorOrder DEF FreeUpTo, IInv, ReaderInv, Window, BlockAt
  <1>2. CASE b /\ c # startCursor
    <2>1. /\ cacheCursor' = c /\ startCursor' = c /\ readCursor' = c
          /\ startCursor = readCursor
          /\ block' = [i \in Index |->
                IF i \in Region(startCursor, c - startCursor)
                THEN [block[i] EXCEPT !.status = "unused"] ELSE block[i]]
      BY <1>2 DEF FreeUpTo, IInv, ReaderInv
    <2>2. ASSUME NEW d \in Nat, d >= c, d < readCursor + N
          PROVE d \in Window /\ BlockAt(d)' = BlockAt(d)
      <3>1. d \in Window BY <1>0, <2>2, CursorOrder, RingAssumption DEF Window
      <3>2. Slot(d) \notin Region(startCursor, c - startCursor)
        <4> SUFFICES ASSUME NEW i \in 0..(c - startCursor - 1), Slot(d) = Slot(startCursor + i)
                     PROVE FALSE
          BY DEF Region
        <4>1. startCursor + i \in Window /\ startCursor + i < c
          BY <1>0, <2>1, CursorOrder, RingAssumption DEF Window
        <4>2. d = startCursor + i BY <3>1, <4>1, WindowSlots DEF IInv
        <4> QED BY <2>2, <4>1, <4>2
      <3>3. Slot(d) \in Index BY SlotInIndex
      <3> QED BY <2>1, <3>1, <3>2, <3>3 DEF BlockAt
    <2>3. ASSUME NEW d \in Nat, d >= readCursor + N, d < c + N
          PROVE BlockAt(d)'.status = "unused"
      <3>1. /\ d - N \in Nat /\ d >= N /\ N \in Nat
            /\ d - N - startCursor \in 0..(c - startCursor - 1)
            /\ d - N = startCursor + (d - N - startCursor)
        BY <1>0, <2>1, <2>3, CursorOrder, RingAssumption
      <3>2. Slot(d) \in Region(startCursor, c - startCursor)
        BY <3>1, SlotPeriod DEF Region
      <3>3. Slot(d) \in Index BY SlotInIndex
      <3>4. [block[Slot(d)] EXCEPT !.status = "unused"].status = "unused"
        BY <3>3 DEF IInv, TypeOK
      <3> QED BY <2>1, <3>2, <3>3, <3>4 DEF BlockAt
    <2>4. \A d \in Window' : d \in Nat /\ c <= d /\ d < c + N
      BY <2>1, RingAssumption DEF Window
    <2>5. /\ cacheCursor' = c /\ startCursor' = readCursor' /\ readCursor' \in Nat
          /\ readCursor <= readCursor' /\ readCursor' <= c
      BY <1>0, <2>1, CursorOrder
    <2>6. \A d \in Window' :
              \/ BlockAt(d)'.status = "unused" /\ d >= readCursor + N
              \/ d \in Window /\ BlockAt(d)' = BlockAt(d)
      <3> TAKE d \in Window'
      <3>1. d \in Nat /\ c <= d /\ d < c + N BY <2>4
      <3>2. readCursor + N \in Nat BY CursorOrder, RingAssumption
      <3>3. CASE d < readCursor + N BY <2>2, <3>1, <3>3
      <3>4. CASE d >= readCursor + N BY <2>3, <3>1, <3>4
      <3> QED BY <3>1, <3>2, <3>3, <3>4
    <2> QED BY <2>5, <2>6
  <1> QED BY <1>1, <1>2

\* The reader moves on to cursor c, and may publish it.
LEMMA MoveStep ==
  ASSUME IInv, NEW c \in Nat, MayMoveTo(c), NEW b \in BOOLEAN, FreeUpTo(c, b), rpc' = "idle",
         UNCHANGED <<writeCursor, producerVars, sent>>
  PROVE ReaderInv' /\ ThreadInv' /\ ReservationsApart' /\ HeadersApart' /\ FreshBlocks'
  <1>1. /\ \A q \in Producers : NextCursor(q)' = NextCursor(q) /\ cur'[q] = cur[q]
        /\ \A q \in Producers : (Holds(q)' <=> Holds(q)) /\ (Owns(q)' <=> Owns(q))
        /\ pc' = pc /\ need' = need /\ ref' = ref /\ cur' = cur
    BY DEF NextCursor, Holds, Owns, producerVars
  <1>41. cacheCursor <= c /\ c <= writeCursor /\ c - readCursor < N BY DEF MayMoveTo
  <1>42. \A q \in Producers : Holds(q) => c <= cur[q] BY DEF MayMoveTo
  <1>2. /\ cacheCursor' = c /\ startCursor' = readCursor'
        /\ readCursor' \in Nat /\ readCursor <= readCursor' /\ readCursor' <= c
        /\ \A d \in Window' :
                \/ BlockAt(d)'.status = "unused" /\ d >= readCursor + N
                \/ d \in Window /\ BlockAt(d)' = BlockAt(d)
    BY MoveBlocks
  <1>3. \A d \in Window' : d \in Nat BY <1>2, RingAssumption DEF Window
  <1>4. \A d \in Window' : Header(d)' =>
            d \in Window /\ Header(d) /\ BlockAt(d)' = BlockAt(d)
    BY <1>2, <1>3, <1>41, CursorOrder DEF Header
  <1>39. PICK r \in Nat : r = readCursor' /\ readCursor <= r /\ r <= c BY <1>2
  <1>40. /\ N \in Nat /\ W \in Nat /\ readCursor \in Nat /\ writeCursor \in Nat
        /\ readCursor <= r /\ r <= c /\ writeCursor - readCursor < W
    BY <1>39, CursorOrder, RingAssumption
  <1>5. ReaderInv'
    <2>1. c - r < N /\ writeCursor - r < W BY <1>40, <1>41
    <2>2. /\ startCursor' = readCursor' /\ cacheCursor' = c /\ readCursor' = r
          /\ writeCursor' = writeCursor
      BY <1>2, <1>39
    <2> QED BY <1>40, <1>41, <2>1, <2>2 DEF ReaderInv
  <1>6. ThreadInv'
    <2>1. \A q \in Producers :
            /\ ref[q] # NoRef => ref[q] <= readCursor'
            /\ Owns(q) => NextCursor(q) - readCursor' < N
      <3> SUFFICES ASSUME NEW q \in Producers
                   PROVE  /\ ref[q] # NoRef => ref[q] <= r
                          /\ Owns(q) => NextCursor(q) - r < N
        BY <1>39
      <3> QED BY <1>40, CursorOrder DEF IInv, ThreadInv
    <2>2. sent' = sent /\ writeCursor' = writeCursor /\ cacheCursor' = c BY <1>2
    <2>3. \A q \in Producers :
            /\ pc'[q] = pc[q] /\ need'[q] = need[q] /\ ref'[q] = ref[q]
            /\ cur'[q] = cur[q] /\ sent'[q] = sent[q]
      BY <1>1, <2>2
    <2>4. \A q \in Producers :
            /\ pc[q] # "idle" => need[q] > 0 /\ sent[q] < Rounds
            /\ pc[q] \notin {"idle", "ref"} => ref[q] # NoRef
            /\ Holds(q) => c <= cur[q] /\ NextCursor(q) <= writeCursor
      BY <1>42 DEF IInv, ThreadInv
    <2> SUFFICES ASSUME NEW q \in Producers
                 PROVE  /\ pc[q] # "idle" => need[q] > 0 /\ sent[q] < Rounds
                        /\ ref[q] # NoRef => ref[q] <= readCursor'
                        /\ pc[q] \notin {"idle", "ref"} => ref[q] # NoRef
                        /\ Holds(q) => c <= cur[q] /\ NextCursor(q) <= writeCursor
                        /\ Owns(q) => NextCursor(q) - readCursor' < N
      BY <1>1, <2>2, <2>3 DEF ThreadInv
    <2> QED BY <2>1, <2>4
  <1>7. ReservationsApart' BY <1>1 DEF IInv, ReservationsApart
  <1>8. HeadersApart'
    <2> SUFFICES ASSUME NEW d \in Window', Header(d)'
                 PROVE  /\ BlockAt(d)'.num > 0
                        /\ d + BlockAt(d)'.num <= writeCursor
                        /\ d + BlockAt(d)'.num - readCursor' < N
                        /\ \A q \in Producers : Holds(q) =>
                              NextCursor(q) <= d \/ d + BlockAt(d)'.num <= cur[q]
                        /\ \A e \in Window' : Header(e)' /\ d < e => d + BlockAt(d)'.num <= e
      BY <1>1 DEF HeadersApart, ClearOfThreads
    <2>1. d \in Window /\ Header(d) /\ BlockAt(d)' = BlockAt(d) BY <1>4
    <2>2. /\ BlockAt(d).num > 0
          /\ d + BlockAt(d).num <= writeCursor
          /\ d + BlockAt(d).num - readCursor < N
          /\ \A q \in Producers : Holds(q) =>
                NextCursor(q) <= d \/ d + BlockAt(d).num <= cur[q]
          /\ \A e \in Window : Header(e) /\ d < e => d + BlockAt(d).num <= e
      BY <2>1 DEF IInv, HeadersApart, ClearOfThreads
    <2>3. d \in Nat /\ BlockAt(d).num \in Nat
      BY <1>3, <2>1, WindowSlots DEF IInv, TypeOK, BlockAt
    <2>4. d + BlockAt(d).num - readCursor' < N
      <3>1. PICK e \in Nat : e = d + BlockAt(d).num BY <2>3
      <3>2. e - readCursor < N BY <2>2, <2>3, <3>1, CursorOrder, RingAssumption
      <3>3. e - r < N BY <1>40, <3>1, <3>2
      <3> QED BY <1>39, <1>40, <2>3, <3>1, <3>3
    <2> QED BY <1>4, <2>1, <2>2, <2>4
  <1>9. FreshBlocks'
    <2>1. ASSUME NEW d \in Window', d >= c, d \in Window => BlockAt(d).status = "unused"
          PROVE BlockAt(d)'.status = "unused"
      BY <1>2, <1>3, <2>1
    <2>2. ASSUME NEW d \in Window', d >= writeCursor PROVE BlockAt(d)'.status = "unused"
      BY <1>3, <1>41, <2>1, <2>2, CursorOrder DEF IInv, FreshBlocks
    <2>3. ASSUME NEW q \in Producers, pc[q] \in {"over", "back", "mine", "filling"},
                 NEW d \in Window', cur[q] <= d, d < NextCursor(q)
          PROVE BlockAt(d)'.status = "unused"
      <3>1. d >= c BY <1>3, <1>42, <2>3, CursorOrder DEF Holds
      <3> QED BY <2>1, <2>3, <3>1 DEF IInv, FreshBlocks
    <2>4. ASSUME NEW q \in Producers, pc[q] \in {"filling", "filled"}
          PROVE BlockAt(cur[q])'.status = "unused" /\ BlockAt(cur[q])'.num = need[q]
      <3>1. /\ cur[q] \in Window /\ c <= cur[q] /\ cur[q] \in Nat
            /\ BlockAt(cur[q]).status = "unused" /\ BlockAt(cur[q]).num = need[q]
        BY <1>42, <2>4, SettledInWindow, CursorOrder DEF Owns, Holds, IInv, FreshBlocks
      <3>2. cur[q] \in Window' /\ cur[q] < readCursor + N
        BY <1>2, <3>1, CursorOrder, RingAssumption DEF Window
      <3>3. BlockAt(cur[q])' = BlockAt(cur[q])
        BY <1>1, <1>2, <3>1, <3>2, CursorOrder, RingAssumption DEF BlockAt
      <3> QED BY <3>1, <3>3
    <2> QED BY <1>1, <2>2, <2>3, <2>4 DEF FreshBlocks, BlockAt
  <1> QED BY <1>5, <1>6, <1>7, <1>8, <1>9

\* The three steps that move the reader's cursor.
LEMMA ReturnStep ==
  ASSUME IInv, StepOverGap \/ ReturnChunk \/ ReturnEmpty
  PROVE ReaderInv' /\ ThreadInv' /\ ReservationsApart' /\ HeadersApart' /\ FreshBlocks'
  <1> DEFINE c == cacheCursor + HeadBlock.num
  <1>1. ASSUME HeadBlock.status = "used" \/ rpc = "gap"
        PROVE c \in Nat /\ MayMoveTo(c)
    <2>1. HeadBlock.num \in Nat BY HeadBlockType DEF IInv
    <2> QED BY <1>1, <2>1, FrontFits, CursorOrder DEF MayMoveTo
  <1>2. CASE StepOverGap
    <2>1. FreeUpTo(c, FALSE) BY <1>2 DEF StepOverGap, FreeUpTo
    <2>2. c \in Nat /\ MayMoveTo(c) BY <1>1, <1>2 DEF StepOverGap
    <2> HIDE DEF c
    <2> QED BY <1>2, <2>1, <2>2, MoveStep DEF StepOverGap
  <1>3. CASE ReturnChunk
    <2> DEFINE b == Dist(c, startCursor) >= N \div 4
    <2>1. b \in BOOLEAN /\ FreeUpTo(c, b) BY <1>3 DEF ReturnChunk
    <2>2. c \in Nat /\ MayMoveTo(c) BY <1>1, <1>3 DEF ReturnChunk, IInv, ReaderInv
    <2> HIDE DEF b, c
    <2> QED BY <1>3, <2>1, <2>2, MoveStep DEF ReturnChunk
  <1>4. CASE ReturnEmpty
    <2>1. FreeUpTo(cacheCursor, TRUE) BY <1>4 DEF ReturnEmpty
    <2>2. cacheCursor \in Nat /\ MayMoveTo(cacheCursor)
      BY CursorOrder DEF MayMoveTo, IInv, ReaderInv
    <2> QED BY <1>4, <2>1, <2>2, MoveStep DEF ReturnEmpty
  <1> QED BY <1>2, <1>3, <1>4

LEMMA ReaderStep ==
  ASSUME IInv, Reader
  PROVE ReaderInv' /\ ThreadInv' /\ ReservationsApart' /\ HeadersApart' /\ FreshBlocks'
  <1>1. CASE ReadGap BY <1>1, ReadGapStep
  <1>2. CASE StepOverGap \/ ReturnChunk \/ ReturnEmpty BY <1>2, ReturnStep
  <1>3. CASE ReadUsed BY <1>3, LookStep DEF ReadUsed
  <1>4. CASE ReadUnused BY <1>4, LookStep DEF ReadUnused
  <1>5. CASE ReadNothing BY <1>5, LookStep DEF ReadNothing
  <1>6. CASE Discard BY <1>6, LookStep DEF Discard
  <1> QED BY <1>1, <1>2, <1>3, <1>4, <1>5, <1>6 DEF Reader, Read

-----------------------------------------------------------------------------
\* The invariant holds at the start and every step keeps it.

LEMMA InitInv == Init => IInv
  <1> SUFFICES ASSUME Init PROVE IInv OBVIOUS
  <1> USE RingAssumption DEF Init
  <1>1. TypeOK
    <2>1. block \in [Index -> [status : Status, num : Nat, chunk : Chunks \cup {NoChunk}]]
      BY DEF Status
    <2> QED BY <2>1 DEF TypeOK
  <1>2. \A p \in Producers : ~Holds(p) /\ ~Owns(p) /\ pc[p] = "idle" /\ ref[p] = NoRef
    BY DEF Holds, Owns
  <1>3. \A c \in Window : BlockAt(c).status = "unused"
    BY SlotInIndex DEF Window, BlockAt
  <1>4. ReaderInv BY DEF ReaderInv
  <1>5. ThreadInv /\ ReservationsApart BY <1>2 DEF ThreadInv, ReservationsApart
  <1>6. HeadersApart BY <1>3 DEF HeadersApart, Header
  <1>7. FreshBlocks BY <1>2, <1>3 DEF FreshBlocks
  <1> QED BY <1>1, <1>4, <1>5, <1>6, <1>7 DEF IInv

LEMMA StepInv == ASSUME IInv, Sleepers = FALSE, [Next]_vars PROVE IInv'
  <1>1. TypeOK' BY TypeStep DEF IInv
  <1>2. ReaderInv' /\ ThreadInv' /\ ReservationsApart' /\ HeadersApart' /\ FreshBlocks'
    <2>1. CASE UNCHANGED vars
      <3>1. UNCHANGED <<ReaderInv, ThreadInv, ReservationsApart, HeadersApart, FreshBlocks>>
        BY <2>1 DEF vars, producerVars, readerVars, ReaderInv, ThreadInv,
                    ReservationsApart, HeadersApart, FreshBlocks, ClearOfThreads,
                    Header, BlockAt, HeadBlock, Holds, Owns, NextCursor, Window
      <3> QED BY <3>1 DEF IInv
    <2>2. CASE Reader BY <2>2, ReaderStep
    <2>3. ASSUME NEW p \in Producers, AllocBegin(p) \/ TakeReference(p) \/ CheckAgain(p)
          PROVE ReaderInv' /\ ThreadInv' /\ ReservationsApart' /\ HeadersApart' /\ FreshBlocks'
      BY <2>3, CheckStep
    <2>4. ASSUME NEW p \in Producers,
                 FetchAdd(p) \/ LookAgain(p) \/ FallBack(p) \/ LeaveGap(p)
                    \/ AllocReturn(p) \/ Fill(p) \/ Commit(p)
          PROVE ReaderInv' /\ ThreadInv' /\ ReservationsApart' /\ HeadersApart' /\ FreshBlocks'
      BY <2>4, FetchAddStep, LookAgainStep, FallBackStep, LeaveGapStep, AllocReturnStep,
         FillStep, CommitStep
    <2> QED BY <2>1, <2>2, <2>3, <2>4 DEF Next, Proceed
  <1> QED BY <1>1, <1>2 DEF IInv

-----------------------------------------------------------------------------

\* In a run whose threads do not sleep through a whole turn of the cursors, the
\* invariant holds for every ring size, set of threads and set of sizes.
THEOREM Invariant == Sleepers = FALSE => (Spec => []IInv)
  <1> SUFFICES ASSUME Sleepers = FALSE PROVE Spec => []IInv OBVIOUS
  <1>1. Init => IInv BY InitInv
  <1>2. IInv /\ [Next]_vars => IInv' BY StepInv
  <1> QED BY <1>1, <1>2, PTL DEF Spec

\* alloc, commit, read and return keep the cursors, the headers and the threads'
\* own variables within their types.
THEOREM TypeCorrect == Sleepers = FALSE => (Spec => []TypeOK)
  <1> SUFFICES ASSUME Sleepers = FALSE PROVE Spec => []TypeOK OBVIOUS
  <1>1. IInv => TypeOK BY DEF IInv
  <1>2. Spec => []IInv BY Invariant
  <1> QED BY <1>1, <1>2, PTL

\* Whatever reservations are rolled back behind it, a settled reservation stays
\* below the write cursor, and a block of the ring always stays free.
THEOREM SettledStaysBehind == Sleepers = FALSE => (Spec => []SettledIsBehindCursor)
  <1> SUFFICES ASSUME Sleepers = FALSE PROVE Spec => []SettledIsBehindCursor OBVIOUS
  <1>1. IInv => SettledIsBehindCursor
    BY DEF IInv, ThreadInv, SettledIsBehindCursor, Owns, Holds
  <1>2. Spec => []IInv BY Invariant
  <1> QED BY <1>1, <1>2, PTL

\* Two stretches of the window that do not overlap name different blocks.
LEMMA RegionsApart ==
  ASSUME TypeOK, NEW a \in Nat, NEW m \in Nat, NEW b \in Nat, NEW n \in Nat,
         readCursor <= a, a + m <= b, b + n - readCursor < N
  PROVE Region(a, m) \cap Region(b, n) = {}
  <1> SUFFICES ASSUME NEW i \in 0..(m - 1), NEW j \in 0..(n - 1), Slot(a + i) = Slot(b + j)
               PROVE FALSE
    BY DEF Region
  <1>1. readCursor \in Nat /\ N \in Nat BY RingAssumption DEF TypeOK
  <1>2. a + i \in Window /\ b + j \in Window /\ a + i < b + j BY <1>1 DEF Window
  <1>3. a + i = b + j BY <1>2, WindowSlots
  <1> QED BY <1>2, <1>3

\* Two threads never write the same block, nor one the reader has not freed.
THEOREM NobodyShares == Sleepers = FALSE => (Spec => []NoSharedBlock)
  <1> SUFFICES ASSUME Sleepers = FALSE PROVE Spec => []NoSharedBlock OBVIOUS
  <1>1. ASSUME IInv PROVE NoSharedBlock
    <2>1. ASSUME NEW p \in Producers, NEW q \in Producers, p # q, Owns(p), Owns(q)
          PROVE Region(cur[p], need[p]) \cap Region(cur[q], need[q]) = {}
      <3>1. /\ cur[p] \in Nat /\ need[p] \in Nat /\ cur[q] \in Nat /\ need[q] \in Nat
            /\ readCursor \in Nat /\ readCursor <= cur[p] /\ readCursor <= cur[q]
            /\ Holds(p) /\ Holds(q)
        BY <1>1, <2>1, CursorOrder DEF Owns, Holds
      <3>2. NextCursor(p) - readCursor < N /\ NextCursor(q) - readCursor < N
        BY <1>1, <2>1 DEF IInv, ThreadInv
      <3>3. cur[p] + need[p] <= cur[q] \/ cur[q] + need[q] <= cur[p]
        BY <1>1, <2>1, <3>1 DEF IInv, ReservationsApart, NextCursor
      <3> QED BY <1>1, <3>1, <3>2, <3>3, RegionsApart DEF IInv, NextCursor
    <2>2. ASSUME NEW p \in Producers, Owns(p)
          PROVE Region(cur[p], need[p])
                  \cap Region(readCursor, cacheCursor + HeldBlocks - readCursor) = {}
      <3>1. /\ cur[p] \in Nat /\ need[p] \in Nat /\ readCursor \in Nat /\ cacheCursor \in Nat
            /\ readCursor <= cacheCursor /\ cacheCursor <= cur[p] /\ Holds(p)
        BY <1>1, <2>2, CursorOrder DEF Owns, Holds
      <3>2. NextCursor(p) - readCursor < N BY <1>1, <2>2 DEF IInv, ThreadInv
      <3>3. HeldBlocks \in Nat /\ cacheCursor + HeldBlocks <= cur[p]
        <4>1. CASE rpc \in {"holding", "gap"}
          <5>1. rpc = "gap" \/ HeadBlock.status = "used" BY <1>1, <4>1 DEF IInv, ReaderInv
          <5>2. HeadBlock.num \in Nat BY <1>1, HeadBlockType DEF IInv
          <5> QED BY <1>1, <3>1, <4>1, <5>1, <5>2, FrontFits DEF HeldBlocks
        <4>2. CASE rpc \notin {"holding", "gap"} BY <3>1, <4>2 DEF HeldBlocks
        <4> QED BY <4>1, <4>2
      <3>4. PICK m \in Nat : m = cacheCursor + HeldBlocks - readCursor BY <3>1, <3>3
      <3>5. readCursor + m <= cur[p] BY <3>1, <3>3, <3>4
      <3>6. TypeOK BY <1>1 DEF IInv
      <3>7. cur[p] + need[p] - readCursor < N
        BY <3>1, <3>2, RingAssumption DEF NextCursor
      <3>8. Region(readCursor, m) \cap Region(cur[p], need[p]) = {}
        BY <3>1, <3>5, <3>6, <3>7, RegionsApart
      <3> QED BY <3>4, <3>8
    <2> QED BY <2>1, <2>2 DEF NoSharedBlock
  <1>2. Spec => []IInv BY Invariant
  <1> QED BY <1>1, <1>2, PTL

-----------------------------------------------------------------------------
(***************************************************************************)
(* What the blocks hold.                                                   *)
(***************************************************************************)

LEMMA SlotUnique ==
  ASSUME NEW c \in Nat, NEW k \in Int, NEW s \in 0..(N - 1), c = N * k + s
  PROVE Slot(c) = s
  <1> DEFINE m == k - (c \div N)
  <1>1. N \in Nat /\ N > 0 BY RingAssumption
  <1>2. c = N * (c \div N) + Slot(c) /\ c \div N \in Int /\ Slot(c) \in 0..(N - 1)
    BY <1>1 DEF Slot
  <1>3. m \in Int /\ Slot(c) - s = N * m BY <1>1, <1>2
  <1>4. CASE m <= -1
    <2>1. N * m <= -N BY <1>1, <1>3, <1>4
    <2> QED BY <1>1, <1>2, <1>3, <2>1
  <1>5. CASE m >= 1
    <2>1. N * m >= N BY <1>1, <1>3, <1>5
    <2> QED BY <1>1, <1>2, <1>3, <2>1
  <1>6. CASE m = 0
    <2>1. N * m = 0 BY <1>1, <1>6
    <2> QED BY <1>1, <1>2, <1>3, <2>1
  <1> HIDE DEF m
  <1>7. m <= -1 \/ m >= 1 \/ m = 0 BY <1>3
  <1> QED BY <1>4, <1>5, <1>6, <1>7

\* Inside the ring the blocks follow one another as the cursors do.
LEMMA SlotPlus ==
  ASSUME NEW c \in Nat, NEW k \in Nat, Slot(c) + k < N
  PROVE Slot(c + k) = Slot(c) + k
  <1>1. N \in Nat /\ N > 0 BY RingAssumption
  <1>2. c = N * (c \div N) + Slot(c) /\ c \div N \in Int /\ Slot(c) \in 0..(N - 1)
    BY <1>1 DEF Slot
  <1>3. Slot(c) + k \in 0..(N - 1) BY <1>1, <1>2
  <1>4. c + k = N * (c \div N) + (Slot(c) + k) BY <1>1, <1>2
  <1> QED BY <1>2, <1>3, <1>4, SlotUnique

\* Every block of the ring is named by a cursor of the window.
LEMMA WindowCovers ==
  ASSUME TypeOK, NEW i \in Index
  PROVE \E c \in Window : Slot(c) = i
  <1>1. N \in Nat /\ N > 0 /\ readCursor \in Nat /\ i \in 0..(N - 1)
    BY RingAssumption DEF TypeOK, Index
  <1>2. PICK x \in Int : x = i - readCursor BY <1>1
  <1>6. x \div N \in Int /\ x % N \in 0..(N - 1) /\ x = N * (x \div N) + (x % N)
    BY <1>1
  <1>7. PICK k \in Int, r \in 0..(N - 1) : x = N * k + r BY <1>6
  <1>3. readCursor + r \in Window /\ readCursor + r \in Nat BY <1>1 DEF Window
  <1>4. -k \in Int /\ readCursor + r = N * (-k) + i
    <2>1. PICK y \in Int : y = N * k BY <1>1
    <2>2. N * (-k) = -y BY <1>1, <2>1
    <2> QED BY <1>1, <1>2, <1>7, <2>1, <2>2
  <1>5. Slot(readCursor + r) = i BY <1>1, <1>3, <1>4, SlotUnique
  <1> QED BY <1>3, <1>5

LEMMA BlockType ==
  ASSUME TypeOK, NEW c \in Window
  PROVE c \in Nat /\ BlockAt(c) \in [status : Status, num : Nat, chunk : Chunks \cup {NoChunk}]
  BY WindowSlots DEF TypeOK, BlockAt

\* A committed chunk lies in the window, and no reservation overlaps it.
LEMMA UsedApart ==
  ASSUME IInv, DataInv, NEW c \in Window, BlockAt(c).status = "used"
  PROVE \A d \in c..(c + BlockAt(c).num - 1) :
            /\ d \in Window
            /\ \A p \in Producers : Holds(p) => d < cur[p] \/ NextCursor(p) <= d
  <1>1. c \in Nat /\ BlockAt(c).num \in Nat BY BlockType DEF IInv
  <1> SUFFICES ASSUME NEW d \in c..(c + BlockAt(c).num - 1)
               PROVE  /\ d \in Window
                      /\ \A p \in Producers : Holds(p) => d < cur[p] \/ NextCursor(p) <= d
    OBVIOUS
  <1>2. /\ d \in Nat /\ c <= d /\ d < c + BlockAt(c).num /\ readCursor <= c
    BY <1>1, CursorOrder, RingAssumption DEF Window
  <1>3. CASE c < cacheCursor
    <2>1. c + BlockAt(c).num <= cacheCursor BY <1>3 DEF DataInv, ChunksWhole
    <2>2. d < cacheCursor /\ cacheCursor - readCursor < N
      BY <1>1, <1>2, <2>1, CursorOrder DEF IInv, ReaderInv
    <2>3. d \in Window BY <1>2, <2>2, CursorOrder, RingAssumption DEF Window
    <2> QED BY <1>2, <2>2, <2>3, CursorOrder
  <1>4. CASE c >= cacheCursor
    <2>1. Header(c) BY <1>4 DEF Header
    <2>2. /\ c + BlockAt(c).num - readCursor < N
          /\ \A p \in Producers : Holds(p) =>
                NextCursor(p) <= c \/ c + BlockAt(c).num <= cur[p]
      BY <2>1 DEF IInv, HeadersApart, ClearOfThreads
    <2>3. d \in Window BY <1>1, <1>2, <2>2, CursorOrder, RingAssumption DEF Window
    <2> QED BY <1>1, <1>2, <2>2, <2>3, CursorOrder
  <1> QED BY <1>1, <1>3, <1>4, CursorOrder

\* A step that changes no block and moves no cursor of the reader's.
LEMMA SameData ==
  ASSUME IInv, DataInv,
         UNCHANGED <<readCursor, cacheCursor, block, sent>>,
         \A q \in Producers : pc'[q] = "filled" <=> pc[q] = "filled",
         \A q \in Producers : pc'[q] \in {"filling", "filled"} =>
            pc[q] \in {"filling", "filled"} /\ cur'[q] = cur[q] /\ need'[q] = need[q],
         rpc' = "holding" => HeadBlock.chunk = held'
  PROVE DataInv'
  <1>1. Window' = Window /\ (\A c : Header(c)' <=> Header(c))
        /\ (\A c : BlockAt(c)' = BlockAt(c)) /\ HeadBlock' = HeadBlock
    BY DEF Window, Header, BlockAt, HeadBlock
  <1>2. \A q \in Producers : pc'[q] \in {"filling", "filled"} =>
          /\ pc[q] \in {"filling", "filled"} /\ cur'[q] = cur[q]
          /\ NextCursor(q)' = NextCursor(q) /\ (Contiguous(q)' <=> Contiguous(q))
          /\ ChunkOf(q)' = ChunkOf(q)
    BY DEF NextCursor, Contiguous, ChunkOf
  <1>3. ChunksWhole' BY <1>1 DEF DataInv, ChunksWhole
  <1>4. GapsOverTheEnd' BY <1>1 DEF DataInv, GapsOverTheEnd
  <1>5. FilledWhole' BY <1>1, <1>2 DEF DataInv, FilledWhole
  <1>6. DataInside' BY <1>1, <1>2 DEF DataInv, DataInside
  <1>7. HeldIsHead' BY <1>1 DEF HeldIsHead
  <1> QED BY <1>3, <1>4, <1>5, <1>6, <1>7 DEF DataInv

Mine(p, d) == cur[p] <= d /\ d < NextCursor(p)

\* A thread writes inside its own settled reservation.  What there is to show
\* is what its own blocks hold then.
LEMMA PrivateData ==
  ASSUME IInv, DataInv, NEW p \in Producers, Owns(p),
         UNCHANGED <<readCursor, cacheCursor, cur, need, rpc, held>>,
         \A q \in Producers \ {p} : pc'[q] = pc[q] /\ sent'[q] = sent[q],
         sent[p] <= sent'[p], sent' \in [Producers -> 0..Rounds],
         \A c \in Window : Mine(p, c) \/ BlockAt(c)' = BlockAt(c),
         \A c \in Window : Mine(p, c) /\ BlockAt(c)'.status = "used" =>
            /\ Slot(c) + BlockAt(c)'.num <= N
            /\ \A d \in c..(c + BlockAt(c)'.num - 1) : BlockAt(d)'.chunk = BlockAt(c)'.chunk
            /\ BlockAt(c)'.chunk \in Chunks
            /\ BlockAt(c)'.chunk[2] <= sent'[BlockAt(c)'.chunk[1]],
         \A c \in Window : Mine(p, c) /\ BlockAt(c)'.status = "invalid" =>
            Slot(c) + BlockAt(c)'.num > N,
         \A c \in Window : Mine(p, c) /\ BlockAt(c)'.status = "data" =>
            \/ pc'[p] = "filled" /\ cur[p] < c
            \/ \E e \in Window : /\ BlockAt(e)'.status = "used" /\ cacheCursor <= e
                                 /\ e < c /\ c < e + BlockAt(e)'.num,
         pc'[p] \in {"filling", "filled"} => Contiguous(p),
         pc'[p] = "filled" =>
            \A d \in cur[p]..(NextCursor(p) - 1) : BlockAt(d)'.chunk = ChunkOf(p)',
         \A d : BlockAt(d)' = block'[Slot(d)]
  PROVE DataInv'
  <1>1. /\ \A q \in Producers : /\ NextCursor(q)' = NextCursor(q) /\ cur'[q] = cur[q]
                               /\ (Contiguous(q)' <=> Contiguous(q))
        /\ \A q \in Producers \ {p} : ChunkOf(q)' = ChunkOf(q)
        /\ Window' = Window
    BY DEF NextCursor, Contiguous, ChunkOf, Window
  <1>2. /\ Holds(p) /\ cacheCursor <= cur[p] /\ readCursor <= cacheCursor
        /\ cur[p] \in Nat /\ NextCursor(p) \in Nat /\ cacheCursor \in Nat
        /\ cacheCursor \in Window /\ HeadBlock = BlockAt(cacheCursor)
    BY CursorOrder, SettledInWindow DEF Owns, Holds
  <1>3. \A c \in Window : c \in Nat BY BlockType DEF IInv
  <1>4. ASSUME NEW c \in Window, BlockAt(c).status = "used"
        PROVE \A d \in c..(c + BlockAt(c).num - 1) : d \in Window /\ BlockAt(d)' = BlockAt(d)
    <2> TAKE d \in c..(c + BlockAt(c).num - 1)
    <2>1. d \in Window /\ (d < cur[p] \/ NextCursor(p) <= d)
      BY <1>2, <1>4, UsedApart
    <2>2. ~Mine(p, d) BY <1>2, <1>3, <2>1 DEF Mine
    <2> QED BY <2>1, <2>2
  <1>5. ASSUME NEW c \in Window, BlockAt(c).status = "used"
        PROVE BlockAt(c)' = BlockAt(c) /\ BlockAt(c).num \in Nat
    <2>1. c \in Nat /\ BlockAt(c).num \in Nat BY BlockType DEF IInv
    <2>2. CASE c < cacheCursor
      <3>1. ~Mine(p, c) BY <1>2, <2>1, <2>2 DEF Mine
      <3> QED BY <2>1, <3>1
    <2>3. CASE c >= cacheCursor
      <3>1. BlockAt(c).num > 0
        BY <1>5, <2>3 DEF IInv, HeadersApart, Header
      <3>2. c \in c..(c + BlockAt(c).num - 1) BY <2>1, <3>1
      <3> QED BY <1>4, <1>5, <2>1, <3>2
    <2> QED BY <1>2, <2>1, <2>2, <2>3
  <1>6. ChunksWhole'
    <2> SUFFICES ASSUME NEW c \in Window, BlockAt(c)'.status = "used"
                 PROVE  /\ Slot(c) + BlockAt(c)'.num <= N
                        /\ c < cacheCursor => c + BlockAt(c)'.num <= cacheCursor
                        /\ \A d \in c..(c + BlockAt(c)'.num - 1) :
                              BlockAt(d)'.chunk = BlockAt(c)'.chunk
                        /\ BlockAt(c)'.chunk \in Chunks
                        /\ BlockAt(c)'.chunk[2] <= sent'[BlockAt(c)'.chunk[1]]
      BY <1>1 DEF ChunksWhole
    <2>1. CASE Mine(p, c)
      <3>1. ~(c < cacheCursor) BY <1>2, <1>3, <2>1 DEF Mine
      <3> QED BY <2>1, <3>1
    <2>2. CASE ~Mine(p, c)
      <3>1. BlockAt(c)' = BlockAt(c) /\ BlockAt(c).status = "used" BY <2>2
      <3>2. /\ Slot(c) + BlockAt(c).num <= N
            /\ c < cacheCursor => c + BlockAt(c).num <= cacheCursor
            /\ \A d \in c..(c + BlockAt(c).num - 1) : BlockAt(d).chunk = BlockAt(c).chunk
            /\ BlockAt(c).chunk \in Chunks
            /\ BlockAt(c).chunk[2] <= sent[BlockAt(c).chunk[1]]
        BY <3>1 DEF DataInv, ChunksWhole
      <3>3. PICK q \in Producers, n \in 1..Rounds : BlockAt(c).chunk = <<q, n>>
        BY <3>2 DEF Chunks
      <3>4. n <= sent[q] /\ sent[q] <= sent'[q] /\ sent[q] \in Nat /\ sent'[q] \in Nat
            /\ n \in Nat
        BY <3>2, <3>3, RingAssumption DEF IInv, TypeOK
      <3>5. n <= sent'[q] BY <3>4
      <3>6. BlockAt(c).chunk[2] <= sent'[BlockAt(c).chunk[1]] BY <3>3, <3>5
      <3>7. \A d \in c..(c + BlockAt(c).num - 1) : BlockAt(d)'.chunk = BlockAt(c).chunk
        BY <1>4, <3>1, <3>2
      <3> QED BY <3>1, <3>2, <3>6, <3>7
    <2> QED BY <2>1, <2>2
  <1>7. GapsOverTheEnd'
    BY <1>1 DEF DataInv, GapsOverTheEnd
  <1>8. FilledWhole'
    <2> SUFFICES ASSUME NEW q \in Producers
                 PROVE  /\ pc'[q] \in {"filling", "filled"} => Contiguous(q)
                        /\ pc'[q] = "filled" =>
                              \A d \in cur[q]..(NextCursor(q) - 1) :
                                  BlockAt(d)'.chunk = ChunkOf(q)'
      BY <1>1 DEF FilledWhole
    <2>1. CASE q = p BY <2>1
    <2>2. CASE q # p
      <3>1. pc'[q] = pc[q] /\ ChunkOf(q)' = ChunkOf(q) BY <1>1, <2>2
      <3>2. ASSUME pc[q] = "filled", NEW d \in cur[q]..(NextCursor(q) - 1)
            PROVE BlockAt(d)'.chunk = ChunkOf(q)
        <4>1. Holds(q) /\ Owns(q) BY <3>2 DEF Holds, Owns
        <4>2. /\ readCursor \in Nat /\ readCursor <= cur[q] /\ cur[q] \in Nat
              /\ NextCursor(q) \in Nat /\ NextCursor(q) - readCursor < N
          BY <4>1, CursorOrder, SettledInWindow
        <4>3. d \in Window BY <4>2, RingAssumption DEF Window
        <4>4. ~Mine(p, d)
          BY <1>2, <2>2, <3>2, <4>1, <4>2 DEF Mine, IInv, ReservationsApart
        <4> QED BY <3>2, <4>3, <4>4 DEF DataInv, FilledWhole
      <3> QED BY <3>1, <3>2 DEF DataInv, FilledWhole
    <2> QED BY <2>1, <2>2
  <1>9. DataInside'
    <2> SUFFICES ASSUME NEW d \in Window, BlockAt(d)'.status = "data"
                 PROVE  \/ d < cacheCursor
                        \/ \E q \in Producers :
                              pc'[q] = "filled" /\ cur[q] < d /\ d < NextCursor(q)
                        \/ \E c \in Window :
                              /\ BlockAt(c)'.status = "used" /\ cacheCursor <= c
                              /\ c < d /\ d < c + BlockAt(c)'.num
      <3>1. \A c \in Window : cacheCursor <= c <=> c >= cacheCursor BY <1>2, <1>3
      <3>2. \A c \in Window : BlockAt(c)'.status = "used" /\ cacheCursor <= c => Header(c)'
        BY <3>1 DEF Header
      <3> HIDE DEF Header
      <3> QED BY <1>1, <3>2 DEF DataInside
    <2>1. CASE Mine(p, d) BY <2>1 DEF Mine
    <2>2. CASE ~Mine(p, d)
      <3>1. BlockAt(d)' = BlockAt(d) /\ BlockAt(d).status = "data" BY <2>2
      <3>2. CASE d < cacheCursor BY <3>2
      <3>3. ASSUME NEW q \in Producers, pc[q] = "filled", cur[q] < d, d < NextCursor(q)
            PROVE pc'[q] = "filled" /\ cur[q] < d /\ d < NextCursor(q)
        <4>1. q # p BY <1>2, <1>3, <2>2, <3>3 DEF Mine
        <4> QED BY <3>3, <4>1
      <3>4. ASSUME NEW c \in Window, Header(c), BlockAt(c).status = "used",
                   c < d, d < c + BlockAt(c).num
            PROVE /\ BlockAt(c)'.status = "used" /\ cacheCursor <= c
                  /\ c < d /\ d < c + BlockAt(c)'.num
        BY <1>2, <1>3, <1>5, <3>4 DEF Header
      <3> QED BY <3>1, <3>2, <3>3, <3>4 DEF DataInv, DataInside
    <2> QED BY <2>1, <2>2
  <1>10. HeldIsHead'
    <2> SUFFICES ASSUME rpc = "holding" PROVE HeadBlock'.chunk = held
      BY DEF HeldIsHead
    <2>1. BlockAt(cacheCursor).status = "used" BY <1>2 DEF IInv, ReaderInv
    <2>2. BlockAt(cacheCursor)' = BlockAt(cacheCursor) BY <1>2, <1>5, <2>1
    <2>3. HeadBlock' = BlockAt(cacheCursor)' BY DEF HeadBlock, BlockAt
    <2> QED BY <1>2, <2>2, <2>3 DEF DataInv, HeldIsHead
  <1> QED BY <1>6, <1>7, <1>8, <1>9, <1>10 DEF DataInv

\* Only the header of the reservation is written.
LEMMA HeaderWrite ==
  ASSUME IInv, NEW p \in Producers, Owns(p), NEW b,
         block' = [block EXCEPT ![Slot(cur[p])] = b],
         UNCHANGED <<readCursor, cur, need>>
  PROVE /\ cur[p] \in Window /\ Mine(p, cur[p])
        /\ \A c \in Window : BlockAt(c)' = IF c = cur[p] THEN b ELSE BlockAt(c)
        /\ \A d : BlockAt(d)' = block'[Slot(d)]
  <1>1. cur[p] \in Window BY SettledInWindow
  <1>2. Mine(p, cur[p]) BY CursorOrder DEF Mine, Owns, Holds
  <1>3. \A c \in Window : Slot(c) \in Index /\ (Slot(c) = Slot(cur[p]) <=> c = cur[p])
    BY <1>1, WindowSlots DEF IInv
  <1>4. \A c \in Window : BlockAt(c)' = IF c = cur[p] THEN b ELSE BlockAt(c)
    BY <1>3 DEF BlockAt, IInv, TypeOK
  <1>5. \A d : BlockAt(d)' = block'[Slot(d)] BY DEF BlockAt
  <1> QED BY <1>1, <1>2, <1>3, <1>4, <1>5

\* Nothing is written yet in the blocks of a reservation that is not filled.
LEMMA FreshMine ==
  ASSUME IInv, NEW p \in Producers, pc[p] \in {"mine", "filling"}
  PROVE \A c \in Window : Mine(p, c) => BlockAt(c).status = "unused"
  BY DEF IInv, FreshBlocks, Mine

LEMMA LeaveGapData ==
  ASSUME IInv, DataInv, NEW p \in Producers, LeaveGap(p)
  PROVE DataInv'
  <1> DEFINE b == NewHeader(p, "invalid")
  <1>1. Owns(p) /\ pc[p] = "mine" BY DEF LeaveGap, Owns
  <1>2. b.num = need[p] /\ b.status = "invalid"
    <2>1. block[Slot(cur[p])] \in [status : Status, num : Nat, chunk : Chunks \cup {NoChunk}]
      BY CursorOrder, SlotInIndex DEF IInv, TypeOK
    <2> QED BY <2>1 DEF NewHeader
  <1>3. block' = [block EXCEPT ![Slot(cur[p])] = b]
        /\ UNCHANGED <<readCursor, cacheCursor, cur, need, rpc, held, sent>>
        /\ pc' = [pc EXCEPT ![p] = "check"]
    BY DEF LeaveGap, Goto, readerVars
  <1> HIDE DEF b
  <1>4. /\ cur[p] \in Window /\ Mine(p, cur[p])
        /\ \A c \in Window : BlockAt(c)' = IF c = cur[p] THEN b ELSE BlockAt(c)
        /\ \A d : BlockAt(d)' = block'[Slot(d)]
    BY <1>1, <1>3, HeaderWrite
  <1>5. Slot(cur[p]) + need[p] > N
    <2>1. Slot(cur[p]) \in Index /\ need[p] \in Nat /\ N \in Nat
      BY CursorOrder, SlotInIndex, RingAssumption
    <2>2. ~(Slot(cur[p]) + need[p] <= N) BY DEF LeaveGap, Contiguous
    <2> QED BY <2>1, <2>2 DEF Index
  <1>6. \A q \in Producers \ {p} : pc'[q] = pc[q] /\ sent'[q] = sent[q]
    BY <1>3 DEF IInv, TypeOK
  <1>7. sent[p] <= sent'[p] /\ sent' \in [Producers -> 0..Rounds] /\ pc'[p] = "check"
    BY <1>3, RingAssumption DEF IInv, TypeOK
  <1>8. \A c \in Window : Mine(p, c) /\ BlockAt(c)'.status \in {"used", "data", "invalid"}
            => c = cur[p] /\ BlockAt(c)'.status = "invalid"
    <2> SUFFICES ASSUME NEW c \in Window, Mine(p, c), c # cur[p]
                 PROVE BlockAt(c)'.status = "unused"
      BY <1>2, <1>4
    <2>1. BlockAt(c)' = BlockAt(c) BY <1>4
    <2> QED BY <1>1, <2>1, FreshMine
  <1>9. \A c \in Window : Mine(p, c) /\ BlockAt(c)'.status = "invalid" =>
            Slot(c) + BlockAt(c)'.num > N
    BY <1>2, <1>4, <1>5, <1>8
  <1> QED BY <1>1, <1>3, <1>4, <1>6, <1>7, <1>8, <1>9, PrivateData

LEMMA AllocReturnData ==
  ASSUME IInv, DataInv, NEW p \in Producers, AllocReturn(p)
  PROVE DataInv'
  <1> DEFINE b == NewHeader(p, "unused")
  <1>1. Owns(p) /\ pc[p] = "mine" BY DEF AllocReturn, Owns
  <1>2. b.status = "unused"
    <2>1. block[Slot(cur[p])] \in [status : Status, num : Nat, chunk : Chunks \cup {NoChunk}]
      BY CursorOrder, SlotInIndex DEF IInv, TypeOK
    <2> QED BY <2>1 DEF NewHeader
  <1>3. block' = [block EXCEPT ![Slot(cur[p])] = b]
        /\ UNCHANGED <<readCursor, cacheCursor, cur, need, rpc, held, sent>>
        /\ pc' = [pc EXCEPT ![p] = "filling"] /\ Contiguous(p)
    BY DEF AllocReturn, Goto, readerVars
  <1> HIDE DEF b
  <1>4. /\ cur[p] \in Window /\ Mine(p, cur[p])
        /\ \A c \in Window : BlockAt(c)' = IF c = cur[p] THEN b ELSE BlockAt(c)
        /\ \A d : BlockAt(d)' = block'[Slot(d)]
    BY <1>1, <1>3, HeaderWrite
  <1>5. \A q \in Producers \ {p} : pc'[q] = pc[q] /\ sent'[q] = sent[q]
    BY <1>3 DEF IInv, TypeOK
  <1>6. sent[p] <= sent'[p] /\ sent' \in [Producers -> 0..Rounds] /\ pc'[p] = "filling"
    BY <1>3, RingAssumption DEF IInv, TypeOK
  <1>7. \A c \in Window : Mine(p, c) => BlockAt(c)'.status = "unused"
    <2> SUFFICES ASSUME NEW c \in Window, Mine(p, c), c # cur[p]
                 PROVE BlockAt(c)'.status = "unused"
      BY <1>2, <1>4
    <2>1. BlockAt(c)' = BlockAt(c) BY <1>4
    <2> QED BY <1>1, <2>1, FreshMine
  <1> QED BY <1>1, <1>3, <1>4, <1>5, <1>6, <1>7, PrivateData

\* What Fill leaves in the blocks of the window.
LEMMA FillBlocks ==
  ASSUME IInv, NEW p \in Producers, Fill(p)
  PROVE /\ \A c \in Window : ~Mine(p, c) => BlockAt(c)' = BlockAt(c)
        /\ \A c \in Window : Mine(p, c) =>
              /\ BlockAt(c)'.chunk = ChunkOf(p)
              /\ IF c = cur[p] THEN BlockAt(c)'.status = "unused"
                               ELSE BlockAt(c)'.status = "data"
        /\ \A d \in cur[p]..(NextCursor(p) - 1) : d \in Window /\ Mine(p, d)
  <1>1. cur[p] \in Window /\ BlockAt(cur[p]).status = "unused"
        /\ NextCursor(p) - readCursor < N
    BY SettledInWindow DEF Fill, Owns
  <1>2. /\ cur[p] \in Nat /\ cur[p] < NextCursor(p) /\ need[p] \in Nat /\ need[p] > 0
        /\ readCursor \in Nat /\ readCursor <= cur[p] /\ NextCursor(p) \in Nat
    BY CursorOrder DEF Fill, Holds
  <1>3. \A d \in cur[p]..(NextCursor(p) - 1) : d \in Window /\ Mine(p, d)
    BY <1>1, <1>2, RingAssumption DEF Window, Mine
  <1>4. \A c \in Window : Mine(p, c) <=> Slot(c) \in Region(cur[p], need[p])
    <2> TAKE c \in Window
    <2>1. c \in Nat BY BlockType DEF IInv
    <2>2. ASSUME Mine(p, c) PROVE Slot(c) \in Region(cur[p], need[p])
      <3>1. c - cur[p] \in 0..(need[p] - 1) /\ c = cur[p] + (c - cur[p])
        BY <1>2, <2>1, <2>2 DEF Mine, NextCursor
      <3> QED BY <3>1 DEF Region
    <2>3. ASSUME NEW i \in 0..(need[p] - 1), Slot(c) = Slot(cur[p] + i) PROVE Mine(p, c)
      <3>1. cur[p] + i \in cur[p]..(NextCursor(p) - 1) BY <1>2 DEF NextCursor
      <3>2. cur[p] + i \in Window /\ Mine(p, cur[p] + i) BY <1>3, <3>1
      <3>3. c = cur[p] + i BY <2>3, <3>2, WindowSlots DEF IInv
      <3> QED BY <3>2, <3>3
    <2> QED BY <2>2, <2>3 DEF Region
  <1>5. \A c \in Window : Slot(c) \in Index /\ (Slot(c) = Slot(cur[p]) <=> c = cur[p])
    BY <1>1, WindowSlots DEF IInv
  <1>6. ASSUME NEW c \in Window
        PROVE BlockAt(c)' = IF c = cur[p] THEN [BlockAt(c) EXCEPT !.chunk = ChunkOf(p)]
                            ELSE IF Mine(p, c)
                                 THEN [status |-> "data", num |-> 0, chunk |-> ChunkOf(p)]
                                 ELSE BlockAt(c)
    <2>1. BlockAt(c)' = block'[Slot(c)] /\ BlockAt(c) = block[Slot(c)] BY DEF BlockAt
    <2>2. CASE c = cur[p] BY <1>5, <2>1, <2>2 DEF Fill
    <2>5. Slot(c) \in Index /\ (c # cur[p] => Slot(c) # Slot(cur[p])) BY <1>5
    <2>3. CASE c # cur[p] /\ Mine(p, c)
      <3>1. Slot(c) \in Region(cur[p], need[p]) BY <1>4, <2>3
      <3> QED BY <2>1, <2>3, <2>5, <3>1 DEF Fill
    <2>4. CASE c # cur[p] /\ ~Mine(p, c)
      <3>1. Slot(c) \notin Region(cur[p], need[p]) BY <1>4, <2>4
      <3> QED BY <2>1, <2>4, <2>5, <3>1 DEF Fill
    <2> QED BY <2>2, <2>3, <2>4
  <1>7. Mine(p, cur[p]) BY <1>2 DEF Mine
  <1>8. \A c \in Window : c = cur[p] =>
            BlockAt(c)'.chunk = ChunkOf(p) /\ BlockAt(c)'.status = "unused"
    <2> TAKE c \in Window
    <2> HAVE c = cur[p]
    <2>1. /\ [BlockAt(c) EXCEPT !.chunk = ChunkOf(p)].chunk = ChunkOf(p)
          /\ [BlockAt(c) EXCEPT !.chunk = ChunkOf(p)].status = "unused"
      BY <1>1, BlockType DEF IInv
    <2> QED BY <1>6, <2>1
  <1>9. \A c \in Window : c # cur[p] /\ Mine(p, c) =>
            BlockAt(c)'.chunk = ChunkOf(p) /\ BlockAt(c)'.status = "data"
    BY <1>6
  <1>10. \A c \in Window : ~Mine(p, c) => BlockAt(c)' = BlockAt(c)
    BY <1>6, <1>7
  <1> QED BY <1>3, <1>8, <1>9, <1>10

LEMMA FillData ==
  ASSUME IInv, DataInv, NEW p \in Producers, Fill(p)
  PROVE DataInv'
  <1>1. Owns(p) BY DEF Fill, Owns
  <1>2. /\ UNCHANGED <<readCursor, cacheCursor, cur, need, rpc, held, sent>>
        /\ pc[p] = "filling" /\ pc' = [pc EXCEPT ![p] = "filled"]
    BY DEF Fill, Goto, readerVars
  <1>3. \A q \in Producers \ {p} : pc'[q] = pc[q] /\ sent'[q] = sent[q]
    BY <1>2 DEF IInv, TypeOK
  <1>4. sent[p] <= sent'[p] /\ sent' \in [Producers -> 0..Rounds] /\ pc'[p] = "filled"
    BY <1>2, RingAssumption DEF IInv, TypeOK
  <1>5. Contiguous(p) /\ ChunkOf(p)' = ChunkOf(p)
    BY <1>2 DEF DataInv, FilledWhole, ChunkOf
  <1>6. cur[p] \in Nat /\ \A c \in Window : c \in Nat
    BY CursorOrder, BlockType DEF IInv
  <1>7. \A c \in Window :
          /\ Mine(p, c) \/ BlockAt(c)' = BlockAt(c)
          /\ Mine(p, c) => /\ BlockAt(c)'.status \notin {"used", "invalid"}
                           /\ BlockAt(c)'.status = "data" => cur[p] < c
    <2> TAKE c \in Window
    <2>1. CASE ~Mine(p, c) BY <2>1, FillBlocks
    <2>2. CASE Mine(p, c)
      <3>1. cur[p] <= c BY <2>2 DEF Mine
      <3> QED BY <1>6, <2>2, <3>1, FillBlocks
    <2> QED BY <2>1, <2>2
  <1>8. \A d \in cur[p]..(NextCursor(p) - 1) : BlockAt(d)'.chunk = ChunkOf(p)'
    BY <1>5, FillBlocks
  <1>9. \A d : BlockAt(d)' = block'[Slot(d)] BY DEF BlockAt
  <1> QED BY <1>1, <1>2, <1>3, <1>4, <1>5, <1>7, <1>8, <1>9, PrivateData

LEMMA CommitData ==
  ASSUME IInv, DataInv, NEW p \in Producers, Commit(p)
  PROVE DataInv'
  <1> DEFINE b == [block[Slot(cur[p])] EXCEPT !.status = "used"]
  <1>1. Owns(p) /\ Holds(p) /\ pc[p] = "filled" BY DEF Commit, Owns, Holds
  <1>2. /\ block' = [block EXCEPT ![Slot(cur[p])] = b]
        /\ UNCHANGED <<readCursor, cacheCursor, cur, need, rpc, held>>
        /\ pc' = [pc EXCEPT ![p] = "idle"] /\ sent' = [sent EXCEPT ![p] = @ + 1]
    BY DEF Commit, Goto, readerVars
  <1>3. /\ cur[p] \in Nat /\ cur[p] < NextCursor(p) /\ NextCursor(p) \in Nat
        /\ cacheCursor <= cur[p] /\ need[p] \in Nat /\ NextCursor(p) = cur[p] + need[p]
        /\ readCursor \in Nat /\ readCursor <= cur[p] /\ N \in Nat
        /\ NextCursor(p) - readCursor < N /\ cacheCursor \in Nat
    BY <1>1, CursorOrder, SettledInWindow, RingAssumption DEF NextCursor
  <1>4. b.num = need[p] /\ b.status = "used" /\ b.chunk = ChunkOf(p)
    <2>1. block[Slot(cur[p])] \in [status : Status, num : Nat, chunk : Chunks \cup {NoChunk}]
      BY CursorOrder, SlotInIndex DEF IInv, TypeOK
    <2>2. block[Slot(cur[p])].num = need[p]
      BY <1>1 DEF IInv, FreshBlocks, BlockAt
    <2>3. cur[p] \in cur[p]..(NextCursor(p) - 1) BY <1>3
    <2>4. block[Slot(cur[p])].chunk = ChunkOf(p)
      BY <1>1, <2>3 DEF DataInv, FilledWhole, BlockAt
    <2> QED BY <2>1, <2>2, <2>4
  <1> HIDE DEF b
  <1>5. /\ cur[p] \in Window /\ Mine(p, cur[p])
        /\ \A c \in Window : BlockAt(c)' = IF c = cur[p] THEN b ELSE BlockAt(c)
        /\ \A d : BlockAt(d)' = block'[Slot(d)]
    BY <1>1, <1>2, HeaderWrite
  <1>6. \A q \in Producers \ {p} : pc'[q] = pc[q] /\ sent'[q] = sent[q]
    BY <1>2 DEF IInv, TypeOK
  <1>7. /\ sent[p] \in Nat /\ sent[p] < Rounds /\ sent'[p] = sent[p] + 1
        /\ sent[p] <= sent'[p] /\ sent' \in [Producers -> 0..Rounds] /\ pc'[p] = "idle"
    BY <1>1, <1>2, RingAssumption DEF IInv, TypeOK, ThreadInv
  <1>8. \A d \in cur[p]..(NextCursor(p) - 1) :
            d \in Window /\ Mine(p, d) /\ BlockAt(d).chunk = ChunkOf(p)
    BY <1>1, <1>3 DEF Window, Mine, DataInv, FilledWhole
  <1>9. \A c \in Window : Mine(p, c) => c \in cur[p]..(NextCursor(p) - 1)
    <2>1. \A c \in Window : c \in Nat BY BlockType DEF IInv
    <2> QED BY <1>3, <2>1 DEF Mine
  <1>10. \A d \in cur[p]..(NextCursor(p) - 1) : BlockAt(d)'.chunk = ChunkOf(p)
    BY <1>4, <1>5, <1>8
  <1>11. ASSUME NEW c \in Window, Mine(p, c), c # cur[p]
         PROVE BlockAt(c)' = BlockAt(c) /\ BlockAt(c).status \notin {"used", "invalid"}
    <2>1. BlockAt(c)' = BlockAt(c) BY <1>5, <1>11
    <2>2. c \in Nat /\ c >= cacheCursor /\ cur[p] <= c /\ c < NextCursor(p)
      BY <1>3, <1>11, BlockType DEF IInv, Mine
    <2>3. ASSUME Header(c) PROVE FALSE
      <3>1. BlockAt(c).num \in Nat BY BlockType DEF IInv
      <3>2. /\ BlockAt(c).num > 0
            /\ NextCursor(p) <= c \/ c + BlockAt(c).num <= cur[p]
        BY <1>1, <2>3 DEF IInv, HeadersApart, ClearOfThreads
      <3> QED BY <1>3, <2>2, <3>1, <3>2
    <2> QED BY <2>1, <2>2, <2>3 DEF Header
  <1>12. ChunkOf(p) \in Chunks /\ ChunkOf(p)[2] <= sent'[ChunkOf(p)[1]]
    BY <1>7, RingAssumption DEF ChunkOf, Chunks
  <1>13. ASSUME NEW c \in Window, Mine(p, c), BlockAt(c)'.status = "used"
         PROVE /\ Slot(c) + BlockAt(c)'.num <= N
               /\ \A d \in c..(c + BlockAt(c)'.num - 1) :
                     BlockAt(d)'.chunk = BlockAt(c)'.chunk
               /\ BlockAt(c)'.chunk \in Chunks
               /\ BlockAt(c)'.chunk[2] <= sent'[BlockAt(c)'.chunk[1]]
    <2>1. c = cur[p] BY <1>11, <1>13
    <2>2. BlockAt(c)'.num = need[p] /\ BlockAt(c)'.chunk = ChunkOf(p)
      BY <1>4, <1>5, <2>1
    <2>3. Slot(c) + need[p] <= N
      BY <1>1, <2>1 DEF DataInv, FilledWhole, Contiguous
    <2>4. c..(c + BlockAt(c)'.num - 1) = cur[p]..(NextCursor(p) - 1)
      BY <1>3, <2>1, <2>2
    <2> QED BY <1>10, <1>12, <2>2, <2>3, <2>4
  <1>14. ASSUME NEW c \in Window, Mine(p, c), BlockAt(c)'.status = "data"
         PROVE \E e \in Window : /\ BlockAt(e)'.status = "used" /\ cacheCursor <= e
                                 /\ e < c /\ c < e + BlockAt(e)'.num
    <2>1. c # cur[p] BY <1>4, <1>5, <1>14
    <2>2. c \in Nat /\ cur[p] < c /\ c < NextCursor(p)
      BY <1>3, <1>14, <2>1, BlockType DEF IInv, Mine
    <2>3. PICK e \in Window : e = cur[p] BY <1>5
    <2>4. BlockAt(e)' = b BY <1>5, <2>3
    <2>5. BlockAt(e)'.status = "used" /\ BlockAt(e)'.num = need[p] BY <1>4, <2>4
    <2> QED BY <1>3, <2>2, <2>3, <2>5
  <1>15. \A c \in Window : Mine(p, c) /\ BlockAt(c)'.status = "invalid" =>
            Slot(c) + BlockAt(c)'.num > N
    BY <1>4, <1>5, <1>11
  <1> QED BY <1>1, <1>2, <1>5, <1>6, <1>7, <1>13, <1>14, <1>15, PrivateData

\* A gap loses its status; no byte of a chunk is concerned.
LEMMA ReadGapData ==
  ASSUME IInv, DataInv, ReadGap
  PROVE DataInv'
  <1>1. /\ HeadBlock.status = "invalid" /\ rpc' = "gap"
        /\ block' = [block EXCEPT ![Slot(cacheCursor)].status = "unused"]
        /\ UNCHANGED <<readCursor, cacheCursor, pc, need, cur, sent>>
    BY DEF ReadGap, producerVars
  <1>2. cacheCursor \in Window /\ HeadBlock = BlockAt(cacheCursor)
    BY CursorOrder, RingAssumption DEF IInv, ReaderInv, Window, HeadBlock, BlockAt
  <1>3. \A c \in Window :
          Slot(c) \in Index /\ (Slot(c) = Slot(cacheCursor) <=> c = cacheCursor)
    BY <1>2, WindowSlots DEF IInv
  <1>4. \A c \in Window :
          BlockAt(c)' = IF c = cacheCursor THEN [BlockAt(c) EXCEPT !.status = "unused"]
                        ELSE BlockAt(c)
    BY <1>1, <1>3 DEF BlockAt, IInv, TypeOK
  <1>5. \A c \in Window :
          /\ BlockAt(c)'.chunk = BlockAt(c).chunk
          /\ c = cacheCursor => BlockAt(c)'.status = "unused" /\ BlockAt(c).status = "invalid"
          /\ c # cacheCursor => BlockAt(c)' = BlockAt(c)
    <2> TAKE c \in Window
    <2>1. [BlockAt(c) EXCEPT !.status = "unused"].chunk = BlockAt(c).chunk
          /\ [BlockAt(c) EXCEPT !.status = "unused"].status = "unused"
      BY BlockType DEF IInv
    <2> QED BY <1>1, <1>2, <1>4, <2>1
  <1>6. \A c \in Window : BlockAt(c)'.status \in {"used", "data", "invalid"} =>
            BlockAt(c)' = BlockAt(c) /\ (Header(c)' <=> Header(c))
    <2> TAKE c \in Window
    <2> HAVE BlockAt(c)'.status \in {"used", "data", "invalid"}
    <2>1. c # cacheCursor BY <1>5
    <2>2. BlockAt(c)' = BlockAt(c) BY <1>5, <2>1
    <2> QED BY <1>1, <2>2 DEF Header
  <1>7. \A c \in Window : BlockAt(c).status \in {"used", "data"} =>
            BlockAt(c)' = BlockAt(c) /\ (Header(c)' <=> Header(c))
    <2> TAKE c \in Window
    <2> HAVE BlockAt(c).status \in {"used", "data"}
    <2>1. c # cacheCursor BY <1>5
    <2>2. BlockAt(c)' = BlockAt(c) BY <1>5, <2>1
    <2> QED BY <1>1, <2>2 DEF Header
  <1>8. /\ Window' = Window
        /\ \A q \in Producers : /\ NextCursor(q)' = NextCursor(q)
                               /\ (Contiguous(q)' <=> Contiguous(q))
                               /\ ChunkOf(q)' = ChunkOf(q)
    BY <1>1 DEF Window, NextCursor, Contiguous, ChunkOf
  <1>9. ChunksWhole'
    <2> SUFFICES ASSUME NEW c \in Window, BlockAt(c)'.status = "used"
                 PROVE  /\ Slot(c) + BlockAt(c)'.num <= N
                        /\ c < cacheCursor => c + BlockAt(c)'.num <= cacheCursor
                        /\ \A d \in c..(c + BlockAt(c)'.num - 1) :
                              BlockAt(d)'.chunk = BlockAt(c)'.chunk
                        /\ BlockAt(c)'.chunk \in Chunks
                        /\ BlockAt(c)'.chunk[2] <= sent[BlockAt(c)'.chunk[1]]
      BY <1>1, <1>8 DEF ChunksWhole
    <2>1. BlockAt(c)' = BlockAt(c) /\ BlockAt(c).status = "used" BY <1>6
    <2>2. /\ Slot(c) + BlockAt(c).num <= N
          /\ c < cacheCursor => c + BlockAt(c).num <= cacheCursor
          /\ \A d \in c..(c + BlockAt(c).num - 1) : BlockAt(d).chunk = BlockAt(c).chunk
          /\ BlockAt(c).chunk \in Chunks
          /\ BlockAt(c).chunk[2] <= sent[BlockAt(c).chunk[1]]
      BY <2>1 DEF DataInv, ChunksWhole
    <2>3. \A d \in c..(c + BlockAt(c).num - 1) : BlockAt(d)'.chunk = BlockAt(d).chunk
      BY <1>5, <2>1, UsedApart
    <2> QED BY <2>1, <2>2, <2>3
  <1>10. GapsOverTheEnd' BY <1>6, <1>8 DEF DataInv, GapsOverTheEnd
  <1>11. FilledWhole'
    <2> SUFFICES ASSUME NEW q \in Producers, pc[q] = "filled",
                        NEW d \in cur[q]..(NextCursor(q) - 1)
                 PROVE BlockAt(d)'.chunk = ChunkOf(q)
      BY <1>1, <1>8 DEF DataInv, FilledWhole
    <2>1. Owns(q) /\ Holds(q) BY DEF Owns, Holds
    <2>2. d \in Window BY <2>1, CursorOrder, SettledInWindow, RingAssumption DEF Window
    <2> QED BY <1>5, <2>2 DEF DataInv, FilledWhole
  <1>12. DataInside'
    <2> SUFFICES ASSUME NEW d \in Window, BlockAt(d)'.status = "data"
                 PROVE  \/ d < cacheCursor
                        \/ \E q \in Producers :
                              pc[q] = "filled" /\ cur[q] < d /\ d < NextCursor(q)
                        \/ \E c \in Window : /\ Header(c)' /\ BlockAt(c)'.status = "used"
                                             /\ c < d /\ d < c + BlockAt(c)'.num
      BY <1>1, <1>8 DEF DataInside
    <2>1. BlockAt(d).status = "data" BY <1>6
    <2> QED BY <1>7, <2>1 DEF DataInv, DataInside
  <1>13. HeldIsHead' BY <1>1 DEF HeldIsHead
  <1> QED BY <1>9, <1>10, <1>11, <1>12, <1>13 DEF DataInv

\* The reader moves on to cursor c; it leaves no chunk in the middle.
LEMMA MoveData ==
  ASSUME IInv, DataInv, NEW c \in Nat, MayMoveTo(c), NEW b \in BOOLEAN, FreeUpTo(c, b),
         rpc' = "idle", UNCHANGED <<producerVars, sent>>,
         \A d \in Window : Header(d) => c <= d \/ d + BlockAt(d).num <= c
  PROVE DataInv'
  <1>1. /\ cacheCursor' = c /\ readCursor' \in Nat
        /\ readCursor <= readCursor' /\ readCursor' <= c
        /\ \A d \in Window' :
              \/ BlockAt(d)'.status = "unused" /\ d >= readCursor + N
              \/ d \in Window /\ BlockAt(d)' = BlockAt(d)
    BY MoveBlocks
  <1>2. /\ pc' = pc /\ cur' = cur /\ need' = need
        /\ \A q \in Producers : /\ NextCursor(q)' = NextCursor(q)
                               /\ (Contiguous(q)' <=> Contiguous(q))
                               /\ ChunkOf(q)' = ChunkOf(q)
    BY DEF producerVars, NextCursor, Contiguous, ChunkOf
  <1>3. PICK r \in Nat : r = readCursor' BY <1>1
  <1>4. /\ readCursor \in Nat /\ N \in Nat /\ readCursor <= r /\ r <= c
        /\ cacheCursor \in Nat /\ cacheCursor <= c
    BY <1>1, <1>3, CursorOrder, RingAssumption DEF MayMoveTo
  <1>5. /\ Window' = r..(r + N - 1)
        /\ \A d \in Window : d \in Nat /\ (r <= d => d \in Window')
    <2>1. Window' = r..(r + N - 1) BY <1>3 DEF Window
    <2>2. \A d \in Window : d \in Nat /\ d < readCursor + N BY <1>4 DEF Window
    <2>3. \A d \in Window : r <= d => d \in r..(r + N - 1) BY <1>4, <2>2
    <2> QED BY <2>1, <2>2, <2>3
  <1>6. \A d \in Window : r <= d => BlockAt(d)' = BlockAt(d)
    <2> TAKE d \in Window
    <2> HAVE r <= d
    <2>1. d \in Window' /\ d < readCursor + N BY <1>4, <1>5 DEF Window
    <2>2. ~(d >= readCursor + N) BY <1>4, <1>5, <2>1
    <2> QED BY <1>1, <2>1, <2>2
  <1>7. \A d \in Window' : BlockAt(d)'.status # "unused" =>
            d \in Window /\ BlockAt(d)' = BlockAt(d) /\ r <= d /\ d \in Nat
    BY <1>1, <1>4, <1>5
  <1>8. ChunksWhole'
    <2> SUFFICES ASSUME NEW e \in Window', BlockAt(e)'.status = "used"
                 PROVE  /\ Slot(e) + BlockAt(e)'.num <= N
                        /\ e < c => e + BlockAt(e)'.num <= c
                        /\ \A d \in e..(e + BlockAt(e)'.num - 1) :
                              BlockAt(d)'.chunk = BlockAt(e)'.chunk
                        /\ BlockAt(e)'.chunk \in Chunks
                        /\ BlockAt(e)'.chunk[2] <= sent[BlockAt(e)'.chunk[1]]
      BY <1>1 DEF ChunksWhole
    <2>1. e \in Window /\ BlockAt(e)' = BlockAt(e) /\ r <= e /\ e \in Nat
          /\ BlockAt(e).status = "used"
      BY <1>7
    <2>2. /\ Slot(e) + BlockAt(e).num <= N
          /\ e < cacheCursor => e + BlockAt(e).num <= cacheCursor
          /\ \A d \in e..(e + BlockAt(e).num - 1) : BlockAt(d).chunk = BlockAt(e).chunk
          /\ BlockAt(e).chunk \in Chunks
          /\ BlockAt(e).chunk[2] <= sent[BlockAt(e).chunk[1]]
      BY <2>1 DEF DataInv, ChunksWhole
    <2>3. BlockAt(e).num \in Nat BY <2>1, BlockType DEF IInv
    <2>4. e < c => e + BlockAt(e).num <= c
      <3> HAVE e < c
      <3>1. CASE e < cacheCursor BY <1>4, <2>1, <2>2, <2>3, <3>1
      <3>2. CASE e >= cacheCursor
        <4>1. Header(e) BY <2>1, <3>2 DEF Header
        <4> QED BY <1>4, <2>1, <2>3, <4>1
      <3> QED BY <1>4, <2>1, <3>1, <3>2
    <2>5. ASSUME NEW d \in e..(e + BlockAt(e).num - 1)
          PROVE BlockAt(d)'.chunk = BlockAt(e).chunk
      <3>1. d \in Window /\ r <= d BY <1>4, <2>1, <2>3, UsedApart
      <3> QED BY <1>6, <2>2, <3>1
    <2> QED BY <2>1, <2>2, <2>4, <2>5
  <1>9. GapsOverTheEnd' BY <1>7 DEF DataInv, GapsOverTheEnd
  <1>10. FilledWhole'
    <2> SUFFICES ASSUME NEW q \in Producers, pc[q] = "filled",
                        NEW d \in cur[q]..(NextCursor(q) - 1)
                 PROVE BlockAt(d)'.chunk = ChunkOf(q)
      BY <1>2 DEF DataInv, FilledWhole
    <2>1. Owns(q) /\ Holds(q) BY DEF Owns, Holds
    <2>2. c <= cur[q] BY <2>1 DEF MayMoveTo
    <2>3. d \in Window /\ r <= d
      BY <1>4, <2>1, <2>2, CursorOrder, SettledInWindow, RingAssumption DEF Window
    <2> QED BY <1>6, <2>3 DEF DataInv, FilledWhole
  <1>11. DataInside'
    <2> SUFFICES ASSUME NEW d \in Window', BlockAt(d)'.status = "data", ~(d < c)
                 PROVE  \/ \E q \in Producers :
                              pc[q] = "filled" /\ cur[q] < d /\ d < NextCursor(q)
                        \/ \E e \in Window' : /\ Header(e)' /\ BlockAt(e)'.status = "used"
                                              /\ e < d /\ d < e + BlockAt(e)'.num
      BY <1>1, <1>2 DEF DataInside
    <2>1. d \in Window /\ BlockAt(d)' = BlockAt(d) /\ d \in Nat /\ ~(d < cacheCursor)
      BY <1>4, <1>7
    <2>2. ASSUME NEW e \in Window, Header(e), BlockAt(e).status = "used",
                 e < d, d < e + BlockAt(e).num
          PROVE /\ e \in Window' /\ Header(e)' /\ BlockAt(e)'.status = "used"
                /\ e < d /\ d < e + BlockAt(e)'.num
      <3>1. e \in Nat /\ BlockAt(e).num \in Nat BY BlockType DEF IInv
      <3>2. c <= e BY <1>4, <2>1, <2>2, <3>1
      <3>3. e \in Window' /\ BlockAt(e)' = BlockAt(e) BY <1>4, <1>5, <1>6, <3>1, <3>2
      <3>4. Header(e)' BY <1>1, <2>2, <3>2, <3>3 DEF Header
      <3> QED BY <2>2, <3>3, <3>4
    <2> QED BY <2>1, <2>2 DEF DataInv, DataInside
  <1>12. HeldIsHead' BY DEF HeldIsHead
  <1> QED BY <1>8, <1>9, <1>10, <1>11, <1>12 DEF DataInv

LEMMA ReturnData ==
  ASSUME IInv, DataInv, StepOverGap \/ ReturnChunk \/ ReturnEmpty
  PROVE DataInv'
  <1> DEFINE c == cacheCursor + HeadBlock.num
  <1>1. ASSUME HeadBlock.status = "used" \/ rpc = "gap"
        PROVE /\ c \in Nat /\ MayMoveTo(c)
              /\ \A d \in Window : Header(d) => c <= d \/ d + BlockAt(d).num <= c
    <2>1. HeadBlock.num \in Nat /\ HeadBlock = BlockAt(cacheCursor)
      BY HeadBlockType DEF IInv, HeadBlock, BlockAt
    <2>2. c \in Nat /\ MayMoveTo(c)
      BY <1>1, <2>1, FrontFits, CursorOrder DEF MayMoveTo
    <2>3. \A d \in Window : Header(d) => d = cacheCursor \/ c <= d
      BY <1>1, FrontFits
    <2>4. \A d \in Window : d = cacheCursor => d + BlockAt(d).num <= c
      BY <2>1, <2>2
    <2> QED BY <2>2, <2>3, <2>4
  <1>2. CASE StepOverGap
    <2>1. FreeUpTo(c, FALSE) BY <1>2 DEF StepOverGap, FreeUpTo
    <2>2. rpc = "gap" /\ rpc' = "idle" /\ UNCHANGED <<producerVars, sent>>
      BY <1>2 DEF StepOverGap
    <2>3. /\ c \in Nat /\ MayMoveTo(c)
          /\ \A d \in Window : Header(d) => c <= d \/ d + BlockAt(d).num <= c
      BY <1>1, <2>2
    <2> HIDE DEF c
    <2> QED BY <2>1, <2>2, <2>3, MoveData
  <1>3. CASE ReturnChunk
    <2> DEFINE b == Dist(c, startCursor) >= N \div 4
    <2>1. b \in BOOLEAN /\ FreeUpTo(c, b) BY <1>3 DEF ReturnChunk
    <2>2. HeadBlock.status = "used" /\ rpc' = "idle" /\ UNCHANGED <<producerVars, sent>>
      BY <1>3 DEF ReturnChunk, IInv, ReaderInv
    <2>3. /\ c \in Nat /\ MayMoveTo(c)
          /\ \A d \in Window : Header(d) => c <= d \/ d + BlockAt(d).num <= c
      BY <1>1, <2>2
    <2> HIDE DEF b, c
    <2> QED BY <2>1, <2>2, <2>3, MoveData
  <1>4. CASE ReturnEmpty
    <2>1. FreeUpTo(cacheCursor, TRUE) /\ rpc' = "idle" /\ UNCHANGED <<producerVars, sent>>
      BY <1>4 DEF ReturnEmpty
    <2>2. cacheCursor \in Nat /\ MayMoveTo(cacheCursor)
      BY CursorOrder DEF MayMoveTo, IInv, ReaderInv
    <2>3. \A d \in Window : Header(d) => cacheCursor <= d
      BY CursorOrder, BlockType DEF Header, IInv
    <2> QED BY <2>1, <2>2, <2>3, MoveData
  <1> QED BY <1>2, <1>3, <1>4

\* Every step keeps what the blocks hold.
LEMMA StepData == ASSUME IInv, DataInv, [Next]_vars PROVE DataInv'
  <1>1. CASE UNCHANGED vars
    BY <1>1, SameData DEF vars, producerVars, readerVars, DataInv, HeldIsHead
  <1>2. ASSUME NEW p \in Producers,
               \/ AllocBegin(p) \/ TakeReference(p) \/ CheckAgain(p)
               \/ FetchAdd(p) \/ LookAgain(p) \/ FallBack(p)
        PROVE DataInv'
    <2>1. /\ UNCHANGED <<readCursor, cacheCursor, block, sent, rpc, held>>
          /\ pc[p] \notin {"filling", "filled"}
          /\ \E l \in {"idle", "ref", "check", "over", "back", "mine"} :
                pc' = [pc EXCEPT ![p] = l] \/ (pc' = pc /\ l = pc[p])
          /\ \A q \in Producers \ {p} : cur'[q] = cur[q] /\ need'[q] = need[q]
      <3> USE DEF Goto, readerVars, IInv, TypeOK
      <3>1. CASE AllocBegin(p) BY <3>1 DEF AllocBegin
      <3>2. CASE TakeReference(p) BY <3>2 DEF TakeReference
      <3>3. CASE CheckAgain(p) BY <3>3 DEF CheckAgain
      <3>4. CASE FetchAdd(p) BY <3>4 DEF FetchAdd
      <3>5. CASE LookAgain(p) BY <3>5 DEF LookAgain
      <3>6. CASE FallBack(p) BY <3>6 DEF FallBack
      <3> QED BY <1>2, <3>1, <3>2, <3>3, <3>4, <3>5, <3>6
    <2>2. pc'[p] \notin {"filling", "filled"} /\ \A q \in Producers \ {p} : pc'[q] = pc[q]
      BY <2>1 DEF IInv, TypeOK
    <2> QED BY <2>1, <2>2, SameData DEF DataInv, HeldIsHead
  <1>3. ASSUME NEW p \in Producers, LeaveGap(p) \/ AllocReturn(p) \/ Fill(p) \/ Commit(p)
        PROVE DataInv'
    BY <1>3, LeaveGapData, AllocReturnData, FillData, CommitData
  <1>4. CASE ReadUsed \/ ReadUnused \/ ReadNothing \/ Discard
    <2>1. UNCHANGED <<readCursor, cacheCursor, block, sent, pc, cur, need>>
      BY <1>4 DEF ReadUsed, ReadUnused, ReadNothing, Discard, producerVars
    <2>2. rpc' = "holding" => HeadBlock.chunk = held'
      BY <1>4 DEF ReadUsed, ReadUnused, ReadNothing, Discard
    <2> QED BY <2>1, <2>2, SameData
  <1>5. CASE ReadGap BY <1>5, ReadGapData
  <1>6. CASE StepOverGap \/ ReturnChunk \/ ReturnEmpty BY <1>6, ReturnData
  <1> QED BY <1>1, <1>2, <1>3, <1>4, <1>5, <1>6 DEF Next, Proceed, Reader, Read

LEMMA InitData == Init => DataInv
  <1> SUFFICES ASSUME Init PROVE DataInv OBVIOUS
  <1>1. \A c \in Window : BlockAt(c).status = "unused"
    BY SlotInIndex, RingAssumption DEF Init, Window, BlockAt
  <1>2. \A p \in Producers : pc[p] = "idle" BY DEF Init
  <1>3. rpc = "idle" BY DEF Init
  <1> QED BY <1>1, <1>2, <1>3 DEF DataInv, ChunksWhole, GapsOverTheEnd, FilledWhole,
                                  DataInside, HeldIsHead

\* The invariant of the cursors and that of the blocks hold together.
THEOREM WholeInvariant == Sleepers = FALSE => (Spec => []RingInv)
  <1> SUFFICES ASSUME Sleepers = FALSE PROVE Spec => []RingInv OBVIOUS
  <1>1. Init => RingInv BY InitInv, InitData DEF RingInv
  <1>2. RingInv /\ [Next]_vars => RingInv' BY StepInv, StepData DEF RingInv
  <1> QED BY <1>1, <1>2, PTL DEF Spec

\* A chunk that commit_write_chunk has made readable stays as its thread wrote it
\* until the reader publishes its space, and read_chunk hands out that data.
THEOREM ChunksStayIntact == Sleepers = FALSE => (Spec => []CommittedIntact)
  <1> SUFFICES ASSUME Sleepers = FALSE PROVE Spec => []CommittedIntact OBVIOUS
  <1>1. ASSUME RingInv PROVE CommittedIntact
    <2>1. IInv /\ DataInv /\ TypeOK BY <1>1 DEF RingInv, IInv
    <2>2. ASSUME NEW i \in Index, block[i].status = "used"
          PROVE /\ i + block[i].num <= N
                /\ \A j \in i..(i + block[i].num - 1) : block[j].chunk = block[i].chunk
                /\ block[i].chunk # NoChunk
                /\ block[i].chunk[2] <= sent[block[i].chunk[1]]
      <3>1. PICK c \in Window : Slot(c) = i BY <2>1, WindowCovers
      <3>2. block[i] = BlockAt(c) BY <3>1 DEF BlockAt
      <3>3. /\ i + block[i].num <= N
            /\ \A d \in c..(c + block[i].num - 1) : BlockAt(d).chunk = block[i].chunk
            /\ block[i].chunk \in Chunks /\ block[i].chunk[2] <= sent[block[i].chunk[1]]
        BY <2>1, <2>2, <3>1, <3>2 DEF DataInv, ChunksWhole
      <3>4. c \in Nat /\ i \in Nat /\ block[i].num \in Nat /\ N \in Nat
        BY <2>1, <3>2, BlockType, RingAssumption DEF Index
      <3>5. ASSUME NEW j \in i..(i + block[i].num - 1)
            PROVE block[j].chunk = block[i].chunk
        <4>1. j - i \in Nat /\ Slot(c) + (j - i) < N /\ i + (j - i) = j
              /\ c + (j - i) \in c..(c + block[i].num - 1)
          BY <3>1, <3>3, <3>4, <3>5
        <4>2. Slot(c + (j - i)) = j BY <3>1, <3>4, <4>1, SlotPlus
        <4>3. BlockAt(c + (j - i)) = block[j] BY <4>2 DEF BlockAt
        <4> QED BY <3>3, <4>1, <4>3
      <3>6. block[i].chunk # NoChunk
        <4>1. PICK q \in Producers, n \in 1..Rounds : block[i].chunk = <<q, n>>
          BY <3>3 DEF Chunks
        <4> QED BY <4>1 DEF NoChunk
      <3> QED BY <3>3, <3>5, <3>6
    <2>3. rpc = "holding" => HeadBlock.status = "used" /\ HeadBlock.chunk = held
      BY <2>1 DEF IInv, ReaderInv, DataInv, HeldIsHead
    <2> QED BY <2>2, <2>3 DEF CommittedIntact
  <1>2. Spec => []RingInv BY WholeInvariant
  <1> QED BY <1>1, <1>2, PTL

\* read_chunk never looks into the middle of a record: at the reader's cursor
\* there is a free block, the header of a whole chunk or that of a gap.
THEOREM ReaderMeetsHeaders == Sleepers = FALSE => (Spec => []ReaderFindsHeader)
  <1> SUFFICES ASSUME Sleepers = FALSE PROVE Spec => []ReaderFindsHeader OBVIOUS
  <1>1. ASSUME RingInv PROVE ReaderFindsHeader
    <2>1. IInv /\ DataInv BY <1>1 DEF RingInv
    <2>2. /\ cacheCursor \in Window /\ HeadBlock = BlockAt(cacheCursor)
          /\ cacheCursor \in Nat
      BY <2>1, CursorOrder, RingAssumption
      DEF IInv, ReaderInv, Window, HeadBlock, BlockAt
    <2>3. HeadBlock.status # "data"
      <3> SUFFICES ASSUME BlockAt(cacheCursor).status = "data" PROVE FALSE BY <2>2
      <3>1. ASSUME NEW p \in Producers, pc[p] = "filled", cur[p] < cacheCursor
            PROVE FALSE
        <4>1. Holds(p) BY <3>1 DEF Holds
        <4> QED BY <2>1, <2>2, <3>1, <4>1, CursorOrder
      <3>2. ASSUME NEW c \in Window, Header(c), c < cacheCursor PROVE FALSE
        <4>1. c \in Nat /\ c >= cacheCursor BY <2>1, <3>2, BlockType DEF Header, IInv
        <4> QED BY <2>2, <3>2, <4>1
      <3>3. ~(cacheCursor < cacheCursor) BY <2>2
      <3> QED BY <2>1, <2>2, <3>1, <3>2, <3>3 DEF DataInv, DataInside
    <2>4. HeadBlock.status = "used" => Slot(cacheCursor) + HeadBlock.num <= N
      BY <2>1, <2>2 DEF DataInv, ChunksWhole
    <2>5. HeadBlock.status = "invalid" => Slot(cacheCursor) + HeadBlock.num > N
      BY <2>1, <2>2 DEF DataInv, GapsOverTheEnd
    <2> QED BY <2>3, <2>4, <2>5 DEF ReaderFindsHeader
  <1>2. Spec => []RingInv BY WholeInvariant
  <1> QED BY <1>1, <1>2, PTL

-----------------------------------------------------------------------------
(***************************************************************************)
(* The ring is a queue of reservations.  What the queue shows is the one   *)
(* arrangement of the places by their cursors.                             *)
(***************************************************************************)

PlaceSet == [at : Nat, chunk : Chunks, done : BOOLEAN]

\* In an arrangement the positions are as the cursors are,
LEMMA Arrangement ==
  ASSUME NEW s \in Seq(PlaceSet), NEW S, Arranges(s, S)
  PROVE  /\ S \subseteq PlaceSet /\ s \in [1..Len(s) -> S]
         /\ S = {s[k] : k \in 1..Len(s)}
         /\ \A x \in S : \E k \in 1..Len(s) : s[k] = x
         /\ \A i, j \in 1..Len(s) : i < j => s[i].at < s[j].at
         /\ \A i, j \in 1..Len(s) : i <= j <=> s[i].at <= s[j].at
         /\ \A i, j \in 1..Len(s) : s[i] = s[j] => i = j
  <1>1. Len(s) \in Nat /\ DOMAIN s = 1..Len(s) /\ s \in [1..Len(s) -> PlaceSet] OBVIOUS
  <1>2. S = {s[k] : k \in 1..Len(s)} BY <1>1 DEF Arranges, ToSet
  <1>3. \A i, j \in 1..Len(s) : i < j => s[i].at < s[j].at BY <1>1 DEF Arranges
  <1>4. \A i \in 1..Len(s) : s[i] \in PlaceSet /\ s[i].at \in Nat BY <1>1 DEF PlaceSet
  <1>5. \A i, j \in 1..Len(s) : i <= j <=> s[i].at <= s[j].at
    <2> TAKE i, j \in 1..Len(s)
    <2>1. i \in Int /\ j \in Int BY <1>1
    <2>2. CASE i < j BY <1>3, <1>4, <2>1, <2>2
    <2>3. CASE i = j BY <1>4, <2>1, <2>3
    <2>4. CASE j < i
      <3>1. s[j].at < s[i].at BY <1>3, <2>4
      <3> QED BY <1>4, <2>1, <2>4, <3>1
    <2> QED BY <2>1, <2>2, <2>3, <2>4
  <1>6. \A i, j \in 1..Len(s) : s[i] = s[j] => i = j
    <2> SUFFICES ASSUME NEW i \in 1..Len(s), NEW j \in 1..Len(s), s[i] = s[j] PROVE i = j
      OBVIOUS
    <2>1. s[i].at <= s[j].at /\ s[j].at <= s[i].at BY <1>4
    <2>2. i <= j /\ j <= i BY <1>5, <2>1
    <2> QED BY <1>1, <2>2
  <1>7. s \in [1..Len(s) -> S] BY <1>1, <1>2
  <1>8. \A x \in S : \E k \in 1..Len(s) : s[k] = x BY <1>2
  <1>9. S \subseteq PlaceSet BY <1>1, <1>2
  <1> QED BY <1>2, <1>3, <1>5, <1>6, <1>7, <1>8, <1>9

\* no place occurs twice,
LEMMA FirstCount ==
  ASSUME NEW s \in Seq(PlaceSet), NEW S, Arranges(s, S), NEW k \in 0..Len(s),
         NEW T, T = {s[i] : i \in 1..k}
  PROVE  IsFiniteSet(T) /\ Cardinality(T) = k
  <1>1. Len(s) \in Nat /\ k \in Nat /\ \A i \in 1..k : i \in 1..Len(s) OBVIOUS
  <1>2. IsFiniteSet(1..k) /\ Cardinality(1..k) = k
    <2>1. IsFiniteSet(1..k) /\ Cardinality(1..k) = IF 1 > k THEN 0 ELSE k - 1 + 1
      BY <1>1, FS_Interval
    <2> QED BY <1>1, <2>1
  <1> DEFINE f == [i \in 1..k |-> s[i]]
  <1>3. \A i, j \in 1..k : s[i] = s[j] => i = j BY <1>1, Arrangement
  <1>4. f \in Bijection(1..k, T)
    BY <1>3 DEF Bijection, Injection, Surjection, IsInjective
  <1>5. ExistsBijection(1..k, T) BY <1>4 DEF ExistsBijection
  <1> QED BY <1>2, <1>5, FS_Bijection

\* and the position of a place is the number of places up to it.
LEMMA PositionCounts ==
  ASSUME NEW s \in Seq(PlaceSet), NEW S, Arranges(s, S), NEW k \in 1..Len(s)
  PROVE  Cardinality({x \in S : x.at <= s[k].at}) = k
  <1> DEFINE T == {x \in S : x.at <= s[k].at}
  <1>1. Len(s) \in Nat /\ k \in 0..Len(s) /\ \A i : i \in 1..k <=> i \in 1..Len(s) /\ i <= k
    OBVIOUS
  <1>2. \A i \in 1..Len(s) : s[i] \in S /\ (s[i].at <= s[k].at <=> i <= k)
    BY Arrangement
  <1>3. \A x \in S : \E i \in 1..Len(s) : s[i] = x BY Arrangement
  <1>4. ASSUME NEW x \in T PROVE x \in {s[i] : i \in 1..k}
    <2>1. PICK i \in 1..Len(s) : s[i] = x BY <1>3
    <2>2. i <= k BY <1>2, <2>1
    <2> QED BY <1>1, <2>1, <2>2
  <1>5. ASSUME NEW i \in 1..k PROVE s[i] \in T BY <1>1, <1>2
  <1>6. T = {s[i] : i \in 1..k} BY <1>4, <1>5
  <1> HIDE DEF T
  <1>7. Cardinality(T) = k BY <1>1, <1>6, FirstCount
  <1> QED BY <1>7 DEF T

\* So there is one arrangement at most.
LEMMA OneArrangement ==
  ASSUME NEW s \in Seq(PlaceSet), NEW t \in Seq(PlaceSet), NEW S,
         Arranges(s, S), Arranges(t, S)
  PROVE  s = t
  <1>1. Len(s) \in Nat /\ Len(t) \in Nat OBVIOUS
  <1>2. Len(s) = Len(t)
    <2>1. ASSUME NEW r \in Seq(PlaceSet), Arranges(r, S) PROVE Cardinality(S) = Len(r)
      <3>1. S = {r[i] : i \in 1..Len(r)} BY <2>1, Arrangement
      <3>2. Len(r) \in 0..Len(r) OBVIOUS
      <3> QED BY <2>1, <3>1, <3>2, FirstCount
    <2> QED BY <2>1
  <1>3. ASSUME NEW k \in 1..Len(s) PROVE s[k] = t[k]
    <2>1. s[k] \in S BY Arrangement
    <2>2. PICK j \in 1..Len(t) : t[j] = s[k] BY <2>1, Arrangement
    <2>3. Cardinality({x \in S : x.at <= s[k].at}) = k BY PositionCounts
    <2>4. Cardinality({x \in S : x.at <= t[j].at}) = j BY PositionCounts
    <2> QED BY <2>2, <2>3, <2>4
  <1> QED BY <1>1, <1>2, <1>3

\* The arrangement that there is, is the one that is chosen.
LEMMA TheArrangement ==
  ASSUME NEW s \in Seq(PlaceSet), NEW S, Arranges(s, S)
  PROVE  Arranged(S) = s
  <1> DEFINE n == Cardinality(S)
  <1>1. S = {s[i] : i \in 1..Len(s)} BY Arrangement
  <1>2. n = Len(s)
    <2>1. Len(s) \in 0..Len(s) OBVIOUS
    <2> QED BY <1>1, <2>1, FirstCount
  <1>3. n \in Nat /\ s \in [1..n -> S] /\ S \subseteq PlaceSet BY <1>2, Arrangement
  <1> HIDE DEF n
  <1>4. ASSUME NEW t \in [1..n -> S], Arranges(t, S) PROVE t = s
    <2>1. t \in [1..n -> PlaceSet] BY <1>3
    <2>2. t \in Seq(PlaceSet) BY <1>3, <2>1
    <2> QED BY <1>4, <2>2, OneArrangement
  <1>5. (CHOOSE t \in [1..n -> S] : Arranges(t, S)) = s BY <1>3, <1>4
  <1> QED BY <1>5 DEF Arranged, n

LEMMA Showing ==
  ASSUME NEW s \in Seq(PlaceSet)
  PROVE  /\ AllShown(s) \in Seq([chunk : Chunks, done : BOOLEAN])
         /\ Len(AllShown(s)) = Len(s) /\ DOMAIN AllShown(s) = 1..Len(s)
         /\ \A k \in 1..Len(s) : AllShown(s)[k] = Shown(s[k])
  <1>1. Len(s) \in Nat /\ DOMAIN s = 1..Len(s) /\ s \in [1..Len(s) -> PlaceSet] OBVIOUS
  <1>2. \A k \in 1..Len(s) : Shown(s[k]) \in [chunk : Chunks, done : BOOLEAN]
    BY <1>1 DEF Shown, PlaceSet
  <1>3. AllShown(s) = [k \in 1..Len(s) |-> Shown(s[k])] BY <1>1 DEF AllShown
  <1> QED BY <1>1, <1>2, <1>3

-----------------------------------------------------------------------------
\* A place behind all others comes last,
LEMMA PlaceAdded ==
  ASSUME NEW s \in Seq(PlaceSet), NEW S, Arranges(s, S),
         NEW x \in PlaceSet, \A y \in S : y.at < x.at
  PROVE  /\ Append(s, x) \in Seq(PlaceSet) /\ Arranges(Append(s, x), S \cup {x})
         /\ AllShown(Append(s, x)) = Append(AllShown(s), Shown(x))
  <1> DEFINE n == Len(s)
             t == Append(s, x)
  <1>1. /\ n \in Nat /\ t \in Seq(PlaceSet) /\ Len(t) = n + 1 /\ DOMAIN t = 1..(n + 1)
        /\ t[n + 1] = x /\ \A k \in 1..n : t[k] = s[k]
    OBVIOUS
  <1>2. /\ S = {s[k] : k \in 1..n}
        /\ \A i, j \in 1..n : i < j => s[i].at < s[j].at
    BY Arrangement
  <1> HIDE DEF n, t
  <1>3. \A k : k \in 1..(n + 1) <=> k \in 1..n \/ k = n + 1 BY <1>1
  <1>4. ToSet(t) = S \cup {x} BY <1>1, <1>2, <1>3 DEF ToSet
  <1>5. ASSUME NEW i \in 1..(n + 1), NEW j \in 1..(n + 1), i < j
        PROVE  t[i].at < t[j].at
    <2>1. i \in 1..n BY <1>1, <1>5
    <2>2. CASE j = n + 1 BY <1>1, <1>2, <2>1, <2>2
    <2>3. CASE j \in 1..n BY <1>1, <1>2, <1>5, <2>1, <2>3
    <2> QED BY <1>3, <2>2, <2>3
  <1>6. Arranges(t, S \cup {x}) BY <1>1, <1>4, <1>5 DEF Arranges
  <1>7. AllShown(t) = Append(AllShown(s), Shown(x))
    <2> DEFINE u == AllShown(s)
               v == AllShown(t)
               w == Append(u, Shown(x))
    <2>1. /\ u \in Seq([chunk : Chunks, done : BOOLEAN]) /\ Len(u) = n
          /\ \A k \in 1..n : u[k] = Shown(s[k])
      BY Showing DEF n
    <2>2. /\ v \in Seq([chunk : Chunks, done : BOOLEAN]) /\ Len(v) = n + 1
          /\ \A k \in 1..(n + 1) : v[k] = Shown(t[k])
      BY <1>1, Showing
    <2>3. Shown(x) \in [chunk : Chunks, done : BOOLEAN] BY DEF Shown, PlaceSet
    <2> HIDE DEF u, v
    <2>4. /\ w \in Seq([chunk : Chunks, done : BOOLEAN]) /\ Len(w) = n + 1
          /\ w[n + 1] = Shown(x) /\ \A k \in 1..n : w[k] = u[k]
      BY <2>1, <2>3
    <2> HIDE DEF w
    <2>5. \A k \in 1..(n + 1) : w[k] = v[k] BY <1>1, <1>3, <2>1, <2>2, <2>4
    <2>6. w = v BY <1>1, <2>2, <2>4, <2>5
    <2> QED BY <2>6 DEF u, v, w
  <1> QED BY <1>1, <1>6, <1>7 DEF t

\* What is left of a sequence when one element is taken out.
LEMMA TakenOut ==
  ASSUME NEW V, NEW s \in Seq(V), NEW m \in 1..Len(s)
  PROVE  /\ RemoveAt(s, m) \in Seq(V) /\ Len(RemoveAt(s, m)) = Len(s) - 1
         /\ \A k \in 1..(Len(s) - 1) : RemoveAt(s, m)[k] = IF k < m THEN s[k] ELSE s[k + 1]
  <1> DEFINE n == Len(s)
             u == SubSeq(s, 1, m - 1)
             v == SubSeq(s, m + 1, n)
             z == u \o v
  <1>1. n \in Nat /\ m \in Nat /\ m \in 1..n /\ \A k \in 1..n : s[k] \in V OBVIOUS
  <1>2. u \in Seq(V) /\ Len(u) = m - 1 /\ \A k \in 1..(m - 1) : u[k] = s[k]
    <2> HIDE DEF n
    <2>1. \A k \in 1..(m - 1) : s[k] \in V BY <1>1
    <2>2. /\ u \in Seq(V) /\ Len(u) = IF 1 <= m - 1 THEN (m - 1) - 1 + 1 ELSE 0
          /\ \A k \in 1..((m - 1) - 1 + 1) : u[k] = s[1 + k - 1]
      BY <1>1, <2>1, SubSeqProperties
    <2> HIDE DEF u
    <2> QED BY <1>1, <2>2
  <1>3. v \in Seq(V) /\ Len(v) = n - m /\ \A k \in 1..(n - m) : v[k] = s[m + k]
    <2> HIDE DEF n
    <2>1. \A k \in (m + 1)..n : s[k] \in V BY <1>1
    <2>2. /\ v \in Seq(V) /\ Len(v) = IF m + 1 <= n THEN n - (m + 1) + 1 ELSE 0
          /\ \A k \in 1..(n - (m + 1) + 1) : v[k] = s[(m + 1) + k - 1]
      BY <1>1, <2>1, SubSeqProperties
    <2> HIDE DEF v
    <2>3. n - (m + 1) + 1 = n - m /\ (~(m + 1 <= n) => n - m = 0) BY <1>1
    <2>4. \A k \in 1..(n - m) : (m + 1) + k - 1 = m + k BY <1>1
    <2> QED BY <2>2, <2>3, <2>4
  <1> HIDE DEF u, v
  <1>4. RemoveAt(s, m) = z BY DEF RemoveAt, u, v
  <1>5. /\ z \in Seq(V) /\ Len(z) = n - 1
        /\ \A k \in 1..(n - 1) : z[k] = IF k <= m - 1 THEN u[k] ELSE v[k - (m - 1)]
    <2> HIDE DEF n
    <2>1. /\ z \in Seq(V) /\ Len(z) = Len(u) + Len(v)
          /\ \A k \in 1..(Len(u) + Len(v)) : z[k] = IF k <= Len(u) THEN u[k] ELSE v[k - Len(u)]
      BY <1>2, <1>3, ConcatProperties
    <2> HIDE DEF z
    <2>2. Len(u) + Len(v) = n - 1 /\ Len(u) = m - 1 BY <1>1, <1>2, <1>3
    <2> QED BY <2>1, <2>2
  <1> HIDE DEF z
  <1>6. ASSUME NEW k \in 1..(n - 1) PROVE z[k] = IF k < m THEN s[k] ELSE s[k + 1]
    <2> HIDE DEF n
    <2>1. CASE k < m
      <3>1. k <= m - 1 /\ k \in 1..(m - 1) BY <1>1, <2>1
      <3> QED BY <1>2, <1>5, <2>1, <3>1
    <2>2. CASE ~(k < m)
      <3>1. ~(k <= m - 1) /\ k - (m - 1) \in 1..(n - m) /\ m + (k - (m - 1)) = k + 1
        BY <1>1, <2>2
      <3>2. z[k] = v[k - (m - 1)] BY <1>5, <3>1
      <3>3. v[k - (m - 1)] = s[m + (k - (m - 1))] BY <1>3, <3>1
      <3> QED BY <2>2, <3>1, <3>2, <3>3
    <2> QED BY <2>1, <2>2
  <1> QED BY <1>4, <1>5, <1>6 DEF z

\* a place that is given up leaves the others in their order,
LEMMA PlaceRemoved ==
  ASSUME NEW s \in Seq(PlaceSet), NEW S, Arranges(s, S), NEW m \in 1..Len(s)
  PROVE  /\ RemoveAt(s, m) \in Seq(PlaceSet) /\ Arranges(RemoveAt(s, m), S \ {s[m]})
         /\ AllShown(RemoveAt(s, m)) = RemoveAt(AllShown(s), m)
  <1> DEFINE n == Len(s)
             t == RemoveAt(s, m)
  <1>1. /\ n \in Nat /\ m \in 1..n /\ t \in Seq(PlaceSet) /\ Len(t) = n - 1
        /\ \A k \in 1..(n - 1) : t[k] = IF k < m THEN s[k] ELSE s[k + 1]
    BY TakenOut
  <1>2. /\ S = {s[k] : k \in 1..n}
        /\ \A i, j \in 1..n : i < j => s[i].at < s[j].at
        /\ \A i, j \in 1..n : s[i] = s[j] => i = j
    BY Arrangement
  <1>3. DOMAIN t = 1..(n - 1)
    <2> HIDE DEF n, t
    <2> QED BY <1>1
  <1> HIDE DEF n, t
  <1>4. ToSet(t) = S \ {s[m]}
    <2>1. ToSet(t) = {t[k] : k \in 1..(n - 1)} BY <1>3 DEF ToSet
    <2>2. ASSUME NEW k \in 1..(n - 1) PROVE t[k] \in S \ {s[m]}
      <3>1. CASE k < m
        <4>1. k \in 1..n /\ k # m BY <1>1, <3>1
        <4> QED BY <1>1, <1>2, <3>1, <4>1
      <3>2. CASE ~(k < m)
        <4>1. k + 1 \in 1..n /\ k + 1 # m BY <1>1, <3>2
        <4> QED BY <1>1, <1>2, <3>2, <4>1
      <3> QED BY <3>1, <3>2
    <2>3. ASSUME NEW x \in S \ {s[m]} PROVE \E k \in 1..(n - 1) : t[k] = x
      <3>1. PICK j \in 1..n : s[j] = x BY <1>2
      <3>2. j # m BY <3>1
      <3>3. CASE j < m
        <4>1. j \in 1..(n - 1) BY <1>1, <3>3
        <4> QED BY <1>1, <3>1, <3>3, <4>1
      <3>4. CASE m < j
        <4>1. j - 1 \in 1..(n - 1) /\ ~(j - 1 < m) /\ (j - 1) + 1 = j BY <1>1, <3>4
        <4>2. t[j - 1] = s[(j - 1) + 1] BY <1>1, <4>1
        <4> QED BY <3>1, <4>1, <4>2
      <3> QED BY <1>1, <3>2, <3>3, <3>4
    <2> QED BY <2>1, <2>2, <2>3
  <1>5. ASSUME NEW i \in 1..(n - 1), NEW j \in 1..(n - 1), i < j
        PROVE  t[i].at < t[j].at
    <2>1. /\ i \in 1..n /\ j \in 1..n /\ i + 1 \in 1..n /\ j + 1 \in 1..n
          /\ i < j + 1 /\ i + 1 < j + 1
      BY <1>1, <1>5
    <2>2. CASE j < m
      <3>1. i < m BY <1>1, <1>5, <2>2
      <3> QED BY <1>1, <1>2, <1>5, <2>1, <2>2, <3>1
    <2>3. CASE ~(j < m) /\ i < m BY <1>1, <1>2, <2>1, <2>3
    <2>4. CASE ~(j < m) /\ ~(i < m) BY <1>1, <1>2, <2>1, <2>4
    <2> QED BY <2>2, <2>3, <2>4
  <1>6. Arranges(t, S \ {s[m]}) BY <1>3, <1>4, <1>5 DEF Arranges
  <1>7. AllShown(t) = RemoveAt(AllShown(s), m)
    <2> DEFINE D == [chunk : Chunks, done : BOOLEAN]
               u == AllShown(s)
               v == AllShown(t)
               w == RemoveAt(u, m)
    <2>1. u \in Seq(D) /\ Len(u) = n /\ \A k \in 1..n : u[k] = Shown(s[k])
      BY Showing DEF n
    <2>2. v \in Seq(D) /\ Len(v) = n - 1 /\ \A k \in 1..(n - 1) : v[k] = Shown(t[k])
      BY <1>1, Showing
    <2> HIDE DEF u, v, D
    <2>3. m \in 1..Len(u) BY <1>1, <2>1
    <2>4. /\ w \in Seq(D) /\ Len(w) = n - 1
          /\ \A k \in 1..(n - 1) : w[k] = IF k < m THEN u[k] ELSE u[k + 1]
      BY <2>1, <2>3, TakenOut
    <2> HIDE DEF w
    <2>5. ASSUME NEW k \in 1..(n - 1) PROVE w[k] = v[k]
      <3>1. k \in 1..n /\ k + 1 \in 1..n BY <1>1
      <3>2. CASE k < m BY <1>1, <2>1, <2>2, <2>4, <3>1, <3>2
      <3>3. CASE ~(k < m) BY <1>1, <2>1, <2>2, <2>4, <3>1, <3>3
      <3> QED BY <3>2, <3>3
    <2>6. w = v BY <2>2, <2>4, <2>5
    <2> QED BY <2>6 DEF u, v, w
  <1> QED BY <1>1, <1>6, <1>7 DEF t

\* so does the first, when it is taken,
LEMMA PlaceTaken ==
  ASSUME NEW s \in Seq(PlaceSet), NEW S, Arranges(s, S), s # <<>>
  PROVE  /\ Tail(s) \in Seq(PlaceSet) /\ Arranges(Tail(s), S \ {s[1]})
         /\ AllShown(s) # <<>> /\ Head(AllShown(s)) = Shown(s[1])
         /\ AllShown(Tail(s)) = Tail(AllShown(s))
  <1> DEFINE n == Len(s)
             t == Tail(s)
  <1>1. /\ n \in Nat /\ 1 \in 1..n /\ t \in Seq(PlaceSet) /\ Len(t) = n - 1
        /\ \A k \in 1..(n - 1) : t[k] = s[k + 1]
    BY HeadTailProperties
  <1>2. /\ S = {s[k] : k \in 1..n}
        /\ \A i, j \in 1..n : i < j => s[i].at < s[j].at
        /\ \A i, j \in 1..n : s[i] = s[j] => i = j
    BY Arrangement
  <1>3. DOMAIN t = 1..(n - 1)
    <2> HIDE DEF n, t
    <2> QED BY <1>1
  <1> HIDE DEF n, t
  <1>4. ToSet(t) = S \ {s[1]}
    <2>1. ToSet(t) = {t[k] : k \in 1..(n - 1)} BY <1>3 DEF ToSet
    <2>2. ASSUME NEW k \in 1..(n - 1) PROVE t[k] \in S \ {s[1]}
      <3>1. k + 1 \in 1..n /\ k + 1 # 1 BY <1>1
      <3> QED BY <1>1, <1>2, <3>1
    <2>3. ASSUME NEW x \in S \ {s[1]} PROVE \E k \in 1..(n - 1) : t[k] = x
      <3>1. PICK j \in 1..n : s[j] = x BY <1>2
      <3>2. j # 1 BY <3>1
      <3>3. j - 1 \in 1..(n - 1) /\ (j - 1) + 1 = j BY <1>1, <3>2
      <3>4. t[j - 1] = s[(j - 1) + 1] BY <1>1, <3>3
      <3> QED BY <3>1, <3>3, <3>4
    <2> QED BY <2>1, <2>2, <2>3
  <1>5. ASSUME NEW i \in 1..(n - 1), NEW j \in 1..(n - 1), i < j
        PROVE  t[i].at < t[j].at
    <2>1. i + 1 \in 1..n /\ j + 1 \in 1..n /\ i + 1 < j + 1 BY <1>1, <1>5
    <2> QED BY <1>1, <1>2, <2>1
  <1>6. Arranges(t, S \ {s[1]}) BY <1>3, <1>4, <1>5 DEF Arranges
  <1> DEFINE D == [chunk : Chunks, done : BOOLEAN]
             u == AllShown(s)
             v == AllShown(t)
             w == Tail(u)
  <1>7. u \in Seq(D) /\ Len(u) = n /\ \A k \in 1..n : u[k] = Shown(s[k])
    BY Showing DEF n
  <1>8. v \in Seq(D) /\ Len(v) = n - 1 /\ \A k \in 1..(n - 1) : v[k] = Shown(t[k])
    BY <1>1, Showing
  <1> HIDE DEF u, v, D
  <1>9. u # <<>> /\ Head(u) = Shown(s[1]) BY <1>1, <1>7
  <1>10. w \in Seq(D) /\ Len(w) = n - 1 /\ \A k \in 1..(n - 1) : w[k] = u[k + 1]
    BY <1>1, <1>7, <1>9, HeadTailProperties
  <1> HIDE DEF w
  <1>11. ASSUME NEW k \in 1..(n - 1) PROVE w[k] = v[k]
    <2>1. k + 1 \in 1..n BY <1>1
    <2> QED BY <1>1, <1>7, <1>8, <1>10, <2>1
  <1>12. w = v BY <1>8, <1>10, <1>11
  <1> QED BY <1>1, <1>6, <1>9, <1>12 DEF t, u, v, w

\* and one that is committed stays where it is.
LEMMA PlaceCommitted ==
  ASSUME NEW s \in Seq(PlaceSet), NEW S, Arranges(s, S), NEW m \in 1..Len(s),
         NEW y \in PlaceSet, y.at = s[m].at, y.chunk = s[m].chunk, y.done = TRUE
  PROVE  /\ [s EXCEPT ![m] = y] \in Seq(PlaceSet)
         /\ Arranges([s EXCEPT ![m] = y], (S \ {s[m]}) \cup {y})
         /\ AllShown([s EXCEPT ![m] = y]) = [AllShown(s) EXCEPT ![m].done = TRUE]
  <1> DEFINE n == Len(s)
             t == [s EXCEPT ![m] = y]
  <1>1. /\ y \in PlaceSet /\ y.at = s[m].at
        /\ Shown(y) = [Shown(s[m]) EXCEPT !.done = TRUE]
    <2>1. s[m] \in PlaceSet OBVIOUS
    <2> DEFINE D == [chunk : Chunks, done : BOOLEAN]
               r == Shown(s[m])
               z == [r EXCEPT !.done = TRUE]
    <2>2. r \in D /\ r.chunk = s[m].chunk BY <2>1 DEF Shown, PlaceSet
    <2> HIDE DEF r
    <2>3. z \in D /\ z.chunk = s[m].chunk /\ z.done = TRUE BY <2>2
    <2> HIDE DEF z
    <2>4. Shown(y) \in D /\ Shown(y).chunk = s[m].chunk /\ Shown(y).done = TRUE
      BY DEF Shown, PlaceSet
    <2>5. Shown(y) = z
      <3>1. \A a, b \in D : a.chunk = b.chunk /\ a.done = b.done => a = b OBVIOUS
      <3> QED BY <2>3, <2>4, <3>1
    <2> QED BY <2>5 DEF r, z
  <1>2. /\ n \in Nat /\ m \in 1..n /\ t \in [1..n -> PlaceSet] /\ DOMAIN t = 1..n
        /\ \A k \in 1..n : t[k] = IF k = m THEN y ELSE s[k]
    BY <1>1
  <1>3. t \in Seq(PlaceSet) /\ Len(t) = n
    <2> HIDE DEF n, t
    <2> QED BY <1>2
  <1>4. /\ S = {s[k] : k \in 1..n}
        /\ \A i, j \in 1..n : i < j => s[i].at < s[j].at
        /\ \A i, j \in 1..n : s[i] = s[j] => i = j
    BY Arrangement
  <1> HIDE DEF n, t
  <1>5. ToSet(t) = (S \ {s[m]}) \cup {y}
    <2>1. ToSet(t) = {t[k] : k \in 1..n} BY <1>2 DEF ToSet
    <2>2. \A k \in 1..n : t[k] \in (S \ {s[m]}) \cup {y} BY <1>2, <1>4
    <2>3. \A x \in S \ {s[m]} : \E k \in 1..n : t[k] = x BY <1>2, <1>4
    <2>4. t[m] = y BY <1>2
    <2>5. ToSet(t) \subseteq (S \ {s[m]}) \cup {y} BY <2>1, <2>2
    <2>6. S \ {s[m]} \subseteq ToSet(t)
      <3> SUFFICES ASSUME NEW x \in S \ {s[m]} PROVE x \in {t[k] : k \in 1..n} BY <2>1
      <3>1. PICK k \in 1..n : t[k] = x BY <2>3
      <3> QED BY <3>1
    <2>7. y \in ToSet(t) BY <1>2, <2>1, <2>4
    <2> QED BY <2>5, <2>6, <2>7
  <1>6. \A k \in 1..n : t[k].at = s[k].at BY <1>1, <1>2
  <1>7. Arranges(t, (S \ {s[m]}) \cup {y}) BY <1>2, <1>4, <1>5, <1>6 DEF Arranges
  <1> DEFINE D == [chunk : Chunks, done : BOOLEAN]
             u == AllShown(s)
             v == AllShown(t)
             w == [u EXCEPT ![m].done = TRUE]
  <1>8. /\ u \in Seq(D) /\ Len(u) = n /\ DOMAIN u = 1..n
        /\ \A k \in 1..n : u[k] = Shown(s[k])
    BY Showing DEF n
  <1>9. /\ v \in Seq(D) /\ Len(v) = n /\ DOMAIN v = 1..n
        /\ \A k \in 1..n : v[k] = Shown(t[k])
    BY <1>3, Showing
  <1> HIDE DEF u, v, D
  <1>10. \A k \in 1..n : w[k] = v[k] BY <1>1, <1>2, <1>8, <1>9
  <1>11. w = v
    <2>1. v = [k \in 1..n |-> v[k]] BY <1>9
    <2>2. w = [k \in 1..n |-> w[k]] BY <1>8
    <2> QED BY <1>10, <2>1, <2>2
  <1> QED BY <1>3, <1>7, <1>11 DEF t, u, v, w

-----------------------------------------------------------------------------
\* The places in memory, and those of the threads.
LEMMA PlacesType ==
  ASSUME IInv, DataInv
  PROVE  /\ OpenPlaces \subseteq PlaceSet /\ DonePlaces \subseteq PlaceSet
         /\ \A x \in Places : cacheCursor <= x.at /\ x.at < writeCursor
         /\ \A q \in Producers : HasPlace(q) => Holds(q)
         /\ \A q \in Producers : HasPlace(q) =>
                OpenPlace(q) \in Places
  <1>1. \A q \in Producers : HasPlace(q) => Holds(q) BY DEF HasPlace, Holds
  <1>2. ASSUME NEW q \in Producers, HasPlace(q)
        PROVE  /\ cur[q] \in Nat /\ cacheCursor <= cur[q] /\ cur[q] < writeCursor
               /\ ChunkOf(q) \in Chunks
    <2>1. Holds(q) /\ pc[q] # "idle" BY <1>1, <1>2 DEF Holds
    <2>2. sent[q] + 1 \in 1..Rounds
      BY <2>1, RingAssumption DEF IInv, TypeOK, ThreadInv
    <2> QED BY <2>1, <2>2, CursorOrder DEF ChunkOf, Chunks
  <1>3. ASSUME NEW c \in Window, Readable(c)
        PROVE  /\ c \in Nat /\ cacheCursor <= c /\ c < writeCursor
               /\ BlockAt(c).chunk \in Chunks
    <2>1. c \in Nat /\ cacheCursor <= c /\ BlockAt(c).status = "used"
      BY <1>3, BlockType DEF IInv, Readable
    <2>2. ~(c >= writeCursor) BY <2>1 DEF IInv, FreshBlocks
    <2>3. BlockAt(c).chunk \in Chunks BY <2>1 DEF DataInv, ChunksWhole
    <2> QED BY <2>1, <2>2, <2>3, CursorOrder
  <1>4. ASSUME NEW q \in Producers, HasPlace(q)
        PROVE  OpenPlace(q) \in PlaceSet /\ OpenPlace(q).at = cur[q]
    BY <1>2, <1>4 DEF OpenPlace, PlaceSet, Place
  <1>5. ASSUME NEW c \in Window, Readable(c)
        PROVE  DonePlace(c) \in PlaceSet /\ DonePlace(c).at = c
    BY <1>3, <1>5 DEF DonePlace, PlaceSet, Place
  <1>6. ASSUME NEW x \in OpenPlaces
        PROVE  x \in PlaceSet /\ cacheCursor <= x.at /\ x.at < writeCursor
    <2>1. PICK q \in Producers : HasPlace(q) /\ x = OpenPlace(q) BY DEF OpenPlaces
    <2> QED BY <1>2, <1>4, <2>1
  <1>7. ASSUME NEW x \in DonePlaces
        PROVE  x \in PlaceSet /\ cacheCursor <= x.at /\ x.at < writeCursor
    <2>1. PICK c \in Window : Readable(c) /\ x = DonePlace(c) BY DEF DonePlaces
    <2> QED BY <1>3, <1>5, <2>1
  <1>8. \A q \in Producers : HasPlace(q) => OpenPlace(q) \in Places
    BY DEF OpenPlaces, Places
  <1> QED BY <1>1, <1>6, <1>7, <1>8 DEF Places

\* The open places that a thread has are its own alone.
LEMMA OpenIsMine ==
  ASSUME NEW p, NEW x \in Places, Shown(x) = [chunk |-> ChunkOf(p), done |-> FALSE]
  PROVE  p \in Producers /\ HasPlace(p) /\ x = OpenPlace(p)
  <1>1. x.chunk = ChunkOf(p) /\ x.done = FALSE
    <2> DEFINE y == Shown(x)
    <2>1. y.chunk = ChunkOf(p) /\ y.done = FALSE
      <3> HIDE DEF y
      <3>1. y = [chunk |-> ChunkOf(p), done |-> FALSE] BY DEF y
      <3> QED BY <3>1
    <2>2. y.chunk = x.chunk /\ y.done = x.done BY DEF Shown
    <2> QED BY <2>1, <2>2
  <1>2. x \notin DonePlaces BY <1>1 DEF DonePlaces, DonePlace, Place
  <1>3. PICK q \in Producers : HasPlace(q) /\ x = OpenPlace(q)
    BY <1>2 DEF Places, OpenPlaces
  <1>4. ChunkOf(q) = ChunkOf(p) BY <1>1, <1>3 DEF OpenPlace, Place
  <1>5. q = p BY <1>4 DEF ChunkOf
  <1> QED BY <1>3, <1>5

\* What a step leaves of the places of the other threads.
OthersKeep(P) ==
  \A q \in P : /\ HasPlace(q)' <=> HasPlace(q)
               /\ HasPlace(q) => cur'[q] = cur[q] /\ ChunkOf(q)' = ChunkOf(q)

LEMMA OpenAfter ==
  ASSUME NEW p \in Producers, OthersKeep(Producers \ {p})
  PROVE  /\ HasPlace(p) /\ ~HasPlace(p)' => OpenPlaces' = OpenPlaces \ {OpenPlace(p)}
         /\ ~HasPlace(p) /\ HasPlace(p)' => OpenPlaces' = OpenPlaces \cup {OpenPlace(p)'}
         /\ ~HasPlace(p) /\ ~HasPlace(p)' => OpenPlaces' = OpenPlaces
  <1> DEFINE H == {q \in Producers : HasPlace(q)}
  <1>1. OpenPlaces' = {OpenPlace(q)' : q \in H'} BY DEF OpenPlaces
  <1>2. OpenPlaces = {OpenPlace(q) : q \in H} BY DEF OpenPlaces
  <1>3. /\ \A q \in Producers \ {p} : q \in H' <=> q \in H
        /\ \A q \in H \ {p} : OpenPlace(q)' = OpenPlace(q)
    BY DEF OthersKeep, OpenPlace, Place
  <1>4. \A q \in Producers \ {p} : OpenPlace(q) # OpenPlace(p)
    BY DEF OpenPlace, Place, ChunkOf
  <1>5. (p \in H <=> HasPlace(p)) /\ (p \in H' <=> HasPlace(p)') /\ H \subseteq Producers
        /\ H' \subseteq Producers
    OBVIOUS
  <1> HIDE DEF H
  <1>6. CASE p \in H /\ p \notin H'
    <2>1. H' = H \ {p} BY <1>3, <1>5, <1>6
    <2>2. OpenPlaces' = {OpenPlace(q) : q \in H \ {p}} BY <1>1, <1>3, <2>1
    <2>3. OpenPlaces' = OpenPlaces \ {OpenPlace(p)} BY <1>2, <1>4, <1>5, <1>6, <2>2
    <2> QED BY <1>5, <1>6, <2>3
  <1>7. CASE p \notin H /\ p \in H'
    <2>1. H' = H \cup {p} BY <1>3, <1>5, <1>7
    <2>2. H \ {p} = H BY <1>7
    <2>3. OpenPlaces' = OpenPlaces \cup {OpenPlace(p)'} BY <1>1, <1>2, <1>3, <2>1, <2>2
    <2> QED BY <1>5, <1>7, <2>3
  <1>8. CASE p \notin H /\ p \notin H'
    <2>1. H' = H /\ H \ {p} = H BY <1>3, <1>5, <1>8
    <2>2. OpenPlaces' = OpenPlaces BY <1>1, <1>2, <1>3, <2>1
    <2> QED BY <1>5, <1>8, <2>2
  <1> QED BY <1>5, <1>6, <1>7, <1>8

LEMMA OpenSame == ASSUME OthersKeep(Producers) PROVE OpenPlaces' = OpenPlaces
  BY DEF OthersKeep, OpenPlaces, OpenPlace, Place

\* Nothing changes for the reader where the used blocks stay as they are.
LEMMA DoneAfter ==
  ASSUME UNCHANGED <<readCursor, cacheCursor>>,
         \A c \in Window : BlockAt(c).status = "used" \/ BlockAt(c)'.status = "used" =>
            BlockAt(c)'.status = BlockAt(c).status /\ BlockAt(c)'.chunk = BlockAt(c).chunk
  PROVE  DonePlaces' = DonePlaces
  <1>1. Window' = Window BY DEF Window
  <1>2. \A c \in Window : Readable(c)' <=> Readable(c) BY DEF Readable
  <1>3. \A c \in Window : Readable(c) => BlockAt(c)'.chunk = BlockAt(c).chunk
    BY DEF Readable
  <1> QED BY <1>1, <1>2, <1>3 DEF DonePlaces, DonePlace, Place

-----------------------------------------------------------------------------
\* The places can be put in the order of their cursors: no two begin alike.
InOrder == \E s \in Seq(PlaceSet) : Arranges(s, Places)

LEMMA QueueSame ==
  ASSUME InOrder, Places' = Places
  PROVE  InOrder' /\ queue' = queue
  BY DEF InOrder, queue

LEMMA QueueGrows ==
  ASSUME InOrder, NEW x \in PlaceSet, \A y \in Places : y.at < x.at,
         Places' = Places \cup {x}
  PROVE  InOrder' /\ queue' = Append(queue, Shown(x))
  <1>1. PICK s \in Seq(PlaceSet) : Arranges(s, Places) BY DEF InOrder
  <1>2. /\ Append(s, x) \in Seq(PlaceSet) /\ Arranges(Append(s, x), Places')
        /\ AllShown(Append(s, x)) = Append(AllShown(s), Shown(x))
    BY <1>1, PlaceAdded
  <1>3. Arranged(Places) = s /\ Arranged(Places') = Append(s, x)
    BY <1>1, <1>2, TheArrangement
  <1> QED BY <1>2, <1>3 DEF InOrder, queue

LEMMA QueueLoses ==
  ASSUME InOrder, NEW x \in Places, Places' = Places \ {x}
  PROVE  /\ InOrder'
         /\ \E i \in DOMAIN queue : queue[i] = Shown(x) /\ queue' = RemoveAt(queue, i)
  <1>1. PICK s \in Seq(PlaceSet) : Arranges(s, Places) BY DEF InOrder
  <1>2. PICK m \in 1..Len(s) : s[m] = x BY <1>1, Arrangement
  <1>3. /\ RemoveAt(s, m) \in Seq(PlaceSet) /\ Arranges(RemoveAt(s, m), Places')
        /\ AllShown(RemoveAt(s, m)) = RemoveAt(AllShown(s), m)
    BY <1>1, <1>2, PlaceRemoved
  <1>4. Arranged(Places) = s /\ Arranged(Places') = RemoveAt(s, m)
    BY <1>1, <1>3, TheArrangement
  <1>5. m \in DOMAIN AllShown(s) /\ AllShown(s)[m] = Shown(x) BY <1>2, Showing
  <1> QED BY <1>3, <1>4, <1>5 DEF InOrder, queue

LEMMA QueueCommits ==
  ASSUME InOrder, NEW x \in Places,
         NEW y \in PlaceSet, y.at = x.at, y.chunk = x.chunk, y.done = TRUE,
         Places' = (Places \ {x}) \cup {y}
  PROVE  /\ InOrder'
         /\ \E i \in DOMAIN queue :
                queue[i] = Shown(x) /\ queue' = [queue EXCEPT ![i].done = TRUE]
  <1>1. PICK s \in Seq(PlaceSet) : Arranges(s, Places) BY DEF InOrder
  <1>2. PICK m \in 1..Len(s) : s[m] = x BY <1>1, Arrangement
  <1> DEFINE t == [s EXCEPT ![m] = y]
  <1>3. /\ t \in Seq(PlaceSet) /\ Arranges(t, Places')
        /\ AllShown(t) = [AllShown(s) EXCEPT ![m].done = TRUE]
    BY <1>1, <1>2, PlaceCommitted
  <1> HIDE DEF t
  <1>4. Arranged(Places) = s /\ Arranged(Places') = t
    BY <1>1, <1>3, TheArrangement
  <1>5. m \in DOMAIN AllShown(s) /\ AllShown(s)[m] = Shown(x) BY <1>2, Showing
  <1> QED BY <1>3, <1>4, <1>5 DEF InOrder, queue

LEMMA QueueTakes ==
  ASSUME InOrder, NEW x \in Places, \A y \in Places : x.at <= y.at,
         Places' = Places \ {x}
  PROVE  /\ InOrder' /\ queue # <<>> /\ Head(queue) = Shown(x)
         /\ queue' = Tail(queue)
  <1>1. PICK s \in Seq(PlaceSet) : Arranges(s, Places) BY DEF InOrder
  <1>2. PICK m \in 1..Len(s) : s[m] = x BY <1>1, Arrangement
  <1>3. Len(s) \in Nat /\ 1 \in 1..Len(s) /\ s # <<>>
    <2>1. Len(s) \in Nat OBVIOUS
    <2>2. 1 \in 1..Len(s) BY <2>1
    <2> QED BY <2>1, <2>2
  <1>4. s[1] = x
    <2>1. s[1] \in Places BY <1>1, <1>3, Arrangement
    <2>2. m <= 1 BY <1>1, <1>2, <1>3, <2>1, Arrangement
    <2>3. m = 1 BY <1>3, <2>2
    <2> QED BY <1>2, <2>3
  <1>5. /\ Tail(s) \in Seq(PlaceSet) /\ Arranges(Tail(s), Places')
        /\ AllShown(s) # <<>> /\ Head(AllShown(s)) = Shown(x)
        /\ AllShown(Tail(s)) = Tail(AllShown(s))
    BY <1>1, <1>3, <1>4, PlaceTaken
  <1>6. Arranged(Places) = s /\ Arranged(Places') = Tail(s)
    BY <1>1, <1>5, TheArrangement
  <1> QED BY <1>5, <1>6 DEF InOrder, queue

LEMMA OpenShown == \A p : Shown(OpenPlace(p)) = Q!Open(p)
  BY DEF Shown, OpenPlace, Place, Q!Open, Q!ChunkOf, ChunkOf

LEMMA SameOperators ==
  /\ \A s, i : Q!RemoveAt(s, i) = RemoveAt(s, i)
  /\ \A s, e : Q!Contains(s, e) <=> Contains(s, e)
  BY DEF RemoveAt, Q!RemoveAt, Contains, Q!Contains

\* A thread without a place has none in the queue.
LEMMA NotReserved ==
  ASSUME InOrder, NEW p, ~HasPlace(p)
  PROVE  ~Contains(queue, Q!Open(p))
  <1>1. PICK s \in Seq(PlaceSet) : Arranges(s, Places) BY DEF InOrder
  <1>2. queue = AllShown(s) BY <1>1, TheArrangement DEF queue
  <1>3. ASSUME NEW i \in 1..Len(queue), queue[i] = Q!Open(p) PROVE FALSE
    <2>1. i \in 1..Len(s) /\ Shown(s[i]) = Q!Open(p) BY <1>2, <1>3, Showing
    <2>2. s[i] \in Places BY <1>1, <2>1, Arrangement
    <2> QED BY <2>1, <2>2, OpenIsMine DEF Q!Open, Q!ChunkOf, ChunkOf
  <1> QED BY <1>3 DEF Contains

-----------------------------------------------------------------------------
\* A step of the ring, as one of the queue.
Simulates == InOrder' /\ [Q!Next]_(Q!vars)

\* A step that leaves the places alone is no step of the queue.
LEMMA QuietStep ==
  ASSUME InOrder, UNCHANGED <<OpenPlaces, DonePlaces, sent, last>>
  PROVE  Simulates
  <1>1. Places' = Places BY DEF Places
  <1> QED BY <1>1, QueueSame DEF Simulates, Q!vars

\* A reservation that is not settled as a chunk is given up.
LEMMA GiveUpStep ==
  ASSUME InOrder, IInv, DataInv, NEW p \in Producers, HasPlace(p), ~HasPlace(p)',
         OthersKeep(Producers \ {p}), UNCHANGED <<DonePlaces, sent, last>>
  PROVE  Simulates
  <1>1. OpenPlaces' = OpenPlaces \ {OpenPlace(p)} BY OpenAfter
  <1>2. OpenPlace(p) \notin DonePlaces
    BY DEF OpenPlace, DonePlaces, DonePlace, Place
  <1>3. OpenPlace(p) \in Places /\ Places' = Places \ {OpenPlace(p)}
    BY <1>1, <1>2, PlacesType DEF Places
  <1>4. /\ InOrder'
        /\ \E i \in DOMAIN queue : queue[i] = Q!Open(p) /\ queue' = RemoveAt(queue, i)
    BY <1>3, OpenShown, QueueLoses
  <1>5. Q!GiveUp(p) BY <1>4, SameOperators DEF Q!GiveUp
  <1> QED BY <1>4, <1>5 DEF Simulates, Q!Next

\* fetch_add reserves, unless what it reserves is going to be a gap.
LEMMA FetchAddSimulates ==
  ASSUME InOrder, IInv, DataInv, NEW p \in Producers, FetchAdd(p)
  PROVE  Simulates
  <1>1. /\ pc[p] = "check" /\ ~HasPlace(p) /\ pc'[p] \in {"over", "mine"}
        /\ \A q \in Producers \ {p} : pc'[q] = pc[q] /\ cur'[q] = cur[q]
        /\ cur'[p] = writeCursor
        /\ UNCHANGED <<readCursor, cacheCursor, block, need, sent, last>>
    BY DEF FetchAdd, Goto, readerVars, IInv, TypeOK, HasPlace
  <1>2. OthersKeep(Producers \ {p})
    BY <1>1 DEF OthersKeep, HasPlace, Contiguous, ChunkOf
  <1>3. DonePlaces' = DonePlaces BY <1>1, DoneAfter DEF BlockAt
  <1>4. CASE ~HasPlace(p)'
    <2>1. OpenPlaces' = OpenPlaces BY <1>1, <1>2, <1>4, OpenAfter
    <2> QED BY <1>1, <1>3, <2>1, QuietStep
  <1>5. CASE HasPlace(p)'
    <2> DEFINE x == Place(writeCursor, ChunkOf(p), FALSE)
    <2>1. OpenPlace(p)' = x BY <1>1 DEF OpenPlace, Place, ChunkOf
    <2>2. Places' = Places \cup {x}
      BY <1>1, <1>2, <1>3, <1>5, <2>1, OpenAfter DEF Places
    <2>3. sent[p] < Rounds /\ ChunkOf(p) \in Chunks
      BY <1>1, RingAssumption DEF IInv, TypeOK, ThreadInv, ChunkOf, Chunks
    <2>4. x \in PlaceSet /\ x.at = writeCursor /\ Shown(x) = Q!Open(p)
      <3>1. writeCursor \in Nat BY CursorOrder
      <3> QED BY <2>3, <3>1
          DEF Place, PlaceSet, Shown, Q!Open, Q!ChunkOf, ChunkOf
    <2> HIDE DEF x
    <2>5. \A y \in Places : y.at < x.at BY <2>4, PlacesType
    <2>6. InOrder' /\ queue' = Append(queue, Q!Open(p)) BY <2>2, <2>4, <2>5, QueueGrows
    <2>7. Q!Reserve(p) BY <1>1, <2>3, <2>6, NotReserved, SameOperators DEF Q!Reserve
    <2> QED BY <2>6, <2>7 DEF Simulates, Q!Next
  <1> QED BY <1>4, <1>5

\* What a thread does that does not touch memory, apart from fetch_add.
LEMMA ThreadSimulates ==
  ASSUME InOrder, IInv, DataInv, NEW p \in Producers,
         \/ AllocBegin(p) \/ TakeReference(p) \/ CheckAgain(p)
         \/ LookAgain(p) \/ FallBack(p)
  PROVE  Simulates
  <1>1. /\ UNCHANGED <<readCursor, cacheCursor, block, sent, last>>
        /\ \A q \in Producers \ {p} :
              pc'[q] = pc[q] /\ cur'[q] = cur[q] /\ need'[q] = need[q]
    <2> USE DEF Goto, readerVars, IInv, TypeOK
    <2>1. CASE AllocBegin(p) BY <2>1 DEF AllocBegin
    <2>2. CASE TakeReference(p) BY <2>2 DEF TakeReference
    <2>3. CASE CheckAgain(p) BY <2>3 DEF CheckAgain
    <2>4. CASE LookAgain(p) BY <2>4 DEF LookAgain
    <2>5. CASE FallBack(p) BY <2>5 DEF FallBack
    <2> QED BY <2>1, <2>2, <2>3, <2>4, <2>5
  <1>2. OthersKeep(Producers \ {p})
    BY <1>1 DEF OthersKeep, HasPlace, Contiguous, ChunkOf
  <1>3. DonePlaces' = DonePlaces BY <1>1, DoneAfter DEF BlockAt
  <1>4. CASE AllocBegin(p) \/ TakeReference(p) \/ CheckAgain(p)
    <2>1. pc[p] \in {"idle", "ref", "check"} /\ pc'[p] \in {"idle", "ref", "check"}
      BY <1>4 DEF AllocBegin, TakeReference, CheckAgain, Goto, IInv, TypeOK
    <2>2. ~HasPlace(p) /\ ~HasPlace(p)' BY <2>1 DEF HasPlace
    <2> QED BY <1>1, <1>2, <1>3, <2>2, OpenAfter, QuietStep
  <1>5. CASE LookAgain(p) \/ FallBack(p)
    <2>1. HasPlace(p) /\ cur' = cur /\ need' = need
      BY <1>5 DEF LookAgain, FallBack, HasPlace
    <2>2. CASE HasPlace(p)'
      <3>1. OthersKeep(Producers)
        BY <1>1, <1>2, <2>1, <2>2 DEF OthersKeep, ChunkOf
      <3> QED BY <1>1, <1>3, <3>1, OpenSame, QuietStep
    <2>3. CASE ~HasPlace(p)' BY <1>1, <1>2, <1>3, <2>1, <2>3, GiveUpStep
    <2> QED BY <2>2, <2>3
  <1> QED BY <1>4, <1>5

-----------------------------------------------------------------------------
\* What a thread does inside its own reservation: a gap, the header, the data.
LEMMA WriteSimulates ==
  ASSUME InOrder, IInv, DataInv, NEW p \in Producers,
         LeaveGap(p) \/ AllocReturn(p) \/ Fill(p)
  PROVE  Simulates
  <1>1. /\ UNCHANGED <<readCursor, cacheCursor, cur, need, sent, last>>
        /\ \A q \in Producers \ {p} : pc'[q] = pc[q]
        /\ pc[p] \in {"mine", "filling"}
    BY DEF LeaveGap, AllocReturn, Fill, Goto, readerVars, IInv, TypeOK
  <1>2. DonePlaces' = DonePlaces
    <2>1. ASSUME NEW c \in Window
          PROVE  \/ BlockAt(c).status # "used" /\ BlockAt(c)'.status # "used"
                 \/ BlockAt(c)' = BlockAt(c)
      <3>1. CASE Fill(p)
        <4>1. CASE Mine(p, c)
          <5>1. BlockAt(c).status = "unused" BY <1>1, <4>1, FreshMine
          <5>2. BlockAt(c)'.status \in {"unused", "data"} BY <3>1, <4>1, FillBlocks
          <5> QED BY <5>1, <5>2
        <4>2. CASE ~Mine(p, c) BY <3>1, <4>2, FillBlocks
        <4> QED BY <4>1, <4>2
      <3>2. ASSUME NEW st \in {"unused", "invalid"}, Owns(p),
                   block' = [block EXCEPT ![Slot(cur[p])] = NewHeader(p, st)]
            PROVE  \/ BlockAt(c).status # "used" /\ BlockAt(c)'.status # "used"
                   \/ BlockAt(c)' = BlockAt(c)
        <4>1. NewHeader(p, st).status = st
          <5>1. block[Slot(cur[p])] \in
                    [status : Status, num : Nat, chunk : Chunks \cup {NoChunk}]
            BY CursorOrder, SlotInIndex DEF IInv, TypeOK
          <5> QED BY <5>1 DEF NewHeader
        <4>2. BlockAt(cur[p]).status = "unused" BY <3>2, SettledInWindow
        <4> DEFINE b == NewHeader(p, st)
        <4>3. b.status # "used" BY <4>1
        <4>4. block' = [block EXCEPT ![Slot(cur[p])] = b] BY <3>2
        <4> HIDE DEF b
        <4>5. BlockAt(c)' = IF c = cur[p] THEN b ELSE BlockAt(c)
          BY <1>1, <3>2, <4>4, HeaderWrite
        <4> QED BY <4>2, <4>3, <4>5
      <3>3. CASE LeaveGap(p)
        <4>1. Owns(p) BY <3>3 DEF LeaveGap, Owns
        <4> QED BY <3>2, <3>3, <4>1 DEF LeaveGap
      <3>4. CASE AllocReturn(p)
        <4>1. Owns(p) BY <3>4 DEF AllocReturn, Owns
        <4> QED BY <3>2, <3>4, <4>1 DEF AllocReturn
      <3> QED BY <3>1, <3>3, <3>4
    <2> QED BY <1>1, <2>1, DoneAfter
  <1>3. HasPlace(p)' <=> HasPlace(p)
    <2> USE DEF HasPlace, Contiguous, Goto, IInv, TypeOK
    <2>1. CASE LeaveGap(p) BY <2>1 DEF LeaveGap
    <2>2. CASE AllocReturn(p) BY <2>2 DEF AllocReturn
    <2>3. CASE Fill(p) BY <2>3 DEF Fill
    <2> QED BY <2>1, <2>2, <2>3
  <1>4. OthersKeep(Producers)
    BY <1>1, <1>3 DEF OthersKeep, HasPlace, Contiguous, ChunkOf
  <1> QED BY <1>1, <1>2, <1>4, OpenSame, QuietStep

\* The commit of a chunk: its place stays where it is in the queue.
LEMMA CommitSimulates ==
  ASSUME InOrder, IInv, DataInv, NEW p \in Producers, Commit(p)
  PROVE  Simulates
  <1> DEFINE b == [block[Slot(cur[p])] EXCEPT !.status = "used"]
             x == OpenPlace(p)
             y == Place(cur[p], ChunkOf(p), TRUE)
  <1>1. /\ UNCHANGED <<readCursor, cacheCursor, cur, need, last>>
        /\ \A q \in Producers \ {p} : pc'[q] = pc[q] /\ sent'[q] = sent[q]
        /\ pc[p] = "filled" /\ pc'[p] = "idle"
        /\ block' = [block EXCEPT ![Slot(cur[p])] = b]
        /\ sent' = [sent EXCEPT ![p] = @ + 1]
    BY DEF Commit, Goto, readerVars, IInv, TypeOK
  <1>2. Owns(p) /\ Holds(p) /\ HasPlace(p) /\ ~HasPlace(p)'
    BY <1>1 DEF Owns, Holds, HasPlace
  <1>3. /\ cur[p] \in Window /\ cacheCursor <= cur[p] /\ cur[p] < NextCursor(p)
        /\ cur[p] \in Nat /\ NextCursor(p) \in Nat
        /\ BlockAt(cur[p]).status = "unused" /\ cacheCursor \in Nat
    BY <1>2, SettledInWindow, CursorOrder
  <1>4. b.status = "used" /\ b.chunk = ChunkOf(p)
    <2>1. block[Slot(cur[p])] \in [status : Status, num : Nat, chunk : Chunks \cup {NoChunk}]
      BY CursorOrder, SlotInIndex DEF IInv, TypeOK
    <2>2. cur[p] \in cur[p]..(NextCursor(p) - 1) BY <1>3
    <2>3. block[Slot(cur[p])].chunk = ChunkOf(p)
      BY <1>1, <2>2 DEF DataInv, FilledWhole, BlockAt
    <2> QED BY <2>1, <2>3
  <1> HIDE DEF b
  <1>5. \A c \in Window : BlockAt(c)' = IF c = cur[p] THEN b ELSE BlockAt(c)
    BY <1>1, <1>2, HeaderWrite
  <1>6. DonePlaces' = DonePlaces \cup {y}
    <2> DEFINE R == {c \in Window : Readable(c)}
    <2>0. PICK w \in Window : w = cur[p] BY <1>3
    <2>1. R' = R \cup {w}
      <3>1. Window' = Window BY <1>1 DEF Window
      <3>2. \A c \in Window \ {w} : Readable(c)' <=> Readable(c)
        BY <1>1, <1>5, <2>0 DEF Readable
      <3>3. Readable(w)' BY <1>1, <1>3, <1>4, <1>5, <2>0 DEF Readable
      <3> QED BY <2>0, <3>1, <3>2, <3>3
    <2>2. w \notin R BY <1>3, <2>0 DEF Readable
    <2>3. \A c \in R : DonePlace(c)' = DonePlace(c)
      BY <1>5, <2>0, <2>2 DEF DonePlace, Place
    <2>4. DonePlace(w)' = y BY <1>4, <1>5, <2>0 DEF DonePlace, Place
    <2>5. DonePlaces = {DonePlace(c) : c \in R} /\ DonePlaces' = {DonePlace(c)' : c \in R'}
      BY DEF DonePlaces, DonePlace, Place
    <2> HIDE DEF R, y
    <2>6. ASSUME NEW z \in DonePlaces' PROVE z \in DonePlaces \cup {y}
      <3>1. PICK c \in R' : z = DonePlace(c)' BY <2>5
      <3> QED BY <2>1, <2>3, <2>4, <2>5, <3>1
    <2>7. ASSUME NEW z \in DonePlaces PROVE z \in DonePlaces'
      <3>1. PICK c \in R : z = DonePlace(c) BY <2>5
      <3> QED BY <2>1, <2>3, <2>5, <3>1
    <2>8. y \in DonePlaces' BY <2>1, <2>4, <2>5
    <2> QED BY <2>6, <2>7, <2>8
  <1>7. OpenPlaces' = OpenPlaces \ {x}
    <2>1. OthersKeep(Producers \ {p})
      BY <1>1 DEF OthersKeep, HasPlace, Contiguous, ChunkOf
    <2> QED BY <1>2, <2>1, OpenAfter
  <1>8. /\ x \in Places /\ x \notin DonePlaces
        /\ y \in PlaceSet /\ y.at = x.at /\ y.chunk = x.chunk /\ y.done = TRUE
    <2>1. x \in Places BY <1>2, PlacesType
    <2>2. x \notin DonePlaces BY DEF OpenPlace, DonePlaces, DonePlace, Place
    <2>3. x \in PlaceSet BY <2>1, PlacesType DEF Places
    <2>4. x.at = cur[p] /\ x.chunk = ChunkOf(p) BY DEF OpenPlace, Place
    <2>5. /\ y \in PlaceSet /\ y.at = x.at /\ y.chunk = x.chunk /\ y.done = TRUE
      BY <2>3, <2>4 DEF PlaceSet, Place
    <2> QED BY <2>1, <2>2, <2>5
  <1> HIDE DEF x, y
  <1>9. Places' = (Places \ {x}) \cup {y} BY <1>6, <1>7, <1>8 DEF Places
  <1>10. Shown(x) = Q!Open(p) BY OpenShown DEF x
  <1>11. /\ InOrder'
         /\ \E i \in DOMAIN queue :
                queue[i] = Q!Open(p) /\ queue' = [queue EXCEPT ![i].done = TRUE]
    BY <1>8, <1>9, <1>10, QueueCommits
  <1>12. Q!Commit(p) BY <1>1, <1>11 DEF Q!Commit
  <1> QED BY <1>11, <1>12 DEF Simulates, Q!Next

\* The reader moves to cursor c: what was committed before c is no more there.
LEMMA DoneMoved ==
  ASSUME IInv, NEW c \in Nat, MayMoveTo(c), NEW b \in BOOLEAN, FreeUpTo(c, b)
  PROVE  DonePlaces' = {DonePlace(d) : d \in {e \in Window : Readable(e) /\ c <= e}}
  <1>1. /\ cacheCursor' = c /\ readCursor' \in Nat
        /\ readCursor <= readCursor' /\ readCursor' <= c
        /\ \A d \in Window' :
              \/ BlockAt(d)'.status = "unused" /\ d >= readCursor + N
              \/ d \in Window /\ BlockAt(d)' = BlockAt(d)
    BY MoveBlocks
  <1>2. PICK r \in Nat : r = readCursor' BY <1>1
  <1>3. /\ readCursor \in Nat /\ N \in Nat /\ readCursor <= r /\ r <= c
        /\ cacheCursor \in Nat /\ cacheCursor <= c
    BY <1>1, <1>2, CursorOrder, RingAssumption DEF MayMoveTo
  <1>4. Window' = r..(r + N - 1) BY <1>2 DEF Window
  <1>5. ASSUME NEW d \in Window, c <= d
        PROVE  d \in Nat /\ d \in Window' /\ BlockAt(d)' = BlockAt(d)
    <2>1. d \in Nat /\ d < readCursor + N BY <1>3 DEF Window
    <2>2. d \in Window' BY <1>3, <1>4, <1>5, <2>1
    <2>3. ~(d >= readCursor + N) BY <1>3, <2>1
    <2> QED BY <1>1, <2>1, <2>2, <2>3
  <1> DEFINE A == {d \in Window : Readable(d)}'
             B == {d \in Window : Readable(d) /\ c <= d}
  <1>6. A = B
    <2>1. ASSUME NEW d \in A PROVE d \in B
      <3>1. d \in Window' /\ d >= c /\ BlockAt(d)'.status = "used"
        BY <1>1 DEF Readable
      <3>2. d \in Window /\ BlockAt(d)' = BlockAt(d) BY <1>1, <3>1
      <3>3. d \in Nat BY <1>3, <3>2 DEF Window
      <3> QED BY <1>3, <3>1, <3>2, <3>3 DEF Readable
    <2>2. ASSUME NEW d \in B PROVE d \in A
      <3>1. d \in Window' /\ BlockAt(d)' = BlockAt(d) /\ d \in Nat BY <1>5
      <3>2. Readable(d)' BY <1>1, <1>3, <3>1 DEF Readable
      <3> QED BY <3>1, <3>2
    <2> QED BY <2>1, <2>2
  <1>7. \A d \in B : DonePlace(d)' = DonePlace(d)
    <2> TAKE d \in B
    <2>1. BlockAt(d)' = BlockAt(d) BY <1>5
    <2> QED BY <2>1 DEF DonePlace, Place
  <1>8. DonePlaces' = {DonePlace(d)' : d \in A} BY DEF DonePlaces, DonePlace, Place
  <1> HIDE DEF A
  <1>9. DonePlaces' = {DonePlace(d) : d \in B} BY <1>6, <1>7, <1>8
  <1> QED BY <1>9

LEMMA ReaderKeepsOpen ==
  ASSUME UNCHANGED <<producerVars, sent>>
  PROVE  OpenPlaces' = OpenPlaces
  <1>1. OthersKeep(Producers)
    BY DEF OthersKeep, producerVars, HasPlace, Contiguous, ChunkOf
  <1> QED BY <1>1, OpenSame

\* The reader looks, steps over a gap, or finds nothing.
LEMMA LookSimulates ==
  ASSUME InOrder, IInv, DataInv,
         Read \/ ReadNothing \/ Discard \/ ReturnEmpty
  PROVE  Simulates
  <1>1. UNCHANGED <<producerVars, sent, last>>
    BY DEF Read, ReadGap, StepOverGap, ReadUsed, ReadUnused, ReadNothing, Discard,
           ReturnEmpty
  <1>2. OpenPlaces' = OpenPlaces BY <1>1, ReaderKeepsOpen
  <1>3. CASE ReadUsed \/ ReadUnused \/ ReadNothing \/ Discard
    <2>1. UNCHANGED <<readCursor, cacheCursor, block>>
      BY <1>3 DEF ReadUsed, ReadUnused, ReadNothing, Discard
    <2>2. DonePlaces' = DonePlaces BY <2>1, DoneAfter DEF BlockAt
    <2> QED BY <1>1, <1>2, <2>2, QuietStep
  <1>4. CASE ReadGap
    <2>1. /\ HeadBlock.status = "invalid"
          /\ block' = [block EXCEPT ![Slot(cacheCursor)].status = "unused"]
          /\ UNCHANGED <<readCursor, cacheCursor>>
      BY <1>4 DEF ReadGap
    <2>2. cacheCursor \in Window /\ HeadBlock = BlockAt(cacheCursor)
      BY CursorOrder, RingAssumption DEF IInv, ReaderInv, Window, HeadBlock, BlockAt
    <2>3. ASSUME NEW c \in Window
          PROVE  \/ BlockAt(c).status # "used" /\ BlockAt(c)'.status # "used"
                 \/ BlockAt(c)' = BlockAt(c)
      <3>1. Slot(c) \in Index /\ (Slot(c) = Slot(cacheCursor) <=> c = cacheCursor)
        BY <2>2, WindowSlots DEF IInv
      <3>2. CASE c # cacheCursor BY <2>1, <3>1, <3>2 DEF BlockAt, IInv, TypeOK
      <3>3. CASE c = cacheCursor
        <4>1. BlockAt(c)' = [BlockAt(c) EXCEPT !.status = "unused"]
          BY <2>1, <3>1, <3>3 DEF BlockAt, IInv, TypeOK
        <4>2. BlockAt(c)'.status = "unused" BY <4>1, BlockType DEF IInv
        <4> QED BY <2>1, <2>2, <3>3, <4>2
      <3> QED BY <3>2, <3>3
    <2>4. DonePlaces' = DonePlaces BY <2>1, <2>3, DoneAfter
    <2> QED BY <1>1, <1>2, <2>4, QuietStep
  <1>5. ASSUME NEW c \in Nat, MayMoveTo(c), NEW b \in BOOLEAN, FreeUpTo(c, b),
               \A d \in Window : Readable(d) => c <= d
        PROVE  DonePlaces' = DonePlaces
    <2>1. {e \in Window : Readable(e) /\ c <= e} = {e \in Window : Readable(e)} BY <1>5
    <2> QED BY <1>5, <2>1, DoneMoved DEF DonePlaces
  <1>6. CASE StepOverGap
    <2> DEFINE c == cacheCursor + HeadBlock.num
    <2>1. FreeUpTo(c, FALSE) /\ rpc = "gap" BY <1>6 DEF StepOverGap, FreeUpTo
    <2>2. c \in Nat /\ MayMoveTo(c) BY <2>1, FrontFits, CursorOrder, HeadBlockType
                                    DEF MayMoveTo, IInv
    <2>3. \A d \in Window : Readable(d) => c <= d
      <3>1. \A d \in Window : Header(d) => c <= d BY <2>1 DEF IInv, ReaderInv
      <3> QED BY <3>1 DEF Readable, Header
    <2> HIDE DEF c
    <2> QED BY <1>1, <1>2, <1>5, <2>1, <2>2, <2>3, QuietStep
  <1>7. CASE ReturnEmpty
    <2>1. FreeUpTo(cacheCursor, TRUE) BY <1>7 DEF ReturnEmpty
    <2>2. cacheCursor \in Nat /\ MayMoveTo(cacheCursor)
      BY CursorOrder DEF MayMoveTo, IInv, ReaderInv
    <2>3. \A d \in Window : Readable(d) => cacheCursor <= d
      BY <2>2, BlockType DEF Readable, IInv
    <2> QED BY <1>1, <1>2, <1>5, <2>1, <2>2, <2>3, QuietStep
  <1> QED BY <1>3, <1>4, <1>6, <1>7 DEF Read

\* The reader hands on the chunk it has: it is the first of the queue.
LEMMA ReturnSimulates ==
  ASSUME InOrder, IInv, DataInv, ReturnChunk
  PROVE  Simulates
  <1> DEFINE c == cacheCursor + HeadBlock.num
             b == Dist(c, startCursor) >= N \div 4
             x == DonePlace(cacheCursor)
  <1>1. /\ rpc = "holding" /\ b \in BOOLEAN /\ FreeUpTo(c, b) /\ last' = held
        /\ UNCHANGED <<producerVars, sent>>
    BY DEF ReturnChunk
  <1>2. HeadBlock.status = "used" /\ HeadBlock.chunk = held
    BY <1>1 DEF IInv, ReaderInv, DataInv, HeldIsHead
  <1>3. /\ cacheCursor \in Window /\ HeadBlock = BlockAt(cacheCursor)
        /\ cacheCursor \in Nat /\ HeadBlock.num \in Nat
    BY CursorOrder, HeadBlockType, RingAssumption
    DEF IInv, ReaderInv, Window, HeadBlock, BlockAt
  <1>4. /\ c \in Nat /\ MayMoveTo(c) /\ cacheCursor < c
        /\ \A d \in Window : Header(d) => d = cacheCursor \/ c <= d
    BY <1>2, <1>3, FrontFits, CursorOrder DEF MayMoveTo
  <1>5. Readable(cacheCursor) BY <1>2, <1>3 DEF Readable
  <1> HIDE DEF b, c
  <1>6. DonePlaces' = DonePlaces \ {x}
    <2> DEFINE R == {d \in Window : Readable(d)}
               L == {d \in Window : Readable(d) /\ c <= d}
    <2>1. L = R \ {cacheCursor}
      <3>1. \A d \in R : d = cacheCursor \/ c <= d BY <1>4 DEF Readable, Header
      <3>2. ~(c <= cacheCursor) BY <1>3, <1>4
      <3> QED BY <3>1, <3>2
    <2>2. DonePlaces' = {DonePlace(d) : d \in L} BY <1>1, <1>4, DoneMoved
    <2>3. DonePlaces = {DonePlace(d) : d \in R} BY DEF DonePlaces
    <2>4. \A d : d # cacheCursor => DonePlace(d) # DonePlace(cacheCursor)
      BY DEF DonePlace, Place
    <2> HIDE DEF R, L
    <2> QED BY <2>1, <2>2, <2>3, <2>4
  <1>7. OpenPlaces' = OpenPlaces BY <1>1, ReaderKeepsOpen
  <1>8. x \in Places /\ x \notin OpenPlaces
    BY <1>3, <1>5 DEF Places, DonePlaces, OpenPlaces, OpenPlace, DonePlace, Place
  <1>9. x.at = cacheCursor /\ Shown(x).chunk = held /\ Shown(x).done = TRUE
    BY <1>2, <1>3 DEF DonePlace, Place, Shown
  <1> HIDE DEF x
  <1>10. Places' = Places \ {x} BY <1>6, <1>7, <1>8 DEF Places
  <1>11. \A y \in Places : x.at <= y.at BY <1>9, PlacesType
  <1>12. InOrder' /\ queue # <<>> /\ Head(queue) = Shown(x) /\ queue' = Tail(queue)
    BY <1>8, <1>10, <1>11, QueueTakes
  <1>13. Q!Take BY <1>1, <1>9, <1>12 DEF Q!Take
  <1> QED BY <1>12, <1>13 DEF Simulates, Q!Next

LEMMA StepSimulates ==
  ASSUME InOrder, IInv, DataInv, [Next]_vars
  PROVE  Simulates
  <1>1. CASE UNCHANGED vars
    <2>1. UNCHANGED <<readCursor, cacheCursor, block, producerVars, sent, last>>
      BY <1>1 DEF vars, readerVars
    <2>2. DonePlaces' = DonePlaces BY <2>1, DoneAfter DEF BlockAt
    <2> QED BY <2>1, <2>2, ReaderKeepsOpen, QuietStep
  <1>2. ASSUME NEW p \in Producers, AllocBegin(p) \/ Proceed(p) PROVE Simulates
    BY <1>2, FetchAddSimulates, ThreadSimulates, WriteSimulates, CommitSimulates
    DEF Proceed
  <1>3. CASE Reader BY <1>3, LookSimulates, ReturnSimulates DEF Reader
  <1> QED BY <1>1, <1>2, <1>3 DEF Next

LEMMA InitSimulates == Init => InOrder /\ Q!Init
  <1> SUFFICES ASSUME Init PROVE InOrder /\ Q!Init OBVIOUS
  <1>1. \A c \in Window : BlockAt(c).status = "unused"
    BY SlotInIndex, RingAssumption DEF Init, Window, BlockAt
  <1>2. Places = {}
    BY <1>1 DEF Init, HasPlace, Places, OpenPlaces, DonePlaces, Readable
  <1>3. <<>> \in Seq(PlaceSet) /\ Arranges(<<>>, Places)
    BY <1>2 DEF Arranges, ToSet
  <1>4. queue = AllShown(<<>>) BY <1>3, TheArrangement DEF queue
  <1>5. queue = <<>>
    <2>1. AllShown(<<>>) \in Seq([chunk : Chunks, done : BOOLEAN]) /\ Len(AllShown(<<>>)) = 0
      BY <1>3, Showing
    <2> QED BY <1>4, <2>1
  <1> QED BY <1>3, <1>5 DEF InOrder, Q!Init, Init, Q!NoChunk, NoChunk

\* The ring is a queue of reservations: whatever the interleaving of
\* reservations, rollbacks, gaps and lazy publication, each chunk that
\* commit_write_chunk has made readable is handed on by return_read_chunk
\* once, whole, and in the order of the fetch_adds that reserved it.
THEOREM RingImplementsQueue == Sleepers = FALSE => (Spec => ImplementsQueue)
  <1> SUFFICES ASSUME Sleepers = FALSE PROVE Spec => ImplementsQueue OBVIOUS
  <1>1. Init => InOrder /\ Q!Init BY InitSimulates
  <1>2. InOrder /\ RingInv /\ [Next]_vars => InOrder' /\ [Q!Next]_(Q!vars)
    BY StepSimulates DEF RingInv, Simulates
  <1>3. Spec => []RingInv BY WholeInvariant
  <1> QED BY <1>1, <1>2, <1>3, PTL DEF Spec, ImplementsQueue, Q!Spec

=============================================================================
