---------------------------- MODULE LogSnapshot ----------------------------
(***************************************************************************)
(* log_snapshot (src/bq_log/log/log_snapshot.h, log_snapshot.cpp): the     *)
(* last records of a log, kept in a ring that drops the oldest for the     *)
(* newest, and handed out as a text.  A text takes the records out of the  *)
(* ring, so the next one starts with the end of the last, unless records   *)
(* were dropped between the two.  The lock that take_snapshot_string takes *)
(* is given back only by release_snapshot_string.                          *)
(*                                                                         *)
(* A record is a number and its length in blocks, head included.  In a     *)
(* text it stands for its formatted line, of which the first may be cut.   *)
(***************************************************************************)
EXTENDS Naturals, Sequences, SequencesExt

CONSTANTS
    Users,
    Capacities, \* the blocks a configured ring can have
    Sizes,      \* the blocks a record can need
    MaxRecords, MaxResets,  \* bounds
    None

\* What the constants must be.
SnapshotConstants ==
    /\ Capacities \subseteq Nat \ {0} /\ Sizes \subseteq Nat \ {0}
    /\ MaxRecords \in Nat /\ MaxResets \in Nat /\ None \notin Users

VARIABLES
    buffer,     \* snapshot_buffer_: blocks (0: there is none), chunks, write cursor
    texts,      \* snapshot_text_
    index,      \* snapshot_text_index_
    continuous, \* snapshot_text_continuous_
    lock,       \* the user who holds lock_; others hold it for one step
    writing,    \* the size of the record in write_data, 0 if there is none
    records, resets,    \* how many there were
    kept,       \* the records that were put into the ring, in their order
    refused,    \* the others: [size, blocks]
    handed      \* what the holder of the lock was given

vars == <<buffer, texts, index, continuous, lock, writing, records, resets, kept,
          refused, handed>>

Fresh(blocks) == [blocks |-> blocks, chunks |-> <<>>, cursor |-> 0]

Init ==
    /\ \E blocks \in Capacities \cup {0} : buffer = Fresh(blocks)
    /\ texts = <<<<>>, <<>>>> /\ index = 1 /\ continuous = FALSE
    /\ lock = None /\ writing = 0
    /\ records = 0 /\ resets = 0
    /\ kept = <<>> /\ refused = {} /\ handed = <<>>

Chunk == [record : 1..MaxRecords, size : Sizes, blocks : Nat]

TypeOK ==
    /\ buffer.blocks \in Capacities \cup {0} /\ buffer.chunks \in Seq(Chunk)
    /\ buffer.cursor \in 0..buffer.blocks
    /\ texts \in Seq(Seq(1..MaxRecords)) /\ index \in {1, 2} /\ continuous \in BOOLEAN
    /\ lock \in Users \cup {None} /\ writing \in Sizes \cup {0}
    /\ records \in 0..MaxRecords /\ resets \in 0..MaxResets
    /\ kept \in Seq(1..MaxRecords) /\ handed \in Seq(1..MaxRecords)

-----------------------------------------------------------------------------
\* alloc_write_chunk of the ring.  A chunk that does not fit behind the cursor
\* starts over, without its head, which stays behind the cursor; the code
\* refuses one that would not fit then even into an empty ring.

ToTail(b) == b.blocks - b.cursor
Refuses(b, size) ==
    size > b.blocks \/ (size > ToTail(b) /\ size + ToTail(b) - 1 > b.blocks)
Need(b, size) == IF size > ToTail(b) THEN ToTail(b) + size - 1 ELSE size

Taken(chunks) == FoldLeft(LAMBDA n, c : n + c.blocks, 0, chunks)

\* How many of the oldest must go before a chunk is allocated.
Drops(b, need) ==
    CHOOSE d \in 0..Len(b.chunks) :
        LET Fits(k) == Taken(SubSeq(b.chunks, k + 1, Len(b.chunks))) + need <= b.blocks
        IN Fits(d) /\ \A k \in 0..(d - 1) : ~Fits(k)

\* The loop of write_data, and of reset_config for each record it moves: as
\* long as there is no room the oldest is discarded, and the text is not
\* continuous any more.  (Its provision for a ring that is empty and has no
\* room is never used: the ring refuses such a record, which is then given up.)
Put(s, record, size) ==
    LET need == Need(s.buffer, size)
        d    == Drops(s.buffer, need)
    IN  IF Refuses(s.buffer, size)
        THEN [s EXCEPT !.refused = @ \cup {[size |-> size, blocks |-> s.buffer.blocks]},
                       !.kept = SelectSeq(@, LAMBDA r : r # record)]
        ELSE [s EXCEPT !.buffer =
                          [blocks |-> @.blocks,
                           chunks |-> Append(SubSeq(@.chunks, d + 1, Len(@.chunks)),
                                             [record |-> record, size |-> size, blocks |-> need]),
                           cursor |-> (@.cursor + need) % @.blocks],
                       !.continuous = @ /\ d = 0]

State(b, seq) == [buffer |-> b, continuous |-> continuous, kept |-> seq, refused |-> refused]

\* Mutant: that records were dropped is not noted.
BecomeContinuous(s) ==
    /\ buffer' = s.buffer /\ continuous' = continuous
    /\ kept' = s.kept /\ refused' = s.refused

Become(s) ==
    /\ buffer' = s.buffer /\ continuous' = s.continuous
    /\ kept' = s.kept /\ refused' = s.refused

-----------------------------------------------------------------------------
\* log_imp looks whether there is a buffer, and write_data again, without the
\* lock and then with it.
BeginWrite ==
    /\ writing = 0 /\ buffer.blocks # 0 /\ records < MaxRecords
    /\ writing' \in Sizes
    /\ records' = records + 1
    /\ UNCHANGED <<buffer, texts, index, continuous, lock, resets, kept, refused, handed>>

\* The record passes the filter of levels and categories ...
Write ==
    /\ writing # 0 /\ lock = None
    /\ writing' = 0
    /\ IF buffer.blocks # 0
       THEN Become(Put(State(buffer, Append(kept, records)), records, writing))
       ELSE UNCHANGED <<buffer, continuous, kept, refused>>
    /\ UNCHANGED <<texts, index, lock, records, resets, handed>>

\* ... or not; then the next text does not go on with the last.
FilterOut ==
    /\ writing # 0 /\ lock = None
    /\ writing' = 0
    /\ continuous' = FALSE
    /\ UNCHANGED <<buffer, texts, index, lock, records, resets, kept, refused, handed>>

-----------------------------------------------------------------------------
\* reset_config

Disable ==
    /\ lock = None /\ resets < MaxResets
    /\ buffer' = Fresh(0)
    /\ texts' = <<<<>>, <<>>>> /\ index' = 1 /\ continuous' = FALSE
    /\ resets' = resets + 1
    /\ UNCHANGED <<lock, writing, records, kept, refused, handed>>

\* A ring of another size takes over what is in the old one, or a first is made.
Resize ==
    /\ lock = None /\ resets < MaxResets
    /\ \E blocks \in Capacities \ {buffer.blocks} :
        Become(FoldLeft(LAMBDA s, c : Put(s, c.record, c.size),
                        State(Fresh(blocks), kept), buffer.chunks))
    /\ resets' = resets + 1
    /\ UNCHANGED <<texts, index, lock, writing, records, handed>>

-----------------------------------------------------------------------------
\* take_snapshot_string.  How much of the last text still fits depends on the
\* lengths of the lines: any part of its end.
Take(u) ==
    LET last == texts[index]
        new  == [i \in DOMAIN buffer.chunks |-> buffer.chunks[i].record]
    IN  /\ lock = None
        /\ lock' = u
        /\ index' = 3 - index
        /\ \E k \in 0..(IF continuous /\ buffer.blocks # 0 THEN Len(last) ELSE 0) :
              handed' = SubSeq(last, Len(last) - k + 1, Len(last)) \o new
        /\ texts' = [texts EXCEPT ![index'] = handed']
        /\ buffer' = [buffer EXCEPT !.chunks = <<>>]
        /\ continuous' = (buffer.blocks # 0 \/ continuous)
        /\ UNCHANGED <<writing, records, resets, kept, refused>>

Release(u) ==
    /\ lock = u
    /\ lock' = None /\ handed' = <<>>
    /\ UNCHANGED <<buffer, texts, index, continuous, writing, records, resets, kept, refused>>

Next ==
    \/ BeginWrite \/ Write \/ FilterOut \/ Disable \/ Resize
    \/ \E u \in Users : Take(u) \/ Release(u)

Spec == Init /\ [][Next]_vars

-----------------------------------------------------------------------------
\* A text that is handed out has no hole and is up to date: it is an end of
\* what was put into the ring, in its order and nothing twice, whatever was
\* dropped, refused, filtered out or configured between two texts; and it stays
\* as it is until it is released.  Only a record of more than half the ring is
\* ever refused.
SnapshotIsSound ==
    /\ lock # None => /\ texts[index] = handed
                      /\ buffer.blocks # 0 => IsSuffix(handed, kept)
    /\ \A r \in refused : 2 * (r.size - 1) > r.blocks
=============================================================================
