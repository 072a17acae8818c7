-------------------------- MODULE BoundedHashCache --------------------------
(***************************************************************************)
(* bounded_hash_cache.h: the table from keys to indices that the writer of *)
(* compressed logs goes by.  Open addressing with linear probing; it grows *)
(* by doubling, and once it holds as much as it may, one of so many new    *)
(* keys is let in and the entry under the clock hand goes.  Memory can     *)
(* always be had.                                                          *)
(***************************************************************************)
EXTENDS Naturals, FiniteSets, SequencesExt

CONSTANTS
    MinCapacity,      \* min_capacity
    MaxSize,          \* MAX_SIZE
    AdmissionDivisor, \* admission_divisor
    Hash              \* get_table_hash

Nothing == <<>>    \* what an empty slot holds
Normalized(max) == IF max < MinCapacity THEN MinCapacity ELSE Min({max, MaxSize})
Cleared(max) == [slots |-> <<>>, size |-> 0, victim |-> 0, admission |-> 0, max |-> max]

Cap(c) == Cardinality(DOMAIN c.slots)
Way(from, cap) == [d \in 1..cap |-> (from + d - 1) % cap]
SlotOf(slots, key) ==
    LET cap == Cardinality(DOMAIN slots)
        way == Way(Hash[key] % cap, cap)
        ends(i) == slots[i] = Nothing \/ slots[i][1] = key
    IN  way[CHOOSE d \in 1..cap : ends(way[d]) /\ \A m \in 1..(d - 1) : ~ends(way[m])]
Has(c, key) == Cap(c) > 0 /\ c.slots[SlotOf(c.slots, key)] # Nothing
Value(c, key) == c.slots[SlotOf(c.slots, key)][2]

Put(slots, entry) == [slots EXCEPT ![SlotOf(slots, entry[1])] = entry]
Resized(c, cap) ==
    LET held == SelectSeq([d \in 1..Cap(c) |-> c.slots[d - 1]], LAMBDA e : e # Nothing)
    IN  [c EXCEPT !.slots = FoldLeft(Put, [i \in 0..(cap - 1) |-> Nothing], held), !.victim = 0]

\* Mutant: the entries behind the gap stay where they are.
ErasedBare(c, slot) == [c EXCEPT !.slots[slot] = Nothing, !.size = @ - 1]

\* Mutant: distances do not go round the end of the table.
ErasedUnwrapped(c, slot) ==
    LET cap  == Cap(c)
        way  == Way((slot + 1) % cap, cap)
        len  == CHOOSE n \in 0..(cap - 1) :
                    /\ c.slots[way[n + 1]] = Nothing
                    /\ \A m \in 1..n : c.slots[way[m]] # Nothing
        Move(r, i) ==
            LET home == Hash[r.slots[i][1]] % cap
                far(j) == IF j >= home THEN j - home ELSE 0
            IN  IF far(i) > far(r.gap)
                THEN [slots |-> [r.slots EXCEPT ![r.gap] = r.slots[i]], gap |-> i]
                ELSE r
        moved == FoldLeft(Move, [slots |-> c.slots, gap |-> slot], SubSeq(way, 1, len))
    IN  [c EXCEPT !.slots = [moved.slots EXCEPT ![moved.gap] = Nothing], !.size = @ - 1]

\* The entries behind the one that goes move up, those that the gap would cut
\* off from their home.
Erased(c, slot) ==
    LET cap  == Cap(c)
        way  == Way((slot + 1) % cap, cap)
        len  == CHOOSE n \in 0..(cap - 1) :
                    /\ c.slots[way[n + 1]] = Nothing
                    /\ \A m \in 1..n : c.slots[way[m]] # Nothing
        Move(r, i) ==
            LET home == Hash[r.slots[i][1]] % cap
                far(j) == (j + cap - home) % cap
            IN  IF far(i) > far(r.gap)
                THEN [slots |-> [r.slots EXCEPT ![r.gap] = r.slots[i]], gap |-> i]
                ELSE r
        moved == FoldLeft(Move, [slots |-> c.slots, gap |-> slot], SubSeq(way, 1, len))
    IN  [c EXCEPT !.slots = [moved.slots EXCEPT ![moved.gap] = Nothing], !.size = @ - 1]

\* The clock hand goes on to an entry, and that one goes.
Evicted(c) ==
    LET cap == Cap(c)
        way == Way(c.victim, cap)
        v   == way[CHOOSE d \in 1..cap : /\ c.slots[way[d]] # Nothing
                                         /\ \A m \in 1..(d - 1) : c.slots[way[m]] = Nothing]
    IN  Erased([c EXCEPT !.victim = (v + 1) % cap], v)

\* insert_new
Inserted(c, key, value) ==
    LET added(d) == [d EXCEPT !.slots = Put(@, <<key, value>>), !.size = @ + 1]
        asked == [c EXCEPT !.admission = (@ + 1) % AdmissionDivisor]
    IN  IF Cap(c) = 0 THEN added(Resized(c, MinCapacity))
        ELSE IF c.size < c.max
        THEN added(IF c.size >= Cap(c) \div 2 THEN Resized(c, 2 * Cap(c)) ELSE c)
        ELSE IF asked.admission = 0 THEN added(Evicted(asked)) ELSE asked

\* insert without a token
Stored(c, key, value) ==
    IF Has(c, key) THEN [c EXCEPT !.slots = Put(@, <<key, value>>)] ELSE Inserted(c, key, value)

\* set_max_size, after clear if the table holds too much.
WithMax(c, max) ==
    LET n == Normalized(max)
    IN  IF c.size = 0 \/ n >= c.max THEN [c EXCEPT !.max = n] ELSE Cleared(n)

Held(c) == {c.slots[i] : i \in DOMAIN c.slots} \ {Nothing}

\* Each entry is found under its key, each key is there once, and the table is
\* never more than half full, so that every search comes to an end.
Sound(c) ==
    /\ \A i \in DOMAIN c.slots : c.slots[i] # Nothing => SlotOf(c.slots, c.slots[i][1]) = i
    /\ c.size = Cardinality({i \in DOMAIN c.slots : c.slots[i] # Nothing})
    /\ c.size <= c.max /\ 2 * c.size <= Cap(c)
=============================================================================
