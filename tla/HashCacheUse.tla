---------------------------- MODULE HashCacheUse ----------------------------
(***************************************************************************)
(* BoundedHashCache by itself, as its owner uses it: entries are stored,   *)
(* the limit is changed, all is cleared.                                   *)
(***************************************************************************)
EXTENDS BoundedHashCache

CONSTANTS Keys, Values, Limits

VARIABLES
    table,   \* format_l2_ or thread_l2_
    latest   \* history: what was last stored under each key

tableVars == <<table, latest>>

Init ==
    /\ table = Cleared(Normalized(CHOOSE max \in Limits : TRUE))
    /\ latest = [k \in Keys |-> CHOOSE v \in Values : TRUE]

\* insert, as the appender does when it reads a file or did not find the key.
Store(k, v) == table' = Stored(table, k, v) /\ latest' = [latest EXCEPT ![k] = v]

\* reset_impl; reset, as a file is opened.
Limit(max) == table' = WithMax(table, max) /\ UNCHANGED latest
Clear      == table' = Cleared(table.max) /\ UNCHANGED latest

\* However the table grew, was emptied of single entries or was gone round:
\* each entry is found under its key, the key is there once, a search comes to
\* an end (erase, find_slot_or_empty), and what is found was stored last.
EntriesAreFound ==
    /\ Sound(table)
    /\ \A k \in Keys : Has(table, k) => Value(table, k) = latest[k]

\* An entry leaves the table alone and only for one that comes, when the table
\* holds as much as it may - but for a reset and a lower limit, which take all.
OnlyTheVictimGoes ==
    LET gone == {k \in Keys : Has(table, k) /\ ~Has(table', k)}
        came == {k \in Keys : ~Has(table, k) /\ Has(table', k)}
    IN  \/ table' = Cleared(table'.max)
        \/ gone = {}
        \/ Cardinality(gone) = 1 /\ Cardinality(came) = 1 /\ table.size = table.max

\* After each step what is in the table is found, and nothing goes from it but
\* the victim.
CachesAreSound == [][EntriesAreFound' /\ OnlyTheVictimGoes]_tableVars
=============================================================================
