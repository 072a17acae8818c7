------------------------------- MODULE MCFiles -------------------------------
(***************************************************************************)
(* FileLog with few entries and a cache and files that hold one or two of  *)
(* them; CompressedLog with three formats for a cache of two or three, in  *)
(* which they collide over the end of the table, and a clock that goes     *)
(* back once; and such a table alone, with keys whose places collide and   *)
(* go round the end of a table of 2, 4 or 8, and limits on both sides of   *)
(* the least capacity and of the greatest size.  A behaviour is one of the *)
(* three, and the others rest.                                             *)
(***************************************************************************)
EXTENDS FileLog, TLC

VARIABLES part, files, cache, writer, up, cut, count, died, table, latest

Compressed == INSTANCE CompressedLog WITH
    Formats <- {"f1", "f2", "f3"}, Threads <- {"t1", "t2"},
    Calls <- {<<"f1", "t1">>, <<"f2", "t2">>, <<"f3", "t1">>},
    ShortFormats <- {"f2"}, Times <- <<3, 5, 4, 5>>,
    Hash <- "f1" :> 3 @@ "f2" :> 3 @@ "f3" :> 0 @@ "t1" :> 3 @@ "t2" :> 3,
    MinCapacity <- 2, MaxSize <- 4, AdmissionDivisor <- 2,
    FormatMax <- 2, ThreadMax <- 2, OtherMax <- 3, MaxFiles <- 2,
    None <- "none", alive <- up, deaths <- died

TableKeys == {"a", "b", "c", "d", "e"}
Values    == {1, 2}
Limits    == {1, 2, 3, 5}

Table == INSTANCE HashCacheUse WITH
    Hash <- "a" :> 7 @@ "b" :> 7 @@ "c" :> 7 @@ "d" :> 6 @@ "e" :> 0,
    MinCapacity <- 2, MaxSize <- 4, AdmissionDivisor <- 2, Keys <- TableKeys

ASSUME Compressed!CompressedConstants

compressedVars == <<files, cache, writer, up, cut, count, died>>
tableVars == <<table, latest>>

AsText       == part = "text" /\ UNCHANGED <<part, compressedVars, tableVars>>
AsCompressed == part = "compressed" /\ UNCHANGED <<part, vars, tableVars>>
AsTable      == part = "table" /\ UNCHANGED <<part, vars, compressedVars>>

MCInit ==
    /\ Init /\ Compressed!Init /\ Table!Init
    /\ part \in {"text", "compressed", "table"}

\* One disjunct for each action, so that TLC counts each.
MCNext ==
    \/ Arrive /\ AsText
    \/ Process /\ AsText
    \/ Return /\ AsText
    \/ FlushCaches /\ AsText
    \/ DiskChanges /\ AsText
    \/ ResetConfig /\ AsText
    \/ Die /\ AsText
    \/ DieInFlush /\ AsText
    \/ DieInRecovery /\ AsText
    \/ Restart /\ AsText
    \/ Compressed!Log /\ AsCompressed
    \/ Compressed!Roll /\ AsCompressed
    \/ Compressed!Continue /\ AsCompressed
    \/ Compressed!Begin /\ AsCompressed
    \/ Compressed!Flush /\ AsCompressed
    \/ Compressed!Reconfigure /\ AsCompressed
    \/ (\E between \in BOOLEAN : Compressed!Die(between)) /\ AsCompressed
    \/ Compressed!Restart /\ AsCompressed
    \/ (\E k \in TableKeys, v \in Values : Table!Store(k, v)) /\ AsTable
    \/ (\E max \in Limits : Table!Limit(max)) /\ AsTable
    \/ Table!Clear /\ AsTable

MCSpec == MCInit /\ [][MCNext]_<<vars, compressedVars, tableVars, part>> /\ Fairness

\* Every file decodes to what was logged into it: see CompressedLog.
DecodedIsLogged == Compressed!DecodedIsLogged

\* What the writer knows by index means the same to the decoder: see
\* CompressedLog.
WriterKnowsTheReader == Compressed!WriterKnowsTheReader

\* What is in the table is found, and nothing goes from it but the victim: see
\* HashCacheUse.
CachesAreSound == Table!CachesAreSound
=============================================================================
