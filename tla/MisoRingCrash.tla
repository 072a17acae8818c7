---------------------------- MODULE MisoRingCrash ----------------------------
(***************************************************************************)
(* MisoRing in a memory-mapped file, with a process that dies at any point *)
(* and is started again (log.recovery=true).  What is in the file survives: *)
(* the blocks and the reader's two cursors in the head; the write cursor,  *)
(* the published read cursor and everything the threads keep do not.  The  *)
(* next process walks over the blocks before any thread uses them, so the  *)
(* crash and the walk are one step.                                        *)
(*                                                                         *)
(* The process dies, not the machine: the file holds the stores in program *)
(* order.                                                                  *)
(***************************************************************************)
EXTENDS MisoRing

CONSTANT MaxCrashes     \* bound: how often the process dies

VARIABLES
    crashes,    \* how often it has died
    taken       \* the chunks that were returned, over all processes

crashVars == <<vars, crashes, taken>>

CInit == Init /\ crashes = 0 /\ taken = {}

\* try_recover_from_exist_memory_map: how many blocks from cursor c on hold
\* chunks and gaps that make sense, or Bad.
Bad == -1
\* Mutant: a chunk that ends where the ring ends is taken for nonsense.
WalkShort(c) ==
    LET from[d \in 0..(2 * N)] ==
            LET b == block[Slot(c + d)]
            IN  CASE d = N -> N
                  [] d > N -> Bad
                  [] d < N /\ b.status = "unused" -> d
                  [] d < N /\ b.status # "unused" ->
                        IF Slot(c + d) + b.num >= N THEN Bad ELSE from[d + b.num]
    IN from[0]

Walk(c) ==
    LET from[d \in 0..(2 * N)] ==
            LET b == block[Slot(c + d)]
                beyond == Slot(c + d) + b.num > N
                \* The cursor has moved over the gap when this is evaluated.
                gapBeyond == Slot(c + d + b.num) + b.num > N
            IN  CASE d = N -> N
                  [] d > N -> Bad
                  [] d < N /\ b.status = "unused" -> d
                  [] d < N /\ b.status = "used" ->
                        IF beyond THEN Bad ELSE from[d + b.num]
                  [] d < N /\ b.status = "invalid" ->
                        IF gapBeyond THEN Bad ELSE from[d + b.num]
                  [] d < N /\ b.status = "data" -> Bad
    IN from[0]

\* The walk gave n blocks: they are kept, all others are cleared.
Recover(c, n) ==
    /\ cacheCursor' = c /\ startCursor' = c /\ readCursor' = c
    /\ writeCursor' = c + n
    /\ block' = [i \in Index |->
            IF i \in Region(c + n, N - n)
            THEN [block[i] EXCEPT !.status = "unused"] ELSE block[i]]

\* init_with_memory_map: the walk found nonsense and the file starts afresh.
StartAfresh ==
    /\ cacheCursor' = 0 /\ startCursor' = 0 /\ readCursor' = 0
    /\ writeCursor' = 0
    /\ block' = [i \in Index |-> [block[i] EXCEPT !.status = "unused"]]

\* Mutant: the next process reads from the last published chunk on.
CrashPublished ==
    /\ crashes < MaxCrashes
    /\ crashes' = crashes + 1
    /\ LET c == Slot(startCursor)
       IN IF Walk(c) = Bad THEN StartAfresh ELSE Recover(c, Walk(c))
    /\ pc' = [p \in Producers |-> "idle"]
    /\ need' = [p \in Producers |-> 0]
    /\ cur' = [p \in Producers |-> 0]
    /\ ref' = [p \in Producers |-> NoRef]
    /\ rpc' = "idle" /\ held' = NoChunk
    /\ UNCHANGED <<sent, last, taken>>

\* The reader's own cursor is where the next process goes on.
Crash ==
    /\ crashes < MaxCrashes
    /\ crashes' = crashes + 1
    /\ LET c == Slot(cacheCursor)
       IN IF Walk(c) = Bad THEN StartAfresh ELSE Recover(c, Walk(c))
    /\ pc' = [p \in Producers |-> "idle"]
    /\ need' = [p \in Producers |-> 0]
    /\ cur' = [p \in Producers |-> 0]
    /\ ref' = [p \in Producers |-> NoRef]
    /\ rpc' = "idle" /\ held' = NoChunk
    /\ UNCHANGED <<sent, last, taken>>

Work ==
    /\ Next
    /\ taken' = IF rpc = "holding" /\ cacheCursor' # cacheCursor
                THEN taken \cup {held} ELSE taken
    /\ UNCHANGED crashes

CNext == Work \/ Crash

CSpec == CInit /\ [][CNext]_crashVars

-----------------------------------------------------------------------------

\* The chunks in memory from the reader's cursor to the write cursor, by what
\* the blocks say.
Unread ==
    {block[i].chunk : i \in {j \in Index :
        /\ block[j].status = "used"
        /\ (j - cacheCursor) % N < N - (cacheCursor - startCursor)}}

Committed == {c \in Chunks : c[2] <= sent[c[1]]}

\* Whatever the moment of the crash, what the next process finds to read was
\* committed and was never returned before.
OnlyCommittedReplayed == Unread \subseteq Committed \ taken

\* How far the chunk that starts at block j is behind the reader.
BehindReader(j) == (j - cacheCursor) % N

\* What the recovery does keep: every committed chunk in front of which there
\* is no reservation that was not finished, provided the reader was not in the
\* middle of stepping over a gap and no reservation that became a gap was for
\* more than half the ring.
KeepsWhatIsReachable ==
    /\ crashes' # crashes
    /\ rpc # "gap"
    /\ \A i \in Index : block[i].status = "invalid" => 2 * block[i].num <= N
    => \A i \in Index :
        /\ block[i].status = "used" /\ block[i].chunk \in Unread
        /\ \A p \in Producers : Owns(p) \/ pc[p] \in {"over", "back"} =>
                cur[p] - cacheCursor > BehindReader(i)
        => block[i].chunk \in Unread'

\* The recovery hands out nothing that it must not, and keeps what it can reach;
\* nor does any other step leave the reader something that it has had.
RecoveryIsExact == [][OnlyCommittedReplayed' /\ KeepsWhatIsReachable]_crashVars
=============================================================================
