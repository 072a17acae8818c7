----------------------------- MODULE MCProgress -----------------------------
(***************************************************************************)
(* What keeps the two queues of a log going, in one run: a behaviour is    *)
(* one of MisoRing or one of LogBuffer, which has a queue of its own for   *)
(* its ring, and the other rests.  Two chunks of 3 fit a ring of 8, the    *)
(* third needs what the first gives back.  In the buffer one ring place    *)
(* and two blocks are enough for a thread to wait for the other's.         *)
(***************************************************************************)
EXTENDS MisoRingRefinement, TLC

CONSTANTS p1, p2, t1, t2, g1, None

VARIABLES
    part,
    lp, groups, free, used, stage, context, data, place, curBlock, writeSeq,
    logged, readSeq, deleted, reader, step, read, waiting, owed

MCProducers == {p1, p2}
TwoAndOne == t1 :> 2 @@ t2 :> 1

Buffer == INSTANCE LogBuffer WITH
    Threads <- {t1, t2}, Groups <- {g1}, BlocksPerGroup <- 2,
    Rounds <- TwoAndOne, LpRoom <- 1, BlockRoom <- 2, AutoExpand <- FALSE,
    pc <- place, sent <- logged, rpc <- step

ASSUME Buffer!LogBufferAssumption

bufferVars == <<lp, groups, free, used, stage, context, data, place, curBlock,
                writeSeq, logged, readSeq, deleted, reader, step, read, waiting, owed>>

AtRing   == part = "ring" /\ UNCHANGED <<part, bufferVars>>
AtBuffer == part = "buffer" /\ UNCHANGED <<part, vars>>

MCInit == Init /\ Buffer!Init /\ part \in {"ring", "buffer"}

\* One disjunct for each action, so that TLC counts each.
MCNext ==
    \/ (\E p \in Producers : AllocBegin(p)) /\ AtRing
    \/ (\E p \in Producers : TakeReference(p)) /\ AtRing
    \/ (\E p \in Producers : CheckAgain(p)) /\ AtRing
    \/ (\E p \in Producers : FetchAdd(p)) /\ AtRing
    \/ (\E p \in Producers : LookAgain(p)) /\ AtRing
    \/ (\E p \in Producers : FallBack(p)) /\ AtRing
    \/ (\E p \in Producers : LeaveGap(p)) /\ AtRing
    \/ (\E p \in Producers : AllocReturn(p)) /\ AtRing
    \/ (\E p \in Producers : Fill(p)) /\ AtRing
    \/ (\E p \in Producers : Commit(p)) /\ AtRing
    \/ ReadGap /\ AtRing
    \/ StepOverGap /\ AtRing
    \/ ReadUsed /\ AtRing
    \/ ReadUnused /\ AtRing
    \/ ReadNothing /\ AtRing
    \/ ReturnChunk /\ AtRing
    \/ ReturnEmpty /\ AtRing
    \/ Discard /\ AtRing
    \/ (\E t \in {t1, t2} : Buffer!Call(t)) /\ AtBuffer
    \/ (\E t \in {t1, t2} : Buffer!Proceed(t)) /\ AtBuffer
    \/ (\E t \in {t1, t2} : Buffer!End(t)) /\ AtBuffer
    \/ Buffer!NextOfBatch /\ AtBuffer
    \/ Buffer!BeginRound /\ AtBuffer
    \/ Buffer!ReadRing /\ AtBuffer
    \/ Buffer!ReadMark /\ AtBuffer
    \/ Buffer!LeaveRing /\ AtBuffer
    \/ Buffer!ReadBlock /\ AtBuffer
    \/ Buffer!EnterBlock /\ AtBuffer
    \/ Buffer!LeaveGroup /\ AtBuffer
    \/ Buffer!NextGroup /\ AtBuffer
    \/ Buffer!Complete /\ AtBuffer
    \/ Buffer!ReturnToBlock /\ AtBuffer
    \/ Buffer!ReturnToRing /\ AtBuffer
    \/ Buffer!ReturnEmpty /\ AtBuffer

\* Each part is fair in its own behaviours; the other rests in its first state,
\* where its reader could go on.
MCSpec == /\ MCInit /\ [][MCNext]_<<vars, bufferVars, part>>
          /\ \/ part = "ring" /\ Fairness
             \/ part = "buffer" /\ Buffer!Fairness

\* What is committed to the buffer is read, and in the end all its memory is
\* given back: see LogBuffer.
ReadAndGivenBack == part = "buffer" => Buffer!ReadAndGivenBack
=============================================================================
