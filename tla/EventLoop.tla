------------------------------ MODULE EventLoop ------------------------------
(*
 * What a client keeps running on one asyncio loop: the calls of the
 * synchronous facade's threads (SyncFacade) or a loop over a price stream
 * (StreamIterator).  They share the loop and no state, so that a behaviour is
 * of one of them, chosen at the start, and the other stands where it began.
 *)
EXTENDS SyncFacade, StreamIterator

VARIABLE serving  \* what the loop serves

loopVars == <<serving, allVars, iteratedVars>>

LoopInit ==
  \/ serving = "threads" /\ FacadeInit /\ IteratorInit
       /\ kind = "lazer" /\ ~up /\ ~Iterated
  \/ serving = "stream" /\ IteratorInit /\ FacadeInit /\ clock = 0

ThreadsStep(A) == serving = "threads" /\ A /\ UNCHANGED <<serving, iteratedVars>>
StreamStep(A) == serving = "stream" /\ A /\ UNCHANGED <<serving, allVars>>

\* No thread waits, or the loop was stopped and those that wait do so for ever
\* (client.py:210).  Nothing else may bring the threads to a halt.
ThreadsRest ==
  /\ serving = "threads"
  /\ loop = "stopped" \/ \A t \in Tasks : thread[t] = "idle"
  /\ UNCHANGED loopVars

LoopNext == ThreadsStep(FacadeNext) \/ ThreadsRest \/ StreamStep(IteratorNext)

LoopSpec == LoopInit /\ [][LoopNext]_loopVars

\* The fairness of each: see FairFacade and FairIterator.
FairLoop ==
  /\ LoopSpec
  /\ WF_loopVars(ThreadsStep(RunNext))
  /\ WF_loopVars(ThreadsStep(Exit))
  /\ WF_loopVars(ThreadsStep(MetaSettles))
  /\ \A t \in Tasks :
       /\ WF_loopVars(ThreadsStep(SnapshotSettles(t)))
       /\ WF_loopVars(ThreadsStep(Join(t)))
       /\ WF_loopVars(ThreadsStep(Joined(t)))
  /\ WF_loopVars(StreamStep(Stream1 \/ Put))
  /\ WF_loopVars(StreamStep(Consumes))
=============================================================================
