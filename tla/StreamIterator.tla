--------------------------- MODULE StreamIterator ---------------------------
(***************************************************************************)
(* The Lazer stream as an async iterator (LazerPriceStream.__aiter__,      *)
(* streams/prices.py): run() as a task of its own that puts every update   *)
(* into a queue, and a consumer that waits on that queue.  The streams may *)
(* also be used without it, through run() and a callback.                  *)
(***************************************************************************)
EXTENDS ReconnectingStream

CONSTANT MaxLoops   \* bound: loops over one stream

ASSUME LoopsAssumption == MaxLoops \in Nat \ {0}

VARIABLES
  consumer,  \* the loop: not used, waits, runs its body, was left, or is over
  buffer,    \* updates put and not taken
  taken,     \* updates the loop was given
  loops      \* loops begun

iteratorVars == <<consumer, buffer, taken, loops>>
iteratedVars == <<streamVars, iteratorVars>>

Iterated == consumer # "none"

IteratorTypeOK ==
  /\ StreamTypeOK
  /\ consumer \in {"none", "waiting", "body", "leaving", "ended", "failed"}
  /\ buffer \in Seq(1..MaxMessages)
  /\ taken \in Seq(1..MaxMessages)
  /\ loops \in 0..MaxLoops

IteratorInit ==
  /\ StreamInit
  /\ \/ consumer = "none" /\ loops = 0
     \/ kind = "lazer" /\ consumer = "waiting" /\ loops = 1
  /\ buffer = <<>>
  /\ taken = <<>>

-----------------------------------------------------------------------------
(* run(queue.put_nowait) *)

\* Mutant: the update that waits is overwritten.
PutLatest ==
  /\ CallbackReturns
  /\ buffer' = IF Iterated THEN <<given[Len(given)]>> ELSE buffer
  /\ UNCHANGED <<consumer, taken, loops>>

Put ==
  /\ CallbackReturns
  /\ buffer' = IF Iterated THEN Append(buffer, given[Len(given)]) ELSE buffer
  /\ UNCHANGED <<consumer, taken, loops>>

\* Putting raises nothing; the parsing of an update does.
Raises(cause) ==
  /\ Iterated => cause = "callback"
  /\ CallbackRaises(cause)
  /\ UNCHANGED iteratorVars

-----------------------------------------------------------------------------
(* The loop *)

Take1 ==
  /\ consumer = "waiting"
  /\ buffer # <<>>
  /\ buffer' = Tail(buffer)
  /\ taken' = Append(taken, Head(buffer))
  /\ consumer' = "body"
  /\ UNCHANGED <<streamVars, loops>>

BodyEnds ==
  /\ consumer = "body"
  /\ consumer' = "waiting"
  /\ UNCHANGED <<streamVars, buffer, taken, loops>>

\* A break, an exception of the body, or a cancellation while it waits.
Leave ==
  /\ consumer \in {"waiting", "body"}
  /\ consumer' = "leaving"
  /\ UNCHANGED <<streamVars, buffer, taken, loops>>

\* Mutant: leaving the loop stops the stream and does not cancel the task.
CleanUpStopsOnly ==
  /\ consumer = "leaving"
  /\ stopped' = TRUE
  /\ consumer' = "ended"
  /\ UNCHANGED <<serverVars, streamPc, attempt, feeds, given, buffer, taken, loops>>

\* Mutant: the loop ends as the task has ended.
CleanUpAsTask ==
  /\ consumer = "leaving"
  /\ stopped' = TRUE
  /\ streamPc' = IF streamPc = "raised" THEN "raised" ELSE "returned"
  /\ consumer' = streamPc'
  /\ HangUp
  /\ UNCHANGED <<attempt, feeds, given, buffer, taken, loops>>

\* The finally clause: stop(), cancel and await the task.  An exception that
\* run() has ended with comes out here, and nowhere before.  (From a message to
\* the last of its updates put_nowait lets run() suspend nowhere.)
CleanUp ==
  /\ consumer = "leaving"
  /\ streamPc # "callback"
  /\ stopped' = TRUE
  /\ consumer' = IF streamPc = "raised" THEN "failed" ELSE "ended"
  /\ streamPc' = IF streamPc = "raised" THEN "raised" ELSE "returned"
  /\ HangUp
  /\ UNCHANGED <<attempt, feeds, given, buffer, taken, loops>>

\* Another loop over the same stream: a new queue and a new task of run().
LoopAgain ==
  /\ consumer \in {"ended", "failed"}
  /\ loops < MaxLoops
  /\ loops' = loops + 1
  /\ consumer' = "waiting"
  /\ buffer' = <<>>
  /\ streamPc' = "test"
  /\ attempt' = 0
  /\ feeds' = 0
  /\ UNCHANGED <<serverVars, stopped, given, taken>>

\* The steps of the stream that leave the iterator alone.
Stream1 ==
  /\ \/ Test
     \/ Connect
     \/ ConnectFails
     \/ Take
     \/ Closed
     \/ Breaks
     \/ Retry
     \/ ReadsStop /\ wire # <<>>
  /\ UNCHANGED iteratorVars

Others ==
  /\ \/ ServerTurns
     \/ Publish
     \/ \E how \in {"closed", "broken"} : ConnectionEnds(how)
     \/ Stop
     \/ ReadsStop
     \/ Malformed
     \/ StreamFinished
  /\ UNCHANGED iteratorVars

Consumes == Take1 \/ BodyEnds \/ CleanUp

IteratorNext ==
  \/ Stream1
  \/ Others
  \/ Put
  \/ \E cause \in {"callback", "network"} : Raises(cause)
  \/ Consumes
  \/ Leave
  \/ LoopAgain

IteratorSpec == IteratorInit /\ [][IteratorNext]_iteratedVars

\* As FairSpec, with a consumer whose body ends.  A loop that is left is cleaned
\* up: at once by aclose(), later by the garbage collector.
FairIterator ==
  IteratorSpec /\ WF_iteratedVars(Stream1 \/ Put) /\ WF_iteratedVars(Consumes)

-----------------------------------------------------------------------------
(* Properties *)

\* A loop that is over has left no task of run() and no connection behind, at
\* whatever point it was left and whatever the stream was doing then.
NoTaskLeft ==
  consumer \in {"ended", "failed"} => streamPc \in {"returned", "raised"} /\ conn = "none"

\* "deliver PriceUpdate objects ... via async for" (prices.py:7): an update that
\* was put reaches the loop, also when the stream ends first, unless the loop
\* is left.
Served == \A m \in 1..MaxMessages :
  (\E i \in DOMAIN buffer : buffer[i] = m)
    ~> ((\E i \in DOMAIN taken : taken[i] = m) \/ consumer \notin {"waiting", "body"})
=============================================================================
