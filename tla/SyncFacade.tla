----------------------------- MODULE SyncFacade -----------------------------
(***************************************************************************)
(* Avantis, the synchronous facade (client.py): threads that hand their    *)
(* calls to one event loop in a thread of its own and wait for the result, *)
(* and close(), which closes the transport and stops that loop.  Two calls *)
(* are followed on the loop: markets.snapshot(), which is SnapshotCache,   *)
(* and meta(), which fetches /v2/meta once behind a lock.                  *)
(***************************************************************************)
EXTENDS SnapshotCache, Sequences, FiniteSets

CONSTANT MaxCalls   \* bound: calls made

Free == "nobody"

ASSUME CallsAssumption == MaxCalls \in Nat /\ Free \notin Tasks

VARIABLES
  thread,   \* what each thread does; it is the task of its call
  job,      \* its call
  queue,    \* what is scheduled on the loop: a call begins, or the loop stops
  loop,     \* running, told to stop, or stopped
  open,     \* the transport is open
  made,     \* calls made
  closes,   \* calls of close() among them
  known,    \* _meta is set
  holder,   \* the task that holds _meta_lock and makes the request
  waiters   \* the tasks that wait for it, in order

facadeVars == <<thread, job, queue, loop, open, made, closes, known, holder, waiters>>
allVars == <<vars, facadeVars>>

Calls == {"snapshot", "forced", "meta", "aclose"}

FacadeTypeOK ==
  /\ TypeOK
  /\ thread \in [Tasks -> {"idle", "waiting", "joining"}]
  /\ job \in [Tasks -> Calls \cup {"none", "stop"}]
  /\ queue \in Seq([task : Tasks, what : Calls \cup {"stop"}])
  /\ loop \in {"running", "stopping", "stopped"}
  /\ open \in BOOLEAN
  /\ made \in 0..MaxCalls
  /\ closes \in 0..MaxCalls
  /\ known \in BOOLEAN
  /\ holder \in Tasks \cup {Free}
  /\ waiters \in Seq(Tasks)

FacadeInit ==
  /\ Init
  /\ thread = [t \in Tasks |-> "idle"]
  /\ job = [t \in Tasks |-> "none"]
  /\ queue = <<>>
  /\ loop = "running"
  /\ open = TRUE
  /\ made = 0
  /\ closes = 0
  /\ known = FALSE
  /\ holder = Free
  /\ waiters = <<>>

Runs == loop # "stopped"

-----------------------------------------------------------------------------
(* The threads *)

\* _run: run_coroutine_threadsafe(coro, loop).result().  Nothing asks whether
\* the loop still runs.
Submit(t, call) ==
  /\ thread[t] = "idle"
  /\ thread' = [thread EXCEPT ![t] = "waiting"]
  /\ job' = [job EXCEPT ![t] = call]
  /\ queue' = Append(queue, [task |-> t, what |-> call])
  /\ made < MaxCalls
  /\ made' = made + 1
  /\ closes' = IF call = "aclose" THEN closes + 1 ELSE closes
  /\ UNCHANGED <<vars, loop, open, known, holder, waiters>>

\* close() goes on: the stop is scheduled and the loop's thread joined, for five
\* seconds at most.
Join(t) ==
  /\ thread[t] = "joining"
  /\ job[t] = "aclose"
  /\ job' = [job EXCEPT ![t] = "stop"]
  /\ queue' = Append(queue, [task |-> t, what |-> "stop"])
  /\ UNCHANGED <<vars, thread, loop, open, made, closes, known, holder, waiters>>

Joined(t) ==
  /\ thread[t] = "joining"
  /\ job[t] = "stop"
  /\ loop = "stopped"
  /\ thread' = [thread EXCEPT ![t] = "idle"]
  /\ UNCHANGED <<vars, job, queue, loop, open, made, closes, known, holder, waiters>>

JoinExpires(t) ==
  /\ thread[t] = "joining"
  /\ job[t] = "stop"
  /\ thread' = [thread EXCEPT ![t] = "idle"]
  /\ UNCHANGED <<vars, job, queue, loop, open, made, closes, known, holder, waiters>>

-----------------------------------------------------------------------------
(* The loop *)

\* The coroutine of t is done and its future wakes the thread.
Wake(t, next) == thread' = [thread EXCEPT ![t] = next]

\* meta() up to its first await: the answer, the lock, or a place in the line.
EnterMeta(t) ==
  /\ IF known THEN Wake(t, "idle") /\ UNCHANGED <<holder, waiters>>
     ELSE /\ UNCHANGED thread
          /\ IF holder = Free /\ waiters = <<>> THEN holder' = t /\ UNCHANGED waiters
             ELSE waiters' = Append(waiters, t) /\ UNCHANGED holder
  /\ UNCHANGED <<vars, loop, open>>

\* The first scheduled callback runs.
RunNext ==
  /\ Runs
  /\ queue # <<>>
  /\ queue' = Tail(queue)
  /\ LET t == Head(queue).task  what == Head(queue).what IN
     \/ /\ what \in {"snapshot", "forced"}
        /\ Call(t, what = "forced")
        /\ Wake(t, IF pc'[t] = "returned" THEN "idle" ELSE "waiting")
        /\ UNCHANGED <<loop, open, holder, waiters>>
     \/ what = "meta" /\ EnterMeta(t)
     \/ /\ what = "aclose"
        /\ open' = FALSE
        /\ Wake(t, "joining")
        /\ UNCHANGED <<vars, loop, holder, waiters>>
     \/ /\ what = "stop"
        /\ loop' = "stopping"
        /\ UNCHANGED <<vars, thread, open, holder, waiters>>
  /\ UNCHANGED <<job, made, closes, known>>

\* The round in which stop() was called is the last; callbacks that were
\* scheduled for it still run.
Exit ==
  /\ loop = "stopping"
  /\ loop' = "stopped"
  /\ UNCHANGED <<vars, thread, job, queue, open, made, closes, known, holder, waiters>>

\* The request of a snapshot is answered and stored, or fails; one under way
\* when the transport is closed fails.
SnapshotStored(t) ==
  /\ Runs
  /\ Store(t)
  /\ Wake(t, "idle")
  /\ UNCHANGED <<job, queue, loop, open, made, closes, known, holder, waiters>>

\* Mutant: an exception is not passed on to the thread.
SnapshotFailsSilently(t) ==
  /\ Runs
  /\ Fail(t)
  /\ UNCHANGED <<thread, job, queue, loop, open, made, closes, known, holder, waiters>>

SnapshotFails(t) ==
  /\ Runs
  /\ Fail(t)
  /\ Wake(t, "idle")
  /\ UNCHANGED <<job, queue, loop, open, made, closes, known, holder, waiters>>

Waiting(t) == \E i \in DOMAIN waiters : waiters[i] = t

\* Mutant: a task that gets the lock does not look again whether _meta is set.
LockPassesUnchecked ==
  /\ Runs
  /\ holder = Free
  /\ waiters # <<>>
  /\ waiters' = Tail(waiters)
  /\ holder' = Head(waiters) /\ UNCHANGED thread
  /\ UNCHANGED <<vars, job, queue, loop, open, made, closes, known>>

\* The first in the line gets the lock and looks again whether _meta is set.
LockPasses ==
  /\ Runs
  /\ holder = Free
  /\ waiters # <<>>
  /\ waiters' = Tail(waiters)
  /\ IF known THEN Wake(Head(waiters), "idle") /\ UNCHANGED holder
     ELSE holder' = Head(waiters) /\ UNCHANGED thread
  /\ UNCHANGED <<vars, job, queue, loop, open, made, closes, known>>

MetaStored ==
  /\ Runs
  /\ open
  /\ holder # Free
  /\ known' = TRUE
  /\ holder' = Free
  /\ Wake(holder, "idle")
  /\ UNCHANGED <<vars, job, queue, loop, open, made, closes, waiters>>

MetaFails ==
  /\ Runs
  /\ holder # Free
  /\ holder' = Free
  /\ Wake(holder, "idle")
  /\ UNCHANGED <<vars, job, queue, loop, open, made, closes, known, waiters>>

\* The data API answers, and the clock goes on.
Outside ==
  /\ Tick \/ (open /\ \E t \in Tasks : Answer(t))
  /\ UNCHANGED facadeVars

SnapshotSettles(t) == SnapshotStored(t) \/ SnapshotFails(t)
MetaSettles == LockPasses \/ MetaStored \/ MetaFails

FacadeNext ==
  \/ \E t \in Tasks, call \in Calls : Submit(t, call)
  \/ \E t \in Tasks : Join(t) \/ Joined(t) \/ JoinExpires(t)
  \/ RunNext
  \/ Exit
  \/ \E t \in Tasks : SnapshotSettles(t)
  \/ MetaSettles
  \/ Outside

FacadeSpec == FacadeInit /\ [][FacadeNext]_allVars

\* The loop's thread runs what is scheduled, each request is answered or ends
\* in an error, and a thread whose future is done goes on.
FairFacade ==
  /\ FacadeSpec
  /\ WF_allVars(RunNext)
  /\ WF_allVars(Exit)
  /\ WF_allVars(MetaSettles)
  /\ \A t \in Tasks : WF_allVars(SnapshotSettles(t)) /\ WF_allVars(Join(t))
                      /\ WF_allVars(Joined(t))

-----------------------------------------------------------------------------
(* Properties *)

\* "Cached /v2/meta bootstrap" (client.py:47): once an answer is stored nobody
\* asks for another, however many tasks stood in line for the lock and whichever
\* of their requests failed.
MetaFetchedOnce == known => holder = Free

\* A task stands in line once, and only while its thread waits for meta(); the
\* one that holds the lock is none of them.
InLine(t) == {i \in DOMAIN waiters : waiters[i] = t}
LineIsOrderly ==
  \A t \in Tasks :
    /\ Cardinality(InLine(t)) + (IF holder = t THEN 1 ELSE 0) <= 1
    /\ InLine(t) # {} \/ holder = t => thread[t] = "waiting" /\ job[t] = "meta"

MetaLock == FacadeTypeOK /\ LineIsOrderly /\ MetaFetchedOnce

\* Until close() is called, the call of every thread returns; the one close()
\* returns and ends the loop's thread, whatever calls of others are under way.
CallsReturn ==
  /\ \A t \in Tasks :
       (thread[t] = "waiting" /\ closes = 0) ~> (thread[t] = "idle" \/ closes > 0)
  /\ \A t \in Tasks :
       (thread[t] = "waiting" /\ job[t] = "aclose" /\ closes = 1)
         ~> (thread[t] = "idle" \/ closes > 1)
  /\ closes = 1 ~> (loop = "stopped" \/ closes > 1)
=============================================================================
