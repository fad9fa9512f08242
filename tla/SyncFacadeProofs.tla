--------------------------- MODULE SyncFacadeProofs ---------------------------
(***************************************************************************)
(* Theorems about SyncFacade, for any number of threads and calls, any ttl *)
(* and any bound of the clock.                                             *)
(*                                                                         *)
(* The cache first, by itself: a snapshot is never older than its stamp,   *)
(* because the stamp is the time before its request; that holds of an      *)
(* answer that overtakes another too, so whichever is stored last may be   *)
(* trusted for a ttl.  Then the loop: a thread that waits is in one place, *)
(* among the callbacks that are scheduled, at the data API, in the line    *)
(* for the lock, or the one that holds it.                                 *)
(***************************************************************************)
EXTENDS SyncFacade, FiniteSetTheorems, SequenceTheorems, TLAPS

-----------------------------------------------------------------------------
(* The cache *)

StampInv == snapshot # None => snapshotAt <= snapshot

CallInv ==
  \A t \in Tasks :
    /\ now[t] <= clock
    /\ pc[t] = "request" => result[t] = None
    /\ reply[t] # None => now[t] <= reply[t]

IInv == TypeOK /\ StampInv /\ CallInv /\ NoStaleData /\ ForcedIsFresh

LEMMA InitIInv == Init => IInv
BY ConstantsAssumption
   DEF Init, IInv, TypeOK, StampInv, CallInv, NoStaleData, ForcedIsFresh, Time, None

\* A call that is served from the cache, or makes a request.
LEMMA CallStep ==
  ASSUME IInv, NEW t \in Tasks, NEW force \in BOOLEAN, Call(t, force)
  PROVE  IInv'
<1> USE ConstantsAssumption
<1>1. TypeOK'
  BY DEF Call, IInv, TypeOK, Time, None
<1>2. StampInv'
  BY DEF Call, IInv, StampInv
<1>3. CallInv'
  BY DEF Call, IInv, TypeOK, CallInv, Time, None
<1>4. CASE Expired(force)
  <2>1. \A s \in Tasks : result'[s] = IF s = t THEN None ELSE result[s]
    BY <1>4 DEF Call, IInv, TypeOK
  <2>2. NoStaleData' /\ ForcedIsFresh'
    BY <2>1 DEF Call, IInv, TypeOK, NoStaleData, ForcedIsFresh
  <2> QED
    BY <1>1, <1>2, <1>3, <2>2 DEF IInv
<1>5. CASE ~Expired(force)
  <2>1. ~force /\ snapshot # None /\ clock - snapshotAt <= TTL
    BY <1>5 DEF Expired, IInv, TypeOK, Time
  <2>2. snapshot >= clock - TTL
    BY <2>1 DEF IInv, TypeOK, StampInv, Time, None
  <2>3. NoStaleData'
    BY <1>5, <2>2 DEF Call, IInv, TypeOK, NoStaleData
  <2>4. ForcedIsFresh'
    BY <2>1 DEF Call, IInv, TypeOK, ForcedIsFresh
  <2> QED
    BY <1>1, <1>2, <1>3, <2>3, <2>4 DEF IInv
<1> QED
  BY <1>4, <1>5

LEMMA StoreStep ==
  ASSUME IInv, NEW t \in Tasks, Store(t)
  PROVE  IInv'
<1> USE ConstantsAssumption
<1>1. now[t] <= reply[t]
  BY DEF Store, IInv, CallInv
<1>2. TypeOK'
  BY DEF Store, IInv, TypeOK, Time, None
<1>3. StampInv'
  BY <1>1 DEF Store, StampInv
<1>4. CallInv'
  BY DEF Store, IInv, TypeOK, CallInv
<1>5. NoStaleData' /\ ForcedIsFresh'
  BY <1>1 DEF Store, IInv, TypeOK, NoStaleData, ForcedIsFresh, Time, None
<1> QED
  BY <1>2, <1>3, <1>4, <1>5 DEF IInv

LEMMA IInvStep == IInv /\ [Next]_vars => IInv'
<1> SUFFICES ASSUME IInv, [Next]_vars
             PROVE  IInv'
  OBVIOUS
<1> USE ConstantsAssumption
<1>1. ASSUME NEW t \in Tasks, Answer(t)
      PROVE  IInv'
  BY <1>1 DEF Answer, IInv, TypeOK, StampInv, CallInv, NoStaleData, ForcedIsFresh, Time, None
<1>2. ASSUME NEW t \in Tasks, Fail(t)
      PROVE  IInv'
  BY <1>2 DEF Fail, IInv, TypeOK, StampInv, CallInv, NoStaleData, ForcedIsFresh, Time, None
<1>3. CASE Tick
  BY <1>3 DEF Tick, IInv, TypeOK, StampInv, CallInv, NoStaleData, ForcedIsFresh, Time, None
<1>4. CASE UNCHANGED vars
  BY <1>4 DEF vars, IInv, TypeOK, StampInv, CallInv, NoStaleData, ForcedIsFresh
<1> QED
  BY <1>1, <1>2, <1>3, <1>4, CallStep, StoreStep DEF Next, Task

LEMMA Invariance == Spec => []IInv
BY InitIInv, IInvStep, PTL DEF Spec

-----------------------------------------------------------------------------
(* The loop *)

Items == [task : Tasks, what : Calls \cup {"stop"}]

\* i is the place of a call that has not begun.
IsCall(i) == queue[i].what # "stop"

\* A call that has not begun is its thread's one, and nowhere else.
QueueInv ==
  /\ \A i \in DOMAIN queue : IsCall(i) =>
       LET t == queue[i].task IN
       /\ thread[t] = "waiting" /\ job[t] = queue[i].what
       /\ pc[t] # "request"
       /\ t # holder /\ ~Waiting(t)
  /\ \A i, j \in DOMAIN queue :
       IsCall(i) /\ IsCall(j) /\ queue[i].task = queue[j].task => i = j

\* The line for the lock and the one that holds it.
LineInv ==
  /\ \A i \in DOMAIN waiters :
       waiters[i] # holder /\ thread[waiters[i]] = "waiting" /\ job[waiters[i]] = "meta"
  /\ \A i, j \in DOMAIN waiters : waiters[i] = waiters[j] => i = j
  /\ holder # Free => thread[holder] = "waiting" /\ job[holder] = "meta"

\* A request for a snapshot is of a thread that waits for it; a thread that
\* joins the loop's has called close().
ThreadInv ==
  \A t \in Tasks :
    /\ pc[t] = "request" => thread[t] = "waiting" /\ job[t] \in {"snapshot", "forced"}
    /\ thread[t] = "joining" => job[t] \in {"aclose", "stop"}

FacadeInv ==
  /\ IInv
  /\ FacadeTypeOK
  /\ closes <= made
  /\ QueueInv
  /\ LineInv
  /\ ThreadInv
  /\ MetaFetchedOnce
-----------------------------------------------------------------------------
LEMMA AppendAt ==
  ASSUME NEW S, NEW s \in Seq(S), NEW e \in S
  PROVE  /\ Append(s, e) \in Seq(S)
         /\ DOMAIN s = 1..Len(s) /\ Len(s) \in Nat
         /\ DOMAIN Append(s, e) = 1..(Len(s) + 1)
         /\ \A i \in 1..(Len(s) + 1) :
              Append(s, e)[i] = IF i = Len(s) + 1 THEN e ELSE s[i]
OBVIOUS

LEMMA TailAt ==
  ASSUME NEW S, NEW s \in Seq(S), s # <<>>
  PROVE  /\ Len(s) \in Nat \ {0} /\ DOMAIN s = 1..Len(s)
         /\ Head(s) = s[1] /\ s[1] \in S
         /\ Tail(s) \in Seq(S)
         /\ DOMAIN Tail(s) = 1..(Len(s) - 1)
         /\ \A i \in 1..(Len(s) - 1) : Tail(s)[i] = s[i + 1] /\ i + 1 \in DOMAIN s
OBVIOUS

LEMMA FacadeInvInit == FacadeInit => FacadeInv
<1> SUFFICES ASSUME FacadeInit
             PROVE  FacadeInv
  OBVIOUS
<1>1. IInv
  BY InitIInv DEF FacadeInit
<1>2. FacadeTypeOK /\ closes <= made
  <2>1. queue \in Seq(Items) /\ waiters \in Seq(Tasks)
    BY DEF FacadeInit
  <2>2. thread \in [Tasks -> {"idle", "waiting", "joining"}]
    BY DEF FacadeInit
  <2>3. job \in [Tasks -> Calls \cup {"none", "stop"}]
    BY DEF FacadeInit
  <2>4. made \in 0..MaxCalls /\ closes \in 0..MaxCalls /\ closes <= made
    BY CallsAssumption DEF FacadeInit
  <2> QED
    BY <1>1, <2>1, <2>2, <2>3, <2>4 DEF FacadeInit, FacadeTypeOK, IInv, Items
<1>3. QueueInv /\ LineInv /\ ThreadInv /\ MetaFetchedOnce
  BY DEF FacadeInit, Init, QueueInv, LineInv, ThreadInv, MetaFetchedOnce
<1> QED
  BY <1>1, <1>2, <1>3 DEF FacadeInv

\* The shapes the steps below start from.
LEMMA Shapes ==
  ASSUME FacadeInv
  PROVE  /\ queue \in Seq(Items) /\ Len(queue) \in Nat /\ DOMAIN queue = 1..Len(queue)
         /\ \A i \in DOMAIN queue :
              queue[i].task \in Tasks /\ queue[i].what \in Calls \cup {"stop"}
         /\ waiters \in Seq(Tasks) /\ Len(waiters) \in Nat /\ DOMAIN waiters = 1..Len(waiters)
         /\ \A i \in DOMAIN waiters : waiters[i] \in Tasks
         /\ holder \in Tasks \cup {Free} /\ Free \notin Tasks
         /\ thread \in [Tasks -> {"idle", "waiting", "joining"}]
         /\ job \in [Tasks -> Calls \cup {"none", "stop"}]
         /\ pc \in [Tasks -> {"idle", "request", "returned"}]
<1>1. /\ queue \in Seq(Items) /\ waiters \in Seq(Tasks)
      /\ holder \in Tasks \cup {Free} /\ Free \notin Tasks
      /\ thread \in [Tasks -> {"idle", "waiting", "joining"}]
      /\ job \in [Tasks -> Calls \cup {"none", "stop"}]
      /\ pc \in [Tasks -> {"idle", "request", "returned"}]
  BY CallsAssumption DEF FacadeInv, FacadeTypeOK, Items, TypeOK
<1>2. /\ Len(queue) \in Nat /\ DOMAIN queue = 1..Len(queue)
      /\ \A i \in DOMAIN queue : queue[i] \in Items
      /\ Len(waiters) \in Nat /\ DOMAIN waiters = 1..Len(waiters)
      /\ \A i \in DOMAIN waiters : waiters[i] \in Tasks
  BY <1>1, ElementOfSeq
<1>3. \A i \in DOMAIN queue :
        queue[i].task \in Tasks /\ queue[i].what \in Calls \cup {"stop"}
  BY <1>2 DEF Items
<1> QED
  BY <1>1, <1>2, <1>3

\* What is scheduled goes to the end of the queue.
LEMMA ScheduleStep ==
  ASSUME FacadeInv, NEW t \in Tasks, NEW call \in Calls \cup {"stop"},
         queue' = Append(queue, [task |-> t, what |-> call])
  PROVE  /\ queue' \in Seq(Items)
         /\ DOMAIN queue' = 1..(Len(queue) + 1)
         /\ \A i \in DOMAIN queue : queue'[i] = queue[i]
         /\ queue'[Len(queue) + 1] = [task |-> t, what |-> call]
<1>1. [task |-> t, what |-> call] \in Items
  BY DEF Items
<1> QED
  BY <1>1, Shapes, AppendAt

\* A thread that is idle hands over its call.
LEMMA SubmitStep ==
  ASSUME FacadeInv, IInv', NEW t \in Tasks, NEW call \in Calls, Submit(t, call)
  PROVE  FacadeInv'
<1>1. /\ thread[t] = "idle" /\ call # "stop"
      /\ thread' = [thread EXCEPT ![t] = "waiting"] /\ job' = [job EXCEPT ![t] = call]
      /\ queue' = Append(queue, [task |-> t, what |-> call])
      /\ UNCHANGED <<pc, holder, waiters, known, loop, open>>
  BY DEF Submit, vars, Calls
<1>2. /\ queue' \in Seq(Items) /\ DOMAIN queue' = 1..(Len(queue) + 1)
      /\ \A i \in DOMAIN queue : queue'[i] = queue[i]
      /\ queue'[Len(queue) + 1] = [task |-> t, what |-> call]
  BY <1>1, ScheduleStep
<1>3. made' \in 0..MaxCalls /\ closes' \in 0..MaxCalls /\ closes' <= made'
  BY CallsAssumption DEF Submit, FacadeInv, FacadeTypeOK
<1>4. FacadeTypeOK'
  <2>1. /\ thread' \in [Tasks -> {"idle", "waiting", "joining"}]
        /\ job' \in [Tasks -> Calls \cup {"none", "stop"}]
    BY <1>1, Shapes
  <2> QED
    BY <1>1, <1>2, <1>3, <2>1 DEF IInv, FacadeInv, FacadeTypeOK, Items
<1>5. QueueInv'
  <2>1. \A i \in DOMAIN queue : IsCall(i) => queue[i].task # t
    BY <1>1 DEF FacadeInv, QueueInv
  <2>2. t # holder /\ ~Waiting(t) /\ pc[t] # "request"
    BY <1>1, Shapes DEF FacadeInv, LineInv, ThreadInv, Waiting
  <2> QED
    BY <1>1, <1>2, <2>1, <2>2, Shapes DEF FacadeInv, QueueInv, IsCall, Waiting
<1>6. LineInv' /\ ThreadInv' /\ MetaFetchedOnce'
  BY <1>1, Shapes DEF FacadeInv, LineInv, ThreadInv, MetaFetchedOnce
<1> QED
  BY <1>3, <1>4, <1>5, <1>6 DEF FacadeInv

\* close() schedules the stop.
LEMMA JoinStep ==
  ASSUME FacadeInv, IInv', NEW t \in Tasks, Join(t)
  PROVE  FacadeInv'
<1>1. /\ thread[t] = "joining" /\ job' = [job EXCEPT ![t] = "stop"]
      /\ queue' = Append(queue, [task |-> t, what |-> "stop"])
      /\ UNCHANGED <<pc, thread, loop, open, made, closes, known, holder, waiters>>
  BY DEF Join, vars
<1>2. /\ queue' \in Seq(Items) /\ DOMAIN queue' = 1..(Len(queue) + 1)
      /\ \A i \in DOMAIN queue : queue'[i] = queue[i]
      /\ queue'[Len(queue) + 1] = [task |-> t, what |-> "stop"]
  BY <1>1, ScheduleStep
<1>3. FacadeTypeOK'
  <2>1. job' \in [Tasks -> Calls \cup {"none", "stop"}]
    BY <1>1, Shapes
  <2> QED
    BY <1>1, <1>2, <2>1 DEF IInv, FacadeInv, FacadeTypeOK, Items
<1>4. QueueInv'
  <2>1. \A i \in DOMAIN queue : IsCall(i) => queue[i].task # t
    BY <1>1 DEF FacadeInv, QueueInv
  <2> QED
    BY <1>1, <1>2, <2>1, Shapes DEF FacadeInv, QueueInv, IsCall, Waiting
<1>5. LineInv' /\ ThreadInv' /\ MetaFetchedOnce'
  BY <1>1, Shapes DEF FacadeInv, LineInv, ThreadInv, MetaFetchedOnce
<1> QED
  BY <1>1, <1>3, <1>4, <1>5 DEF FacadeInv

\* The first of what is scheduled, or of the line, is taken.
LEMMA FirstTaken ==
  ASSUME FacadeInv
  PROVE  /\ queue # <<>> =>
              /\ 1 \in DOMAIN queue /\ Head(queue) = queue[1]
              /\ Tail(queue) \in Seq(Items) /\ DOMAIN Tail(queue) \subseteq Nat
              /\ \A i \in DOMAIN Tail(queue) :
                   i > 0 /\ i + 1 \in DOMAIN queue /\ Tail(queue)[i] = queue[i + 1]
         /\ waiters # <<>> =>
              /\ 1 \in DOMAIN waiters /\ Head(waiters) = waiters[1]
              /\ Tail(waiters) \in Seq(Tasks) /\ DOMAIN Tail(waiters) \subseteq Nat
              /\ \A i \in DOMAIN Tail(waiters) :
                   i > 0 /\ i + 1 \in DOMAIN waiters /\ Tail(waiters)[i] = waiters[i + 1]
BY Shapes, TailAt

\* What is left of the queue, and of the line, after a step that takes k and m
\* from their fronts.
Left(k, m) ==
  /\ queue' \in Seq(Items) /\ DOMAIN queue' \subseteq Nat
  /\ \A i \in DOMAIN queue' : i + k \in DOMAIN queue /\ queue'[i] = queue[i + k]
  /\ waiters' \in Seq(Tasks) /\ DOMAIN waiters' \subseteq Nat
  /\ \A i \in DOMAIN waiters' : i + m \in DOMAIN waiters /\ waiters'[i] = waiters[i + m]

LEMMA LeftQueue ==
  ASSUME FacadeInv, queue # <<>>, queue' = Tail(queue), UNCHANGED waiters
  PROVE  Left(1, 0)
BY FirstTaken, Shapes DEF Left

LEMMA LeftLine ==
  ASSUME FacadeInv, waiters # <<>>, waiters' = Tail(waiters), UNCHANGED queue
  PROVE  Left(0, 1)
BY FirstTaken, Shapes DEF Left

LEMMA LeftAll ==
  ASSUME FacadeInv, UNCHANGED <<queue, waiters>>
  PROVE  Left(0, 0)
BY Shapes DEF Left

\* The calls that are still scheduled were where QueueInv has them.
LEMMA LeftCalls ==
  ASSUME FacadeInv, NEW k \in Nat, NEW m \in Nat, Left(k, m)
  PROVE  /\ \A i \in DOMAIN queue' : IsCall(i)' =>
              LET t == queue'[i].task IN
              /\ t \in Tasks /\ thread[t] = "waiting" /\ job[t] = queue'[i].what
              /\ pc[t] # "request" /\ t # holder /\ ~Waiting(t)
         /\ \A i, j \in DOMAIN queue' :
              IsCall(i)' /\ IsCall(j)' /\ queue'[i].task = queue'[j].task => i = j
<1>1. QueueInv /\ \A i \in DOMAIN queue : queue[i].task \in Tasks
  BY Shapes DEF FacadeInv
<1>2. ASSUME NEW i \in DOMAIN queue', IsCall(i)'
      PROVE  i \in Nat /\ i + k \in DOMAIN queue /\ queue'[i] = queue[i + k] /\ IsCall(i + k)
  BY <1>2 DEF Left, IsCall
<1>3. ASSUME NEW i \in DOMAIN queue', IsCall(i)'
      PROVE  LET t == queue'[i].task IN
             /\ t \in Tasks /\ thread[t] = "waiting" /\ job[t] = queue'[i].what
             /\ pc[t] # "request" /\ t # holder /\ ~Waiting(t)
  BY <1>1, <1>2, <1>3 DEF QueueInv
<1>4. ASSUME NEW i \in DOMAIN queue', NEW j \in DOMAIN queue', IsCall(i)', IsCall(j)',
             queue'[i].task = queue'[j].task
      PROVE  i = j
  <2>1. /\ i \in Nat /\ i + k \in DOMAIN queue /\ queue'[i] = queue[i + k] /\ IsCall(i + k)
        /\ j \in Nat /\ j + k \in DOMAIN queue /\ queue'[j] = queue[j + k] /\ IsCall(j + k)
    BY <1>2, <1>4
  <2>2. i + k = j + k
    BY <1>1, <1>4, <2>1 DEF QueueInv
  <2> QED
    BY <2>1, <2>2
<1> QED
  BY <1>3, <1>4

\* t is in none of the places where a call can be.
Nowhere(t) ==
  /\ t # holder /\ ~Waiting(t) /\ pc[t] # "request"
  /\ \A i \in DOMAIN queue : IsCall(i) => queue[i].task # t

\* A thread goes on once its call is nowhere.
LEMMA WakeStep ==
  ASSUME FacadeInv, IInv', NEW t \in Tasks, NEW next \in {"idle", "joining"},
         Wake(t, next), next = "joining" => job[t] = "aclose",
         Nowhere(t)', NEW k \in Nat, NEW m \in Nat, Left(k, m),
         holder' \in {holder, Free}, MetaFetchedOnce',
         \A s \in Tasks : s # t => pc'[s] = pc[s],
         known' \in BOOLEAN, open' \in BOOLEAN,
         UNCHANGED <<job, loop, made, closes>>
  PROVE  FacadeInv'
<1>1. thread' = [thread EXCEPT ![t] = next]
  BY DEF Wake
<1>2. FacadeTypeOK'
  <2>1. thread' \in [Tasks -> {"idle", "waiting", "joining"}]
    BY <1>1, Shapes
  <2> QED
    BY <2>1 DEF IInv, FacadeInv, FacadeTypeOK, Left, Items
<1>3. QueueInv'
  <2>1. \A i \in DOMAIN queue' : IsCall(i)' => queue'[i].task # t
    BY DEF Nowhere
  <2>2. \A s \in Tasks : ~Waiting(s) => ~Waiting(s)'
    BY DEF Waiting, Left
  <2> QED
    BY <1>1, <2>1, <2>2, LeftCalls, Shapes DEF QueueInv
<1>4. LineInv'
  BY <1>1, Shapes DEF FacadeInv, LineInv, Waiting, Left, Nowhere
<1>5. ThreadInv'
  BY <1>1, Shapes DEF FacadeInv, ThreadInv, Nowhere
<1> QED
  BY <1>2, <1>3, <1>4, <1>5 DEF FacadeInv
\* The call that begins was scheduled and nowhere else.
LEMMA BeginsOnce ==
  ASSUME FacadeInv, queue # <<>>, queue' = Tail(queue), Head(queue).what # "stop",
         NEW t, t = Head(queue).task
  PROVE  /\ t \in Tasks /\ thread[t] = "waiting" /\ job[t] = Head(queue).what
         /\ t # holder /\ ~Waiting(t) /\ pc[t] # "request"
         /\ \A i \in DOMAIN queue' : IsCall(i)' => queue'[i].task # t
<1>1. 1 \in DOMAIN queue /\ Head(queue) = queue[1] /\ IsCall(1)
  BY FirstTaken DEF IsCall
<1>2. \A i \in DOMAIN queue' : i + 1 # 1 /\ i + 1 \in DOMAIN queue /\ queue'[i] = queue[i + 1]
  BY FirstTaken
<1> QED
  BY <1>1, <1>2, Shapes DEF FacadeInv, QueueInv, IsCall

\* snapshot() begins: it is served from the cache, or makes a request.
LEMMA SnapshotBegins ==
  ASSUME FacadeInv, IInv', queue # <<>>, queue' = Tail(queue),
         NEW t, t = Head(queue).task,
         Head(queue).what \in {"snapshot", "forced"},
         Call(t, Head(queue).what = "forced"),
         Wake(t, IF pc'[t] = "returned" THEN "idle" ELSE "waiting"),
         UNCHANGED <<loop, open, holder, waiters, job, made, closes, known>>
  PROVE  FacadeInv'
<1>1. /\ t \in Tasks /\ thread[t] = "waiting" /\ job[t] \in {"snapshot", "forced"}
      /\ t # holder /\ ~Waiting(t)
      /\ \A i \in DOMAIN queue' : IsCall(i)' => queue'[i].task # t
  BY BeginsOnce
<1>2. Left(1, 0)
  BY LeftQueue
<1>3. MetaFetchedOnce'
  BY DEF FacadeInv, MetaFetchedOnce
<1>4. \/ pc' = [pc EXCEPT ![t] = "request"]
      \/ pc' = [pc EXCEPT ![t] = "returned"]
  BY DEF Call
<1>5. CASE pc' = [pc EXCEPT ![t] = "returned"]
  <2>1. Nowhere(t)' /\ Wake(t, "idle") /\ \A s \in Tasks : s # t => pc'[s] = pc[s]
    BY <1>1, <1>5, Shapes DEF Nowhere, Waiting
  <2>2. known' \in BOOLEAN /\ open' \in BOOLEAN
    BY DEF FacadeInv, FacadeTypeOK
  <2> QED
    BY <1>1, <1>2, <1>3, <2>1, <2>2, WakeStep
<1>6. CASE pc' = [pc EXCEPT ![t] = "request"]
  <2>1. thread' = thread
    BY <1>1, <1>6, Shapes DEF Wake
  <2>2. FacadeTypeOK'
    BY <1>2, <2>1 DEF IInv, FacadeInv, FacadeTypeOK, Left, Items
  <2>3. QueueInv'
    BY <1>1, <1>2, <1>6, <2>1, Shapes DEF FacadeInv, QueueInv, IsCall, Waiting, Left
  <2>4. LineInv' /\ ThreadInv'
    BY <1>1, <1>6, <2>1, Shapes DEF FacadeInv, LineInv, ThreadInv
  <2> QED
    BY <1>3, <2>2, <2>3, <2>4 DEF FacadeInv
<1> QED
  BY <1>4, <1>5, <1>6

\* meta() begins: it has its answer, takes the lock, or goes to the end of the line.
LEMMA MetaBegins ==
  ASSUME FacadeInv, IInv', queue # <<>>, queue' = Tail(queue),
         NEW t, t = Head(queue).task,
         Head(queue).what = "meta", EnterMeta(t),
         UNCHANGED <<job, made, closes, known>>
  PROVE  FacadeInv'
<1>1. /\ t \in Tasks /\ thread[t] = "waiting" /\ job[t] = "meta"
      /\ t # holder /\ ~Waiting(t) /\ pc[t] # "request"
      /\ \A i \in DOMAIN queue' : IsCall(i)' => queue'[i].task # t
  BY BeginsOnce
<1>2. /\ queue' \in Seq(Items) /\ DOMAIN queue' \subseteq Nat
      /\ \A i \in DOMAIN queue' : i + 1 \in DOMAIN queue /\ queue'[i] = queue[i + 1]
  BY FirstTaken
<1>3. UNCHANGED <<pc, loop, open>>
  BY DEF EnterMeta, vars
<1>4. CASE known
  <2>1. Wake(t, "idle") /\ UNCHANGED <<holder, waiters>>
    BY <1>4 DEF EnterMeta
  <2>2. Nowhere(t)' /\ Left(1, 0)
    BY <1>1, <1>3, <2>1, LeftQueue DEF Nowhere, Waiting
  <2>3. MetaFetchedOnce' /\ known' \in BOOLEAN /\ open' \in BOOLEAN
    BY <1>3, <2>1 DEF FacadeInv, FacadeTypeOK, MetaFetchedOnce
  <2> QED
    BY <1>1, <1>3, <2>1, <2>2, <2>3, WakeStep
<1>5. CASE ~known /\ holder = Free /\ waiters = <<>>
  <2>1. holder' = t /\ UNCHANGED <<thread, waiters>>
    BY <1>5 DEF EnterMeta
  <2>2. FacadeTypeOK'
    BY <1>1, <1>2, <1>3, <2>1 DEF IInv, FacadeInv, FacadeTypeOK, Items
  <2>3. QueueInv'
    BY <1>1, <1>2, <1>3, <2>1, Shapes DEF FacadeInv, QueueInv, IsCall, Waiting
  <2>4. LineInv' /\ ThreadInv'
    BY <1>1, <1>3, <2>1, Shapes DEF FacadeInv, LineInv, ThreadInv, Waiting
  <2>5. MetaFetchedOnce'
    BY <1>5 DEF MetaFetchedOnce
  <2> QED
    BY <2>2, <2>3, <2>4, <2>5 DEF FacadeInv
<1>6. CASE ~known /\ ~(holder = Free /\ waiters = <<>>)
  <2>1. waiters' = Append(waiters, t) /\ UNCHANGED <<thread, holder>>
    BY <1>6 DEF EnterMeta
  <2>2. /\ waiters' \in Seq(Tasks) /\ DOMAIN waiters' = 1..(Len(waiters) + 1)
        /\ \A i \in DOMAIN waiters : waiters'[i] = waiters[i]
        /\ waiters'[Len(waiters) + 1] = t
    BY <1>1, <2>1, Shapes, AppendAt
  <2>3. FacadeTypeOK'
    BY <1>1, <1>2, <1>3, <2>1, <2>2 DEF IInv, FacadeInv, FacadeTypeOK, Items
  <2>4. QueueInv'
    BY <1>1, <1>2, <1>3, <2>1, <2>2, Shapes DEF FacadeInv, QueueInv, IsCall, Waiting
  <2>5. LineInv' /\ ThreadInv'
    BY <1>1, <1>3, <2>1, <2>2, Shapes DEF FacadeInv, LineInv, ThreadInv, Waiting
  <2>6. MetaFetchedOnce'
    BY <1>6 DEF MetaFetchedOnce
  <2> QED
    BY <2>3, <2>4, <2>5, <2>6 DEF FacadeInv
<1> QED
  BY <1>4, <1>5, <1>6
\* close() closes the transport and goes on to stop the loop.
LEMMA CloseBegins ==
  ASSUME FacadeInv, IInv', queue # <<>>, queue' = Tail(queue),
         NEW t, t = Head(queue).task, Head(queue).what = "aclose",
         open' = FALSE, Wake(t, "joining"),
         UNCHANGED <<vars, loop, holder, waiters, job, made, closes, known>>
  PROVE  FacadeInv'
<1>1. /\ t \in Tasks /\ job[t] = "aclose" /\ t # holder /\ ~Waiting(t) /\ pc[t] # "request"
      /\ \A i \in DOMAIN queue' : IsCall(i)' => queue'[i].task # t
  BY BeginsOnce
<1>2. pc' = pc /\ Nowhere(t)' /\ Left(1, 0)
  BY <1>1, LeftQueue DEF Nowhere, Waiting, vars
<1>3. MetaFetchedOnce' /\ known' \in BOOLEAN
  BY DEF FacadeInv, FacadeTypeOK, MetaFetchedOnce
<1> QED
  BY <1>1, <1>2, <1>3, WakeStep

\* The loop is told to stop, by a callback that no thread waits for, or stops.
LEMMA StopStep ==
  ASSUME FacadeInv, IInv',
         \/ queue # <<>> /\ queue' = Tail(queue) /\ loop' = "stopping"
         \/ UNCHANGED queue /\ loop' = "stopped",
         UNCHANGED <<vars, thread, job, open, made, closes, known, holder, waiters>>
  PROVE  FacadeInv'
<1>1. PICK k \in Nat : Left(k, 0)
  BY LeftQueue, LeftAll
<1>2. pc' = pc
  BY DEF vars
<1>3. FacadeTypeOK'
  BY <1>1 DEF IInv, FacadeInv, FacadeTypeOK, Left, Items
<1>4. QueueInv'
  <2>1. UNCHANGED <<pc, thread, job, holder, waiters>>
    BY <1>2
  <2> QED
    BY <1>1, <2>1, LeftCalls DEF QueueInv, Waiting
<1>5. LineInv' /\ ThreadInv' /\ MetaFetchedOnce'
  BY <1>2 DEF FacadeInv, LineInv, ThreadInv, MetaFetchedOnce
<1> QED
  BY <1>3, <1>4, <1>5 DEF FacadeInv

LEMMA RunNextStep ==
  ASSUME FacadeInv, IInv', RunNext
  PROVE  FacadeInv'
<1>1. PICK t : t = Head(queue).task
  OBVIOUS
<1>2. queue # <<>> /\ queue' = Tail(queue) /\ UNCHANGED <<job, made, closes, known>>
  BY DEF RunNext
<1>3. CASE /\ Head(queue).what \in {"snapshot", "forced"}
           /\ Call(t, Head(queue).what = "forced")
           /\ Wake(t, IF pc'[t] = "returned" THEN "idle" ELSE "waiting")
           /\ UNCHANGED <<loop, open, holder, waiters>>
  BY <1>1, <1>2, <1>3, SnapshotBegins
<1>4. CASE Head(queue).what = "meta" /\ EnterMeta(t)
  BY <1>1, <1>2, <1>4, MetaBegins
<1>5. CASE /\ Head(queue).what = "aclose"
           /\ open' = FALSE
           /\ Wake(t, "joining")
           /\ UNCHANGED <<vars, loop, holder, waiters>>
  BY <1>1, <1>2, <1>5, CloseBegins
<1>6. CASE /\ Head(queue).what = "stop"
           /\ loop' = "stopping"
           /\ UNCHANGED <<vars, thread, open, holder, waiters>>
  BY <1>2, <1>6, StopStep
<1> QED
  BY <1>1, <1>3, <1>4, <1>5, <1>6 DEF RunNext

\* A thread stops to wait for the end of the loop.
LEMMA JoinEnds ==
  ASSUME FacadeInv, IInv', NEW t \in Tasks, Joined(t) \/ JoinExpires(t)
  PROVE  FacadeInv'
<1>1. /\ thread[t] = "joining" /\ Wake(t, "idle") /\ pc' = pc
      /\ UNCHANGED <<job, queue, loop, open, made, closes, known, holder, waiters>>
  BY DEF Joined, JoinExpires, Wake, vars
<1>2. Nowhere(t)'
  BY <1>1, Shapes DEF FacadeInv, QueueInv, LineInv, ThreadInv, Nowhere, IsCall, Waiting
<1>3. Left(0, 0) /\ MetaFetchedOnce' /\ known' \in BOOLEAN /\ open' \in BOOLEAN
  BY <1>1, LeftAll DEF FacadeInv, FacadeTypeOK, MetaFetchedOnce
<1> QED
  BY <1>1, <1>2, <1>3, WakeStep

\* The request for a snapshot ends, one way or the other.
LEMMA SnapshotEnds ==
  ASSUME FacadeInv, IInv', NEW t \in Tasks, SnapshotSettles(t)
  PROVE  FacadeInv'
<1>1. /\ pc[t] = "request" /\ pc' = [pc EXCEPT ![t] = "returned"] /\ Wake(t, "idle")
      /\ UNCHANGED <<job, queue, loop, open, made, closes, known, holder, waiters>>
  BY DEF SnapshotSettles, SnapshotStored, SnapshotFails, Store, Fail
<1>2. Nowhere(t)' /\ \A s \in Tasks : s # t => pc'[s] = pc[s]
  BY <1>1, Shapes DEF FacadeInv, QueueInv, LineInv, ThreadInv, Nowhere, IsCall, Waiting
<1>3. Left(0, 0) /\ MetaFetchedOnce' /\ known' \in BOOLEAN /\ open' \in BOOLEAN
  BY <1>1, LeftAll DEF FacadeInv, FacadeTypeOK, MetaFetchedOnce
<1> QED
  BY <1>1, <1>2, <1>3, WakeStep

\* The first of the line has its answer, or makes a request of its own.
LEMMA LockPassesStep ==
  ASSUME FacadeInv, IInv', LockPasses
  PROVE  FacadeInv'
<1>1. PICK t : t = Head(waiters)
  OBVIOUS
<1>2. /\ holder = Free /\ waiters # <<>> /\ waiters' = Tail(waiters) /\ pc' = pc
      /\ UNCHANGED <<job, queue, loop, open, made, closes, known>>
  BY DEF LockPasses, vars
<1>3. 1 \in DOMAIN waiters /\ t = waiters[1] /\ Left(0, 1)
  BY <1>1, <1>2, FirstTaken, LeftLine
<1>4. /\ t \in Tasks /\ thread[t] = "waiting" /\ job[t] = "meta" /\ pc[t] # "request"
      /\ t # holder
      /\ \A i \in DOMAIN queue : IsCall(i) => queue[i].task # t
  BY <1>3, Shapes DEF FacadeInv, QueueInv, LineInv, ThreadInv, IsCall, Waiting
<1>5. ~Waiting(t)'
  BY <1>2, <1>3, FirstTaken DEF FacadeInv, LineInv, Waiting
<1>6. CASE known
  <2>1. Wake(t, "idle") /\ UNCHANGED holder
    BY <1>1, <1>6 DEF LockPasses
  <2>2. Nowhere(t)' /\ MetaFetchedOnce' /\ known' \in BOOLEAN /\ open' \in BOOLEAN
    BY <1>2, <1>4, <1>5, <2>1
       DEF FacadeInv, FacadeTypeOK, MetaFetchedOnce, Nowhere, IsCall
  <2> QED
    BY <1>2, <1>3, <1>4, <2>1, <2>2, WakeStep
<1>7. CASE ~known
  <2>1. holder' = t /\ UNCHANGED thread
    BY <1>1, <1>7 DEF LockPasses
  <2>2. FacadeTypeOK'
    BY <1>2, <1>3, <1>4, <2>1 DEF IInv, FacadeInv, FacadeTypeOK, Left, Items
  <2>3. QueueInv'
    BY <1>2, <1>3, <1>4, <2>1, Shapes DEF FacadeInv, QueueInv, IsCall, Waiting, Left
  <2>4. LineInv' /\ ThreadInv' /\ MetaFetchedOnce'
    BY <1>2, <1>3, <1>4, <1>5, <1>7, <2>1
       DEF FacadeInv, LineInv, ThreadInv, MetaFetchedOnce, Waiting, Left
  <2> QED
    BY <1>2, <2>2, <2>3, <2>4 DEF FacadeInv
<1> QED
  BY <1>6, <1>7

\* The request for the metadata ends and the lock is free.
LEMMA MetaEnds ==
  ASSUME FacadeInv, IInv', MetaStored \/ MetaFails
  PROVE  FacadeInv'
<1>1. PICK t : t = holder
  OBVIOUS
<1>2. /\ t # Free /\ holder' = Free /\ Wake(t, "idle") /\ pc' = pc
      /\ known' \in BOOLEAN /\ open' \in BOOLEAN
      /\ UNCHANGED <<job, queue, loop, made, closes, waiters>>
  BY <1>1 DEF MetaStored, MetaFails, vars, FacadeInv, FacadeTypeOK
<1>3. t \in Tasks
  BY <1>1, <1>2, Shapes
<1>4. Nowhere(t)' /\ MetaFetchedOnce' /\ Left(0, 0)
  BY <1>1, <1>2, <1>3, LeftAll, Shapes
     DEF FacadeInv, QueueInv, LineInv, ThreadInv, MetaFetchedOnce, Nowhere, IsCall, Waiting
<1> QED
  BY <1>2, <1>3, <1>4, WakeStep

\* Each step of the facade is one of the cache, or leaves it alone.
LEMMA FacadeStepsCache ==
  ASSUME FacadeInv, [FacadeNext]_allVars
  PROVE  [Next]_vars
<1>1. CASE RunNext
  <2>1. queue # <<>>
    BY <1>1 DEF RunNext
  <2>2. Head(queue).task \in Tasks
    BY <2>1, FirstTaken, Shapes
  <2> QED
    BY <1>1, <2>2 DEF RunNext, EnterMeta, Next, Task
<1>2. CASE \E t \in Tasks : SnapshotSettles(t)
  BY <1>2 DEF SnapshotSettles, SnapshotStored, SnapshotFails, Next, Task
<1>3. CASE MetaSettles
  BY <1>3 DEF MetaSettles, LockPasses, MetaStored, MetaFails
<1>4. CASE Outside
  BY <1>4 DEF Outside, Next, Task
<1> QED
  BY <1>1, <1>2, <1>3, <1>4
     DEF FacadeNext, Submit, Join, Joined, JoinExpires, Exit, allVars

LEMMA FacadeInvStep ==
  ASSUME FacadeInv, [FacadeNext]_allVars
  PROVE  FacadeInv'
<1>1. IInv'
  BY FacadeStepsCache, IInvStep DEF FacadeInv
<1>2. CASE Outside \/ UNCHANGED allVars
  <2>1. UNCHANGED <<pc, facadeVars>>
    BY <1>2 DEF Outside, Tick, Answer, allVars, vars
  <2>2. FacadeTypeOK'
    BY <1>1, <2>1 DEF IInv, FacadeInv, FacadeTypeOK, facadeVars
  <2>3. (closes <= made)' /\ QueueInv' /\ LineInv' /\ ThreadInv' /\ MetaFetchedOnce'
    BY <2>1 DEF FacadeInv, QueueInv, LineInv, ThreadInv, MetaFetchedOnce, IsCall, Waiting,
                facadeVars
  <2> QED
    BY <1>1, <2>2, <2>3 DEF FacadeInv
<1>3. CASE Exit
  BY <1>1, <1>3, StopStep DEF Exit
<1>4. CASE MetaSettles
  BY <1>1, <1>4, LockPassesStep, MetaEnds DEF MetaSettles
<1> QED
  BY <1>1, <1>2, <1>3, <1>4, SubmitStep, JoinStep, JoinEnds, RunNextStep, SnapshotEnds
     DEF FacadeNext

LEMMA FacadeInvariance == FacadeSpec => []FacadeInv
BY FacadeInvInit, FacadeInvStep, PTL DEF FacadeSpec

-----------------------------------------------------------------------------
\* The calls of the facade's threads are calls of tasks on one event loop: what
\* holds of the cache among tasks holds of it behind the facade.
THEOREM FacadeImplementsCache == FacadeSpec => Spec
<1>1. FacadeInit => Init
  BY DEF FacadeInit
<1>2. FacadeInv /\ [FacadeNext]_allVars => [Next]_vars
  BY FacadeStepsCache
<1> QED
  BY <1>1, <1>2, FacadeInvariance, PTL DEF FacadeSpec, Spec

\* No call returns data older than the ttl at the time it was made, whatever
\* requests of other threads were answered or stored meanwhile (api.py:53).
THEOREM NothingStale == FacadeSpec => []NoStaleData
BY FacadeImplementsCache, Invariance, PTL DEF IInv

\* A forced call returns data from after it was made (markets.mdx:19).
THEOREM ForcedFresh == FacadeSpec => []ForcedIsFresh
BY FacadeImplementsCache, Invariance, PTL DEF IInv

\* A thread's call of meta() has one place at most, in the line or with the
\* lock, while the thread waits for it.
LEMMA Orderly ==
  ASSUME FacadeInv
  PROVE  LineIsOrderly
<1> SUFFICES ASSUME NEW t \in Tasks
             PROVE  /\ Cardinality(InLine(t)) + (IF holder = t THEN 1 ELSE 0) <= 1
                    /\ InLine(t) # {} \/ holder = t =>
                         thread[t] = "waiting" /\ job[t] = "meta"
  BY DEF LineIsOrderly
<1>1. \A i \in InLine(t) : i \in DOMAIN waiters /\ waiters[i] = t
  BY DEF InLine
<1>2. \A i \in InLine(t) :
        t # holder /\ thread[t] = "waiting" /\ job[t] = "meta" /\ InLine(t) = {i}
  BY <1>1 DEF FacadeInv, LineInv, InLine
<1>3. CASE InLine(t) = {}
  BY <1>3, FS_EmptySet, Shapes DEF FacadeInv, LineInv
<1>4. CASE InLine(t) # {}
  <2>1. PICK i : InLine(t) = {i}
    BY <1>2, <1>4
  <2>2. i \in InLine(t) /\ Cardinality({i}) = 1
    BY <2>1, FS_Singleton
  <2>3. holder # t /\ thread[t] = "waiting" /\ job[t] = "meta"
    BY <1>2, <2>2
  <2> QED
    BY <2>1, <2>2, <2>3
<1> QED
  BY <1>3, <1>4

\* The metadata are fetched once however many threads ask, no thread stands in
\* line twice, and the one that holds the lock does not (client.py:47).
THEOREM LockHolds == FacadeSpec => []MetaLock
<1>1. FacadeInv => MetaLock
  BY Orderly DEF FacadeInv, MetaLock
<1> QED
  BY <1>1, FacadeInvariance, PTL
=============================================================================
