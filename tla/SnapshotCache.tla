---------------------------- MODULE SnapshotCache ----------------------------
(***************************************************************************)
(* MarketsApi.snapshot (markets/api.py): one cached copy of the market     *)
(* data, shared by the tasks of the event loop, which give way to one      *)
(* another while a request is under way.  Data is known by the time at     *)
(* which the data API (external) produced it.                              *)
(***************************************************************************)
EXTENDS Integers

CONSTANTS
  Tasks,
  TTL,      \* snapshot_ttl_s
  MaxTime   \* bound: the clock

ASSUME ConstantsAssumption ==
  /\ TTL \in Nat
  /\ MaxTime \in Nat

VARIABLES
  clock,       \* time.monotonic()
  snapshot,    \* the cached data
  snapshotAt,  \* its time stamp
  pc,
  now,         \* the time a call captured when it was made
  forced,      \* its force argument
  reply,       \* the answer to its request
  result       \* what it returned

vars == <<clock, snapshot, snapshotAt, pc, now, forced, reply, result>>

None == -1
Time == 0..MaxTime

TypeOK ==
  /\ clock \in Time
  /\ snapshot \in Time \union {None}
  /\ snapshotAt \in Time
  /\ pc \in [Tasks -> {"idle", "request", "returned"}]
  /\ now \in [Tasks -> Time]
  /\ forced \in [Tasks -> BOOLEAN]
  /\ reply \in [Tasks -> Time \union {None}]
  /\ result \in [Tasks -> Time \union {None}]

Init ==
  /\ clock \in Time
  /\ snapshot = None
  /\ snapshotAt = 0
  /\ pc = [t \in Tasks |-> "idle"]
  /\ now = [t \in Tasks |-> 0]
  /\ forced = [t \in Tasks |-> FALSE]
  /\ reply = [t \in Tasks |-> None]
  /\ result = [t \in Tasks |-> None]

\* Mutant: the force argument counts only while there is no snapshot.
ExpiredForcedOnce(force) == snapshot = None \/ clock - snapshotAt > TTL

Expired(force) == force \/ snapshot = None \/ clock - snapshotAt > TTL

Call(t, force) ==
  /\ pc[t] # "request"
  /\ now' = [now EXCEPT ![t] = clock]
  /\ forced' = [forced EXCEPT ![t] = force]
  /\ reply' = [reply EXCEPT ![t] = None]
  /\ IF Expired(force)
     THEN /\ pc' = [pc EXCEPT ![t] = "request"]
          /\ result' = [result EXCEPT ![t] = None]
     ELSE /\ pc' = [pc EXCEPT ![t] = "returned"]
          /\ result' = [result EXCEPT ![t] = snapshot]
  /\ UNCHANGED <<clock, snapshot, snapshotAt>>

\* The data API answers with what it has; the answer travels.
Answer(t) ==
  /\ pc[t] = "request"
  /\ reply[t] = None
  /\ reply' = [reply EXCEPT ![t] = clock]
  /\ UNCHANGED <<clock, snapshot, snapshotAt, pc, now, forced, result>>

\* Mutant: the stamp is the time of the storing.
StoreStampedNow(t) ==
  /\ pc[t] = "request"
  /\ reply[t] # None
  /\ snapshot' = reply[t]
  /\ snapshotAt' = clock
  /\ result' = [result EXCEPT ![t] = reply[t]]
  /\ pc' = [pc EXCEPT ![t] = "returned"]
  /\ UNCHANGED <<clock, now, forced, reply>>

Store(t) ==
  /\ pc[t] = "request"
  /\ reply[t] # None
  /\ snapshot' = reply[t]
  /\ snapshotAt' = now[t]
  /\ result' = [result EXCEPT ![t] = reply[t]]
  /\ pc' = [pc EXCEPT ![t] = "returned"]
  /\ UNCHANGED <<clock, now, forced, reply>>

\* An ApiError; the cache stays as it is.
Fail(t) ==
  /\ pc[t] = "request"
  /\ pc' = [pc EXCEPT ![t] = "returned"]
  /\ UNCHANGED <<clock, snapshot, snapshotAt, now, forced, reply, result>>

Tick ==
  /\ clock < MaxTime
  /\ clock' = clock + 1
  /\ UNCHANGED <<snapshot, snapshotAt, pc, now, forced, reply, result>>

Task(t) ==
  \/ \E force \in BOOLEAN : Call(t, force)
  \/ Answer(t)
  \/ Store(t)
  \/ Fail(t)

Next == Tick \/ \E t \in Tasks : Task(t)

Spec == Init /\ [][Next]_vars

-----------------------------------------------------------------------------
(* Properties *)

\* No call returns data older than the ttl at the time it was made, whatever
\* requests of other tasks were answered or stored meanwhile and in whatever
\* order: "cached for snapshot_ttl_s" (api.py:53).
NoStaleData ==
  \A t \in Tasks : result[t] # None => result[t] >= now[t] - TTL

\* "snapshot() with force=True refreshes" (markets.mdx:19): a forced call
\* returns data from after it was made.
ForcedIsFresh ==
  \A t \in Tasks : forced[t] /\ result[t] # None => result[t] >= now[t]
=============================================================================
