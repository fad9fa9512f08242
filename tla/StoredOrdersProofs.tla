------------------------- MODULE StoredOrdersProofs -------------------------
(***************************************************************************)
(* Theorems of StoredOrders, for any number of tasks, calls, repeats and   *)
(* orders.                                                                 *)
(***************************************************************************)
EXTENDS StoredOrders, FiniteSetTheorems, TLAPS

\* What a request names: a new order, an id the service gave, or both.
WellFormed(r) ==
  /\ r.op = "create" => r.id = None
  /\ r.op = "cancel" => r.intent = None
  /\ r.op # "cancel" => r.intent \in 1..issued

Sending(t, i) == orderPc[t] = "sent" /\ request[t].intent = i

\* Each order is signed for one call.
RequestsInv ==
  /\ \A t \in Tasks : WellFormed(request[t])
  /\ \A r \in wire : WellFormed(r)
  /\ IsFiniteSet(wire)
  /\ \A t, u \in Tasks, i \in Intents : Sending(t, i) /\ Sending(u, i) => t = u

\* Where nonces are checked no two ids stand for one signed order.
NoncesInv ==
  venue.checksNonce => \A m, n \in Ids : origin[m] = origin[n] => m = n

\* The copies of an order and those still on their way, against the requests
\* sent for it.
OnWire(i) == Cardinality({r \in wire : r.intent = i})
Load(i) == Copies(i) + OnWire(i)
LoadInv ==
  \A i \in Intents :
    /\ Load(i) <= OrderRetries + 1
    /\ i > issued => Load(i) = 0
    /\ \A t \in Tasks : Sending(t, i) => Load(i) <= request[t].try

\* The requests of one replacement name one target, which the service has given
\* and, once the replacement is stored, no longer keeps.
Outstanding == wire \cup {request[t] : t \in {u \in Tasks : orderPc[u] = "sent"}}
SignedInv ==
  /\ replacing \subseteq 1..issued
  /\ \A n \in Ids : origin[n] \in 1..issued
TargetsInv ==
  /\ \A q \in Outstanding :
       /\ q.op = "create" => q.intent \notin replacing
       /\ q.op = "replace" => q.intent \in replacing /\ q.id \in Ids
       /\ q.op = "replace" /\ ~Unseen(q.intent) => q.id \notin live
  /\ \A q, s \in Outstanding :
       q.op = "replace" /\ s.op = "replace" /\ q.intent = s.intent => q.id = s.id
  /\ \A m, n \in Ids : origin[m] = origin[n] /\ origin[m] \in replacing => m = n

IInv ==
  /\ OrdersTypeOK /\ RequestsInv /\ NoncesInv /\ LoadInv /\ HandleNamesItsOrder
  /\ SignedInv /\ TargetsInv

-----------------------------------------------------------------------------
\* What a step does to the orders the service keeps.
Grown ==
  /\ origin' \in Seq(Intents)
  /\ live' \subseteq Ids'
  /\ Ids \subseteq Ids'
  /\ \A n \in Ids : origin'[n] = origin[n]

LEMMA AppendFacts ==
  ASSUME origin \in Seq(Intents), NEW i \in Intents, origin' = Append(origin, i)
  PROVE  /\ origin' \in Seq(Intents)
         /\ Ids' = Ids \cup {NewId}
         /\ NewId \notin Ids
         /\ origin'[NewId] = i
         /\ \A n \in Ids : origin'[n] = origin[n]
<1>1. /\ DOMAIN origin = 1..Len(origin) /\ Len(origin) \in Nat
      /\ DOMAIN origin' = 1..(Len(origin) + 1)
      /\ origin' \in Seq(Intents)
      /\ origin'[Len(origin) + 1] = i
      /\ \A n \in 1..Len(origin) : origin'[n] = origin[n]
  OBVIOUS
<1> QED
  BY <1>1 DEF Ids, NewId

LEMMA HandleFacts ==
  ASSUME OrdersTypeOK, NEW r \in Requests, WellFormed(r), Handle(r)
  PROVE  /\ Grown
         /\ r.op # "cancel" => r.intent \in Intents
         /\ ~Takes(r) \/ r.op = "cancel" => origin' = origin
         /\ Takes(r) /\ r.op # "cancel" =>
              /\ Ids' = Ids \cup {NewId}
              /\ NewId \notin Ids
              /\ origin'[NewId] = r.intent
<1>1. r.op # "cancel" => r.intent \in Intents
  BY OrdersAssumption DEF WellFormed, Intents, OrdersTypeOK, OrdersAssumption
<1>2. CASE ~Takes(r) \/ r.op = "cancel"
  <2>1. origin' = origin /\ live' \subseteq live
    BY <1>2 DEF Handle
  <2>2. Ids' = Ids
    BY <2>1 DEF Ids
  <2> QED
    BY <1>1, <1>2, <2>1, <2>2 DEF Grown, OrdersTypeOK
<1>3. CASE Takes(r) /\ r.op # "cancel"
  <2>1. live' = (live \ {r.id}) \cup {NewId} /\ origin' = Append(origin, r.intent)
    BY <1>3 DEF Handle
  <2>2. r.intent \in Intents /\ origin \in Seq(Intents) /\ live \subseteq Ids
    BY <1>1, <1>3 DEF OrdersTypeOK
  <2>3. /\ origin' \in Seq(Intents)
        /\ Ids' = Ids \cup {NewId}
        /\ NewId \notin Ids
        /\ origin'[NewId] = r.intent
        /\ \A n \in Ids : origin'[n] = origin[n]
    BY <2>1, <2>2, AppendFacts
  <2> QED
    BY <1>1, <1>3, <2>1, <2>2, <2>3 DEF Grown
<1> QED
  BY <1>2, <1>3

LEMMA UnansweredFacts ==
  ASSUME OrdersTypeOK, NEW r \in Requests, WellFormed(r), Unanswered(r)
  PROVE  /\ Grown
         /\ wire' \in {wire, wire \cup {r}}
<1>1. CASE Handle(r) /\ UNCHANGED wire
  BY <1>1, HandleFacts
<1>2. CASE UNCHANGED <<origin, live>> /\ wire' \in {wire, wire \cup {r}}
  BY <1>2 DEF Grown, OrdersTypeOK, Ids
<1> QED
  BY <1>1, <1>2 DEF Unanswered

\* Ids are never used again and what they stand for does not change.
LEMMA EveryStepGrows ==
  ASSUME OrdersTypeOK, RequestsInv, [OrdersNext]_ordersVars
  PROVE  Grown /\ venue' = venue
<1>1. ASSUME UNCHANGED <<origin, live>> PROVE Grown
  BY <1>1 DEF Grown, OrdersTypeOK, Ids
<1>2. ASSUME NEW t \in Tasks PROVE request[t] \in Requests /\ WellFormed(request[t])
  BY DEF OrdersTypeOK, RequestsInv
<1>3. ASSUME NEW t \in Tasks, NEW op \in {"create", "replace", "cancel"}, Call(t, op)
      PROVE  Grown /\ venue' = venue
  BY <1>1, <1>3 DEF Call, serviceVars
<1>4. ASSUME NEW t \in Tasks, CallStep(t) PROVE Grown /\ venue' = venue
  <2>1. CASE Answered(t)
    BY <1>2, <2>1, HandleFacts DEF Answered
  <2>2. CASE Repeats(t)
    BY <1>2, <2>2, UnansweredFacts DEF Repeats
  <2>3. CASE GivesUp(t)
    BY <1>2, <2>3, UnansweredFacts DEF GivesUp
  <2>4. CASE ErrorStatus(t)
    BY <1>1, <1>2, <2>4, HandleFacts DEF ErrorStatus
  <2> QED
    BY <1>4, <2>1, <2>2, <2>3, <2>4 DEF CallStep
<1>5. ASSUME NEW r \in wire, Arrives(r) PROVE Grown /\ venue' = venue
  <2>1. r \in Requests /\ WellFormed(r)
    BY DEF OrdersTypeOK, RequestsInv
  <2> QED
    BY <1>5, <2>1, HandleFacts DEF Arrives
<1>6. ASSUME NEW n \in live, Executes(n) PROVE Grown /\ venue' = venue
  BY <1>6 DEF Executes, Grown, OrdersTypeOK, Ids
<1>7. CASE UNCHANGED ordersVars \/ Quiet
  BY <1>1, <1>7 DEF ordersVars, Quiet
<1> QED
  BY <1>3, <1>4, <1>5, <1>6, <1>7 DEF OrdersNext

-----------------------------------------------------------------------------
LEMMA TypeStep ==
  ASSUME OrdersTypeOK, RequestsInv, [OrdersNext]_ordersVars
  PROVE  OrdersTypeOK'
<1> USE OrdersAssumption DEF OrdersAssumption
<1>1. /\ venue' \in PartialOrders \cup Twaps
      /\ origin' \in Seq(Intents)
      /\ live' \subseteq Ids'
      /\ withdrawn \subseteq Ids'
  BY EveryStepGrows DEF Grown, OrdersTypeOK
<1>2. ASSUME NEW t \in Tasks
      PROVE  /\ request[t] \in Requests
             /\ WellFormed(request[t])
             /\ request[t].op \in {"create", "replace", "cancel"}
             /\ request[t].id \in Nat
             /\ request[t].intent \in Intents \cup {None}
             /\ request[t].try \in 0..OrderRetries
  BY DEF OrdersTypeOK, RequestsInv, Requests
<1>3. NoRequest \in Requests
  BY DEF NoRequest, Requests, None
<1>4. ASSUME NEW t \in Tasks, NEW op \in {"create", "replace", "cancel"}, Call(t, op)
      PROVE  OrdersTypeOK'
  <2>1. PICK id \in Targets(op) :
          /\ ~Rejects(op, id)
          /\ IF op = "cancel" THEN UNCHANGED issued
             ELSE issued < MaxIntents /\ issued' = issued + 1
          /\ replacing' = IF op = "replace" THEN replacing \cup {issued + 1} ELSE replacing
          /\ request' = [request EXCEPT ![t] =
               [op |-> op, id |-> id,
                intent |-> IF op = "cancel" THEN None ELSE issued + 1, try |-> 0]]
    BY <1>4 DEF Call
  <2>2. id \in Nat
    <3>1. id # Global
      BY <2>1 DEF Rejects
    <3>2. id \in Ids \cup {None, Global}
      BY <2>1 DEF Targets
    <3>3. Ids \subseteq Nat
      BY DEF Ids, OrdersTypeOK
    <3> QED
      BY <3>1, <3>2, <3>3 DEF None
  <2>3. issued' \in 0..MaxIntents /\ (op # "cancel" => issued + 1 \in Intents)
    BY <2>1 DEF OrdersTypeOK, Intents
  <2>4. request' \in [Tasks -> Requests]
    BY <2>1, <2>2, <2>3 DEF OrdersTypeOK, Requests
  <2>5. made' \in 0..MaxOrderCalls /\ replacing' \subseteq Intents
    BY <1>4, <2>1, <2>3 DEF Call, OrdersTypeOK
  <2>6. /\ orderPc' \in [Tasks -> {"idle", "sent"}]
        /\ UNCHANGED <<venue, origin, live, wire, handle, confirmed, withdrawn>>
    BY <1>4 DEF Call, OrdersTypeOK, serviceVars, toldVars
  <2> QED
    BY <1>1, <2>3, <2>4, <2>5, <2>6 DEF OrdersTypeOK
<1>5. ASSUME NEW t \in Tasks, Answered(t) PROVE OrdersTypeOK'
  <2>1. /\ orderPc' \in [Tasks -> {"idle", "sent"}]
        /\ request' \in [Tasks -> Requests]
        /\ UNCHANGED <<wire, made, issued, replacing>>
    BY <1>3, <1>5 DEF Answered, OrdersTypeOK
  <2>2. handle' \in [Intents -> Nat] /\ confirmed' \subseteq Intents /\ withdrawn' \subseteq Ids'
    <3>1. CASE ~Takes(request[t])
      BY <1>1, <1>5, <3>1 DEF Answered, toldVars, OrdersTypeOK
    <3>2. CASE Takes(request[t]) /\ request[t].op = "cancel"
      <4>1. request[t].id \in live
        BY <3>2 DEF Takes
      <4>2. live \subseteq Ids'
        BY EveryStepGrows DEF Grown, OrdersTypeOK
      <4> QED
        BY <1>1, <1>5, <3>2, <4>1, <4>2 DEF Answered, OrdersTypeOK
    <3>3. CASE Takes(request[t]) /\ request[t].op # "cancel"
      <4>1. request[t].intent \in Intents
        BY <1>2, <1>5, <3>3, HandleFacts DEF Answered
      <4>2. ReturnedId(request[t]) \in Nat
        BY <1>2 DEF ReturnedId, NewId, None, OrdersTypeOK
      <4> QED
        BY <1>1, <1>5, <3>3, <4>1, <4>2 DEF Answered, OrdersTypeOK
    <3> QED
      BY <3>1, <3>2, <3>3
  <2> QED
    BY <1>1, <2>1, <2>2 DEF OrdersTypeOK
<1>6. ASSUME NEW t \in Tasks, Unanswered(request[t]) PROVE wire' \subseteq Requests
  <2>1. wire' \in {wire, wire \cup {request[t]}}
    BY <1>2, <1>6, UnansweredFacts
  <2>2. wire \subseteq Requests
    BY DEF OrdersTypeOK
  <2> QED
    BY <1>2, <2>1, <2>2
<1>7. ASSUME NEW t \in Tasks, Repeats(t) PROVE OrdersTypeOK'
  <2>1. [request[t] EXCEPT !.try = request[t].try + 1] \in Requests
    BY <1>2, <1>7 DEF Repeats, Requests
  <2>2. request' = [request EXCEPT ![t] = [request[t] EXCEPT !.try = request[t].try + 1]]
    BY <1>7 DEF Repeats
  <2>3. request' \in [Tasks -> Requests]
    BY <2>1, <2>2 DEF OrdersTypeOK
  <2> QED
    BY <1>1, <1>6, <1>7, <2>3 DEF Repeats, OrdersTypeOK, toldVars
<1>8. ASSUME NEW t \in Tasks, GivesUp(t) PROVE OrdersTypeOK'
  BY <1>1, <1>3, <1>6, <1>8 DEF GivesUp, OrdersTypeOK, toldVars
<1>9. ASSUME NEW t \in Tasks, ErrorStatus(t) PROVE OrdersTypeOK'
  BY <1>1, <1>3, <1>9 DEF ErrorStatus, OrdersTypeOK, toldVars
<1>10. ASSUME NEW r \in wire, Arrives(r) PROVE OrdersTypeOK'
  BY <1>1, <1>10 DEF Arrives, OrdersTypeOK, toldVars
<1>11. ASSUME NEW n \in live, Executes(n) PROVE OrdersTypeOK'
  BY <1>1, <1>11 DEF Executes, OrdersTypeOK, toldVars
<1>12. CASE UNCHANGED ordersVars \/ Quiet
  BY <1>1, <1>12 DEF ordersVars, Quiet, OrdersTypeOK
<1> QED
  BY <1>4, <1>5, <1>7, <1>8, <1>9, <1>10, <1>11, <1>12 DEF OrdersNext, CallStep

LEMMA RequestsStep ==
  ASSUME OrdersTypeOK, RequestsInv, [OrdersNext]_ordersVars
  PROVE  RequestsInv'
<1>1. issued' \in Nat /\ issued \in Nat /\ issued <= issued'
  BY OrdersAssumption
     DEF OrdersNext, Call, CallStep, Answered, Repeats, GivesUp, ErrorStatus, Arrives,
         Executes, Quiet, ordersVars, OrdersTypeOK, OrdersAssumption
<1>2. ASSUME NEW r, WellFormed(r) PROVE WellFormed(r)'
  <2>1. r.intent \in 1..issued => r.intent \in 1..issued'
    BY <1>1
  <2> QED
    BY <1>2, <2>1 DEF WellFormed
<1>3. ASSUME NEW t \in Tasks, request'[t].op = request[t].op,
             request'[t].id = request[t].id, request'[t].intent = request[t].intent
      PROVE  WellFormed(request[t])'
  BY <1>1, <1>3 DEF WellFormed, RequestsInv
<1>4. WellFormed(NoRequest)'
  BY DEF WellFormed, NoRequest
<1>5. ASSUME NEW t \in Tasks, NEW op \in {"create", "replace", "cancel"}, Call(t, op)
      PROVE  RequestsInv'
  <2>1. PICK id \in Targets(op) :
          /\ IF op = "cancel" THEN UNCHANGED issued
             ELSE issued < MaxIntents /\ issued' = issued + 1
          /\ request' = [request EXCEPT ![t] =
               [op |-> op, id |-> id,
                intent |-> IF op = "cancel" THEN None ELSE issued + 1, try |-> 0]]
    BY <1>5 DEF Call
  <2>2. /\ request'[t].op = op /\ request'[t].id = id
        /\ request'[t].intent = IF op = "cancel" THEN None ELSE issued + 1
        /\ \A u \in Tasks : u # t => request'[u] = request[u]
    BY <2>1 DEF OrdersTypeOK
  <2>3. /\ orderPc' = [orderPc EXCEPT ![t] = "sent"]
        /\ wire' = wire
    BY <1>5 DEF Call, serviceVars
  <2>4. WellFormed(request[t])'
    BY <1>1, <2>1, <2>2 DEF WellFormed, Targets
  <2>5. \A u \in Tasks : WellFormed(request[u])'
    BY <1>3, <2>2, <2>4
  <2>6. \A r \in wire' : WellFormed(r)'
    BY <1>2, <2>3 DEF RequestsInv
  <2>7. ASSUME NEW u \in Tasks, NEW i \in Intents, u # t, Sending(u, i)'
        PROVE  ~Sending(t, i)' /\ Sending(u, i)
    <3>1. Sending(u, i)
      BY <2>2, <2>3, <2>7 DEF Sending, OrdersTypeOK
    <3>2. i \in 1..issued
      <4>1. i # None
        BY DEF Intents, None
      <4> QED
        BY <3>1, <4>1 DEF Sending, RequestsInv, WellFormed
    <3>3. request'[t].intent # i
      BY <1>1, <2>2, <3>2 DEF None
    <3> QED
      BY <3>1, <3>3 DEF Sending
  <2>8. ASSUME NEW u \in Tasks, NEW v \in Tasks, NEW i \in Intents,
               Sending(u, i)', Sending(v, i)'
        PROVE  u = v
    BY <2>7, <2>8 DEF RequestsInv
  <2> QED
    BY <2>3, <2>5, <2>6, <2>8 DEF RequestsInv
<1>6. ASSUME NEW t \in Tasks, CallStep(t) PROVE RequestsInv'
  <2>1. request[t] \in Requests /\ WellFormed(request[t])
    BY DEF OrdersTypeOK, RequestsInv
  <2>2. wire' \in {wire, wire \cup {request[t]}}
    BY <1>6, <2>1, UnansweredFacts
       DEF CallStep, Answered, Repeats, GivesUp, ErrorStatus
  <2>3. (\A r \in wire' : WellFormed(r)') /\ IsFiniteSet(wire')
    <3>1. \A r \in wire' : WellFormed(r)
      BY <2>1, <2>2 DEF RequestsInv
    <3>2. IsFiniteSet(wire) /\ IsFiniteSet(wire \cup {request[t]})
      BY FS_AddElement DEF RequestsInv
    <3> QED
      BY <1>2, <2>2, <3>1, <3>2
  <2>4. \/ orderPc' = orderPc /\ request' = [request EXCEPT ![t].try = @ + 1]
        \/ orderPc' = [orderPc EXCEPT ![t] = "idle"] /\ request' = [request EXCEPT ![t] = NoRequest]
    BY <1>6 DEF CallStep, Answered, Repeats, GivesUp, ErrorStatus
  <2>5. ASSUME NEW u \in Tasks
        PROVE  /\ \/ request'[u] = NoRequest
                  \/ /\ request'[u].op = request[u].op
                     /\ request'[u].id = request[u].id
                     /\ request'[u].intent = request[u].intent
               /\ orderPc'[u] = "sent" => /\ orderPc[u] = "sent"
                                     /\ request'[u].intent = request[u].intent
    <3>1. CASE orderPc' = orderPc /\ request' = [request EXCEPT ![t].try = @ + 1]
      <4>1. request' = [request EXCEPT ![t] = [request[t] EXCEPT !.try = @ + 1]]
        BY <3>1
      <4>2. request'[u] = IF u = t THEN [request[t] EXCEPT !.try = @ + 1] ELSE request[u]
        BY <4>1 DEF OrdersTypeOK
      <4> QED
        BY <3>1, <4>2 DEF OrdersTypeOK, Requests
    <3>2. CASE /\ orderPc' = [orderPc EXCEPT ![t] = "idle"]
               /\ request' = [request EXCEPT ![t] = NoRequest]
      BY <3>2 DEF OrdersTypeOK
    <3> QED
      BY <2>4, <3>1, <3>2
  <2>6. \A u \in Tasks : WellFormed(request[u])'
    <3> TAKE u \in Tasks
    <3>1. CASE request'[u] = NoRequest
      BY <3>1 DEF WellFormed, NoRequest
    <3> QED
      BY <1>3, <2>5, <3>1
  <2>7. \A u \in Tasks, i \in Intents : Sending(u, i)' => Sending(u, i)
    BY <2>5 DEF Sending
  <2> QED
    BY <2>3, <2>6, <2>7 DEF RequestsInv
<1>7. ASSUME NEW r \in wire, Arrives(r) PROVE RequestsInv'
  <2>1. wire' = wire \ {r} /\ UNCHANGED <<orderPc, request>>
    BY <1>7 DEF Arrives
  <2>2. IsFiniteSet(wire')
    BY <2>1, FS_RemoveElement DEF RequestsInv
  <2> QED
    BY <1>2, <1>3, <2>1, <2>2 DEF RequestsInv, Sending
<1>8. CASE UNCHANGED ordersVars \/ Quiet \/ \E n \in live : Executes(n)
  <2>1. UNCHANGED <<wire, orderPc, request>>
    BY <1>8 DEF ordersVars, Quiet, Executes
  <2> QED
    BY <1>2, <1>3, <2>1 DEF RequestsInv, Sending
<1> QED
  BY <1>5, <1>6, <1>7, <1>8 DEF OrdersNext

-----------------------------------------------------------------------------
\* A step that adds an order adds that of one request, of a task or on its way.
LEMMA OriginStep ==
  ASSUME OrdersTypeOK, RequestsInv, [OrdersNext]_ordersVars
  PROVE  \/ origin' = origin
         \/ \E r \in Requests :
              /\ WellFormed(r) /\ Handle(r)
              /\ Takes(r) /\ r.op # "cancel"
<1>1. ASSUME NEW r \in Requests, WellFormed(r), Handle(r), origin' # origin
      PROVE  Takes(r) /\ r.op # "cancel"
  BY <1>1 DEF Handle
<1>2. ASSUME NEW t \in Tasks PROVE request[t] \in Requests /\ WellFormed(request[t])
  BY DEF OrdersTypeOK, RequestsInv
<1>3. ASSUME NEW t \in Tasks, CallStep(t) PROVE origin' = origin \/ Handle(request[t])
  BY <1>3 DEF CallStep, Answered, Repeats, GivesUp, ErrorStatus, Unanswered
<1>4. ASSUME NEW r \in wire
      PROVE  /\ r \in Requests /\ WellFormed(r)
             /\ Arrives(r) => Handle(r)
  BY DEF OrdersTypeOK, RequestsInv, Arrives
<1>5. ASSUME NEW t \in Tasks, NEW op \in {"create", "replace", "cancel"}, Call(t, op)
      PROVE  origin' = origin
  BY <1>5 DEF Call, serviceVars
<1>6. CASE UNCHANGED ordersVars \/ Quiet \/ \E n \in live : Executes(n)
  BY <1>6 DEF ordersVars, Quiet, Executes
<1> QED
  BY <1>1, <1>2, <1>3, <1>4, <1>5, <1>6 DEF OrdersNext

LEMMA NoncesStep ==
  ASSUME OrdersTypeOK, RequestsInv, NoncesInv, [OrdersNext]_ordersVars
  PROVE  NoncesInv'
<1>1. CASE origin' = origin
  BY <1>1, EveryStepGrows DEF NoncesInv, Ids
<1>2. ASSUME NEW r \in Requests, WellFormed(r), Handle(r), Takes(r), r.op # "cancel"
      PROVE  NoncesInv'
  <2> SUFFICES ASSUME venue.checksNonce, NEW m \in Ids', NEW n \in Ids',
                      origin'[m] = origin'[n]
               PROVE  m = n
    BY EveryStepGrows DEF NoncesInv
  <2>1. /\ Ids' = Ids \cup {NewId}
        /\ origin'[NewId] = r.intent
        /\ \A k \in Ids : origin'[k] = origin[k]
    BY <1>2, HandleFacts DEF Grown
  <2>2. \A k \in Ids : origin[k] # r.intent
    BY <1>2 DEF Takes, Unseen
  <2> QED
    BY <2>1, <2>2 DEF NoncesInv
<1> QED
  BY <1>1, <1>2, OriginStep

LEMMA HandlesStep ==
  ASSUME OrdersTypeOK, RequestsInv, HandleNamesItsOrder, [OrdersNext]_ordersVars
  PROVE  HandleNamesItsOrder'
<1>1. Grown /\ venue' = venue
  BY EveryStepGrows
<1>2. CASE UNCHANGED <<handle, confirmed>>
  BY <1>1, <1>2 DEF HandleNamesItsOrder, Grown
<1>3. ASSUME NEW t \in Tasks, Answered(t) PROVE HandleNamesItsOrder'
  <2>1. /\ request[t] \in Requests /\ WellFormed(request[t])
        /\ Handle(request[t])
    BY <1>3 DEF OrdersTypeOK, RequestsInv, Answered
  <2>2. CASE ~Takes(request[t]) \/ request[t].op = "cancel"
    <3>1. UNCHANGED <<handle, confirmed>>
      BY <1>3, <2>2 DEF Answered, toldVars
    <3> QED
      BY <1>2, <3>1
  <2>3. CASE Takes(request[t]) /\ request[t].op # "cancel"
    <3>1. /\ confirmed' = confirmed \cup {request[t].intent}
          /\ handle' = [handle EXCEPT ![request[t].intent] = ReturnedId(request[t])]
      BY <1>3, <2>3 DEF Answered
    <3>2. /\ request[t].intent \in Intents
          /\ NewId \in Ids'
          /\ origin'[NewId] = request[t].intent
      BY <2>1, <2>3, HandleFacts
    <3>3. venue.names => ReturnedId(request[t]) = NewId
      BY DEF ReturnedId
    <3>4. ASSUME venue.names, NEW i \in confirmed'
          PROVE  handle'[i] \in Ids' /\ origin'[handle'[i]] = i
      <4>1. CASE i = request[t].intent
        BY <3>1, <3>2, <3>3, <3>4, <4>1 DEF OrdersTypeOK
      <4>2. CASE i # request[t].intent
        <5>1. i \in confirmed /\ i \in Intents
          BY <3>1, <3>4, <4>2 DEF OrdersTypeOK
        <5>2. handle'[i] = handle[i]
          BY <3>1, <4>2, <5>1 DEF OrdersTypeOK
        <5> QED
          BY <1>1, <3>4, <5>1, <5>2 DEF HandleNamesItsOrder, Grown
      <4> QED
        BY <4>1, <4>2
    <3> QED
      BY <1>1, <3>4 DEF HandleNamesItsOrder
  <2> QED
    BY <2>2, <2>3
<1> QED
  BY <1>2, <1>3
     DEF OrdersNext, Call, CallStep, Repeats, GivesUp, ErrorStatus, Arrives, Executes,
         Quiet, ordersVars, toldVars

-----------------------------------------------------------------------------
LEMMA CopiesFinite ==
  ASSUME origin \in Seq(Intents), NEW i
  PROVE  IsFiniteSet({n \in Ids : origin[n] = i}) /\ Copies(i) \in Nat
<1>1. Ids = 1..Len(origin) /\ Len(origin) \in Int
  BY DEF Ids
<1>2. IsFiniteSet(Ids)
  BY <1>1, FS_Interval
<1>3. IsFiniteSet({n \in Ids : origin[n] = i})
  BY <1>2, FS_Subset
<1> QED
  BY <1>3, FS_CardinalityType DEF Copies

LEMMA WireFinite ==
  ASSUME RequestsInv, NEW i
  PROVE  IsFiniteSet({r \in wire : r.intent = i}) /\ OnWire(i) \in Nat
<1>1. IsFiniteSet({r \in wire : r.intent = i})
  BY FS_Subset DEF RequestsInv
<1> QED
  BY <1>1, FS_CardinalityType DEF OnWire

\* A request adds one copy at most, of the order it carries.
LEMMA CopiesStep ==
  ASSUME OrdersTypeOK, NEW r \in Requests, WellFormed(r), Handle(r), NEW i \in Intents
  PROVE  /\ i = r.intent => Copies(i)' <= Copies(i) + 1
         /\ i # r.intent => Copies(i)' = Copies(i)
<1>1. IsFiniteSet({n \in Ids : origin[n] = i}) /\ Copies(i) \in Nat
  BY CopiesFinite DEF OrdersTypeOK
<1>2. CASE origin' = origin
  <2>1. Copies(i)' = Copies(i)
    BY <1>2 DEF Copies, Ids
  <2> QED
    BY <1>1, <2>1
<1>3. CASE origin' # origin
  <2>1. /\ Ids' = Ids \cup {NewId}
        /\ NewId \notin Ids
        /\ origin'[NewId] = r.intent
        /\ \A n \in Ids : origin'[n] = origin[n]
    BY <1>3, HandleFacts DEF Grown
  <2>2. {n \in Ids' : origin'[n] = i} =
          IF i = r.intent THEN {n \in Ids : origin[n] = i} \cup {NewId}
          ELSE {n \in Ids : origin[n] = i}
    BY <2>1
  <2>3. Cardinality({n \in Ids : origin[n] = i} \cup {NewId}) <= Copies(i) + 1
    BY <1>1, FS_AddElement DEF Copies
  <2> QED
    BY <2>2, <2>3 DEF Copies
<1> QED
  BY <1>2, <1>3

LEMMA WireStep ==
  ASSUME RequestsInv, NEW r, NEW i
  PROVE  /\ wire' = wire \cup {r} =>
              /\ i = r.intent => OnWire(i)' <= OnWire(i) + 1
              /\ i # r.intent => OnWire(i)' = OnWire(i)
         /\ wire' = wire \ {r} /\ r \in wire =>
              OnWire(i)' = IF i = r.intent THEN OnWire(i) - 1 ELSE OnWire(i)
<1> DEFINE S == {q \in wire : q.intent = i}
<1>1. IsFiniteSet(S) /\ OnWire(i) = Cardinality(S) /\ OnWire(i) \in Nat
  BY WireFinite DEF OnWire
<1>2. ASSUME wire' = wire \cup {r}
      PROVE  /\ i = r.intent => OnWire(i)' <= OnWire(i) + 1
             /\ i # r.intent => OnWire(i)' = OnWire(i)
  <2>1. {q \in wire' : q.intent = i} = IF i = r.intent THEN S \cup {r} ELSE S
    BY <1>2
  <2>2. Cardinality(S \cup {r}) <= Cardinality(S) + 1
    BY <1>1, FS_AddElement
  <2> QED
    BY <1>1, <2>1, <2>2 DEF OnWire
<1>3. ASSUME wire' = wire \ {r}, r \in wire
      PROVE  OnWire(i)' = IF i = r.intent THEN OnWire(i) - 1 ELSE OnWire(i)
  <2>1. {q \in wire' : q.intent = i} = IF i = r.intent THEN S \ {r} ELSE S
    BY <1>3
  <2>2. i = r.intent => r \in S
    BY <1>3
  <2>3. i = r.intent => Cardinality(S \ {r}) = Cardinality(S) - 1
    BY <1>1, <2>2, FS_RemoveElement
  <2> QED
    BY <1>1, <2>1, <2>3 DEF OnWire
<1> QED
  BY <1>2, <1>3

LEMMA LoadStep ==
  ASSUME OrdersTypeOK, RequestsInv, LoadInv, [OrdersNext]_ordersVars
  PROVE  LoadInv'
<1>1. ASSUME NEW i \in Intents
      PROVE  /\ Copies(i) \in Nat /\ OnWire(i) \in Nat
             /\ Copies(i)' \in Nat /\ OnWire(i)' \in Nat
             /\ Load(i) \in Nat /\ Load(i)' \in Nat
             /\ i \in Nat /\ i # None
  <2>1. OrdersTypeOK' /\ RequestsInv'
    BY TypeStep, RequestsStep
  <2>2. Copies(i)' \in Nat
    <3>1. origin' \in Seq(Intents)
      BY <2>1 DEF OrdersTypeOK
    <3>2. Ids' = 1..Len(origin') /\ Len(origin') \in Int
      BY <3>1 DEF Ids
    <3>3. IsFiniteSet({n \in Ids' : origin'[n] = i})
      BY <3>2, FS_Interval, FS_Subset
    <3> QED
      BY <3>3, FS_CardinalityType DEF Copies
  <2>3. OnWire(i)' \in Nat
    <3>1. IsFiniteSet({r \in wire' : r.intent = i})
      BY <2>1, FS_Subset DEF RequestsInv
    <3> QED
      BY <3>1, FS_CardinalityType DEF OnWire
  <2>4. Copies(i) \in Nat /\ OnWire(i) \in Nat
    BY CopiesFinite, WireFinite DEF OrdersTypeOK
  <2> QED
    BY <2>2, <2>3, <2>4 DEF Load, Intents, None
<1>2. OrderRetries \in Nat /\ issued \in Nat /\ \A t \in Tasks : request[t].try \in 0..OrderRetries
  BY OrdersAssumption DEF OrdersTypeOK, Requests, OrdersAssumption
<1>3. ASSUME UNCHANGED <<origin, wire>>, NEW i \in Intents PROVE Load(i)' = Load(i)
  BY <1>3 DEF Load, Copies, OnWire, Ids
<1>4. ASSUME NEW t \in Tasks, NEW op \in {"create", "replace", "cancel"}, Call(t, op)
      PROVE  LoadInv'
  <2>1. UNCHANGED <<origin, wire>>
    BY <1>4 DEF Call, serviceVars
  <2>2. PICK id \in Targets(op) :
          /\ IF op = "cancel" THEN UNCHANGED issued
             ELSE issued < MaxIntents /\ issued' = issued + 1
          /\ request' = [request EXCEPT ![t] =
               [op |-> op, id |-> id,
                intent |-> IF op = "cancel" THEN None ELSE issued + 1, try |-> 0]]
    BY <1>4 DEF Call
  <2>3. /\ orderPc' = [orderPc EXCEPT ![t] = "sent"]
        /\ issued' \in Nat /\ issued <= issued'
        /\ request'[t].intent \in {None, issued + 1} /\ request'[t].try = 0
        /\ \A u \in Tasks : u # t => request'[u] = request[u] /\ orderPc'[u] = orderPc[u]
    BY <1>2, <1>4, <2>2 DEF Call, OrdersTypeOK
  <2>4. ASSUME NEW i \in Intents
        PROVE  /\ Load(i)' <= OrderRetries + 1
               /\ i > issued' => Load(i)' = 0
               /\ \A u \in Tasks : Sending(u, i)' => Load(i)' <= request'[u].try
    <3>1. Load(i)' = Load(i) /\ i \in Nat /\ i # None
      BY <1>1, <1>3, <2>1
    <3>2. Load(i)' <= OrderRetries + 1 /\ (i > issued' => Load(i)' = 0)
      BY <1>2, <2>3, <3>1 DEF LoadInv
    <3>3. ASSUME NEW u \in Tasks, Sending(u, i)', u # t
          PROVE  Load(i)' <= request'[u].try
      BY <2>3, <3>1, <3>3 DEF LoadInv, Sending
    <3>4. Sending(t, i)' => Load(i)' <= request'[t].try
      BY <1>2, <2>3, <3>1 DEF LoadInv, Sending
    <3> QED
      BY <3>2, <3>3, <3>4
  <2> QED
    BY <2>4 DEF LoadInv
<1>5. ASSUME NEW t \in Tasks, CallStep(t) PROVE LoadInv'
  <2> DEFINE r == request[t]
  <2>1. r \in Requests /\ WellFormed(r) /\ orderPc[t] = "sent" /\ issued' = issued
    BY <1>5 DEF OrdersTypeOK, RequestsInv, CallStep, Answered, Repeats, GivesUp, ErrorStatus
  <2>2. \/ Handle(r) /\ wire' = wire
        \/ UNCHANGED <<origin, wire>>
        \/ UNCHANGED origin /\ wire' = wire \cup {r}
    BY <1>5 DEF CallStep, Answered, Repeats, GivesUp, ErrorStatus, Unanswered
  <2>3. ASSUME NEW i \in Intents
        PROVE  /\ i = r.intent => Load(i)' <= Load(i) + 1
               /\ i # r.intent => Load(i)' = Load(i)
    <3> HIDE DEF r
    <3>1. CASE Handle(r) /\ wire' = wire
      <4>1. OnWire(i)' = OnWire(i)
        BY <3>1 DEF OnWire
      <4> QED
        BY <1>1, <2>1, <3>1, <4>1, CopiesStep DEF Load
    <3>2. CASE UNCHANGED <<origin, wire>>
      BY <1>1, <1>3, <3>2
    <3>3. CASE UNCHANGED origin /\ wire' = wire \cup {r}
      <4>1. Copies(i)' = Copies(i)
        BY <3>3 DEF Copies, Ids
      <4> QED
        BY <1>1, <3>3, <4>1, WireStep DEF Load
    <3> QED
      BY <2>2, <3>1, <3>2, <3>3
  <2>4. \/ /\ orderPc' = orderPc
           /\ request' = [request EXCEPT ![t] = [r EXCEPT !.try = r.try + 1]]
        \/ /\ orderPc' = [orderPc EXCEPT ![t] = "idle"]
           /\ request' = [request EXCEPT ![t] = NoRequest]
    BY <1>5 DEF CallStep, Answered, Repeats, GivesUp, ErrorStatus
  <2>5. ASSUME NEW u \in Tasks, NEW i \in Intents, Sending(u, i)'
        PROVE  /\ Sending(u, i)
               /\ request'[u].try = IF u = t THEN r.try + 1 ELSE request[u].try
    BY <2>1, <2>4, <2>5 DEF Sending, OrdersTypeOK, Requests
  <2>6. ASSUME NEW i \in Intents
        PROVE  /\ Load(i)' <= OrderRetries + 1
               /\ i > issued' => Load(i)' = 0
               /\ \A u \in Tasks : Sending(u, i)' => Load(i)' <= request'[u].try
    <3>1. CASE i # r.intent
      <4>1. Load(i)' = Load(i)
        BY <2>3, <3>1
      <4>2. ASSUME NEW u \in Tasks, Sending(u, i)'
            PROVE  Load(i)' <= request'[u].try
        <5>1. u # t
          BY <2>5, <3>1, <4>2 DEF Sending
        <5> QED
          BY <2>5, <4>1, <4>2, <5>1 DEF LoadInv
      <4> QED
        BY <2>1, <4>1, <4>2 DEF LoadInv
    <3>2. CASE i = r.intent
      <4>1. Sending(t, i)
        BY <2>1, <3>2 DEF Sending
      <4>2. Load(i)' <= r.try + 1
        BY <1>1, <1>2, <2>3, <3>2, <4>1 DEF LoadInv
      <4>3. ~(i > issued')
        BY <1>1, <1>2, <2>1, <3>2 DEF WellFormed
      <4>4. ASSUME NEW u \in Tasks, Sending(u, i)' PROVE Load(i)' <= request'[u].try
        BY <2>5, <4>1, <4>2, <4>4 DEF RequestsInv
      <4> QED
        BY <1>1, <1>2, <4>2, <4>3, <4>4
    <3> QED
      BY <3>1, <3>2
  <2> QED
    BY <2>6 DEF LoadInv
<1>6. ASSUME NEW r \in wire, Arrives(r) PROVE LoadInv'
  <2>1. r \in Requests /\ WellFormed(r) /\ Handle(r)
    BY <1>6 DEF OrdersTypeOK, RequestsInv, Arrives
  <2>2. wire' = wire \ {r} /\ UNCHANGED <<orderPc, request, issued>>
    BY <1>6 DEF Arrives
  <2>3. \A i \in Intents : Load(i)' <= Load(i)
    BY <1>1, <2>1, <2>2, CopiesStep, WireStep DEF Load
  <2>4. \A u \in Tasks, i \in Intents : Sending(u, i)' => Sending(u, i)
    BY <2>2 DEF Sending
  <2> QED
    BY <1>1, <1>2, <2>2, <2>3, <2>4 DEF LoadInv
<1>7. CASE UNCHANGED ordersVars \/ Quiet \/ \E n \in live : Executes(n)
  <2>1. UNCHANGED <<origin, wire, orderPc, request, issued>>
    BY <1>7 DEF ordersVars, Quiet, Executes
  <2> QED
    BY <1>3, <2>1 DEF LoadInv, Sending
<1> QED
  BY <1>4, <1>5, <1>6, <1>7 DEF OrdersNext

-----------------------------------------------------------------------------
\* What the service takes in a step is one request that is outstanding, and no
\* step but a call adds one.
Alike(q, s) == q.op = s.op /\ q.id = s.id /\ q.intent = s.intent
Kept == \A q \in Outstanding' : \E s \in Outstanding : Alike(q, s)
Served == \E q \in Outstanding : Handle(q)

LEMMA OutstandingWell ==
  ASSUME OrdersTypeOK, RequestsInv, NEW q \in Outstanding
  PROVE  q \in Requests /\ WellFormed(q)
BY DEF Outstanding, OrdersTypeOK, RequestsInv

LEMMA StepKinds ==
  ASSUME OrdersTypeOK, RequestsInv, [OrdersNext]_ordersVars
  PROVE  \/ \E t \in Tasks, op \in {"create", "replace", "cancel"} : Call(t, op)
         \/ /\ Kept /\ UNCHANGED <<issued, replacing>>
            /\ Served \/ (origin' = origin /\ live' \subseteq live)
<1>1. ASSUME wire' \subseteq wire, UNCHANGED <<orderPc, request>> PROVE Kept
  BY <1>1 DEF Kept, Outstanding, Alike
<1>2. ASSUME NEW t \in Tasks, CallStep(t)
      PROVE  /\ Kept /\ UNCHANGED <<issued, replacing>>
             /\ Served \/ (origin' = origin /\ live' \subseteq live)
  <2>1. orderPc[t] = "sent" /\ request[t] \in Requests /\ WellFormed(request[t])
    BY <1>2 DEF CallStep, Answered, Repeats, GivesUp, ErrorStatus, OrdersTypeOK, RequestsInv
  <2>2. request[t] \in Outstanding
    BY <2>1 DEF Outstanding
  <2>3. \/ Handle(request[t]) \/ UNCHANGED <<origin, live>>
    BY <1>2 DEF CallStep, Answered, Repeats, GivesUp, ErrorStatus, Unanswered
  <2>4. wire' \subseteq wire \cup {request[t]}
    BY <1>2 DEF CallStep, Answered, Repeats, GivesUp, ErrorStatus, Unanswered
  <2>5. ASSUME NEW u \in Tasks, orderPc'[u] = "sent"
        PROVE  orderPc[u] = "sent" /\ Alike(request'[u], request[u])
    <3>1. \/ orderPc' = orderPc /\ request' = [request EXCEPT ![t].try = @ + 1]
          \/ orderPc' = [orderPc EXCEPT ![t] = "idle"] /\ request' = [request EXCEPT ![t] = NoRequest]
      BY <1>2 DEF CallStep, Answered, Repeats, GivesUp, ErrorStatus
    <3>2. CASE orderPc' = orderPc /\ request' = [request EXCEPT ![t].try = @ + 1]
      <4>1. request' = [request EXCEPT ![t] = [request[t] EXCEPT !.try = @ + 1]]
        BY <3>2
      <4>2. request'[u] = IF u = t THEN [request[t] EXCEPT !.try = @ + 1] ELSE request[u]
        BY <4>1 DEF OrdersTypeOK
      <4> QED
        BY <2>1, <2>5, <3>2, <4>2 DEF Alike, Requests
    <3>3. CASE /\ orderPc' = [orderPc EXCEPT ![t] = "idle"]
               /\ request' = [request EXCEPT ![t] = NoRequest]
      BY <2>5, <3>3 DEF OrdersTypeOK, Alike
    <3> QED
      BY <3>1, <3>2, <3>3
  <2>6. Kept
    BY <2>2, <2>4, <2>5 DEF Kept, Outstanding, Alike
  <2>7. UNCHANGED <<issued, replacing>>
    BY <1>2 DEF CallStep, Answered, Repeats, GivesUp, ErrorStatus
  <2> QED
    BY <2>2, <2>3, <2>6, <2>7 DEF Served
<1>3. ASSUME NEW q \in wire, Arrives(q)
      PROVE  Kept /\ UNCHANGED <<issued, replacing>> /\ Served
  BY <1>1, <1>3 DEF Arrives, Served, Outstanding
<1>4. CASE UNCHANGED ordersVars \/ Quiet \/ \E n \in live : Executes(n)
  BY <1>1, <1>4 DEF ordersVars, Quiet, Executes
<1> QED
  BY <1>2, <1>3, <1>4 DEF OrdersNext

LEMMA SignedStep ==
  ASSUME OrdersTypeOK, RequestsInv, SignedInv, [OrdersNext]_ordersVars
  PROVE  SignedInv'
<1>1. /\ issued \in Nat /\ issued' \in Nat /\ issued <= issued'
      /\ replacing' \subseteq replacing \cup (IF issued' = issued THEN {} ELSE {issued'})
  BY OrdersAssumption
     DEF OrdersNext, Call, CallStep, Answered, Repeats, GivesUp, ErrorStatus, Arrives,
         Executes, Quiet, ordersVars, OrdersTypeOK, OrdersAssumption
<1>2. replacing' \subseteq 1..issued'
  BY <1>1 DEF SignedInv
<1>3. CASE origin' = origin
  BY <1>1, <1>2, <1>3 DEF SignedInv, Ids
<1>4. ASSUME NEW q \in Requests, WellFormed(q), Handle(q), Takes(q), q.op # "cancel"
      PROVE  SignedInv'
  <2>1. /\ Ids' = Ids \cup {NewId}
        /\ origin'[NewId] = q.intent
        /\ \A k \in Ids : origin'[k] = origin[k]
    BY <1>4, HandleFacts DEF Grown
  <2>2. q.intent \in 1..issued
    BY <1>4 DEF WellFormed
  <2> QED
    BY <1>1, <1>2, <2>1, <2>2 DEF SignedInv
<1> QED
  BY <1>3, <1>4, OriginStep

\* A call's new order is unseen, and no other request carries it.
LEMMA TargetsOfCall ==
  ASSUME OrdersTypeOK, RequestsInv, SignedInv, TargetsInv,
         NEW t \in Tasks, NEW op \in {"create", "replace", "cancel"}, Call(t, op)
  PROVE  TargetsInv'
<1>1. PICK id \in Targets(op) :
        /\ ~Rejects(op, id)
        /\ IF op = "cancel" THEN UNCHANGED issued
           ELSE issued < MaxIntents /\ issued' = issued + 1
        /\ replacing' = IF op = "replace" THEN replacing \cup {issued + 1} ELSE replacing
        /\ request' = [request EXCEPT ![t] =
             [op |-> op, id |-> id,
              intent |-> IF op = "cancel" THEN None ELSE issued + 1, try |-> 0]]
  BY DEF Call
<1>2. UNCHANGED <<origin, live, wire>> /\ orderPc' = [orderPc EXCEPT ![t] = "sent"]
  BY DEF Call, serviceVars
<1> DEFINE new == request'[t]
<1>3. /\ new.op = op /\ new.id = id
      /\ new.intent = IF op = "cancel" THEN None ELSE issued + 1
  BY <1>1 DEF OrdersTypeOK
<1>4. Outstanding' \subseteq Outstanding \cup {new}
  BY <1>1, <1>2 DEF Outstanding, OrdersTypeOK
<1>5. op = "replace" => id \in Ids
  BY <1>1 DEF Targets, Rejects
<1>6. issued \in Nat /\ issued + 1 \notin 1..issued
  BY OrdersAssumption DEF OrdersTypeOK, OrdersAssumption
<1>7. \A q \in Outstanding : q.op # "cancel" => q.intent # issued + 1
  BY <1>6, OutstandingWell DEF WellFormed
<1>8. Unseen(issued + 1) /\ issued + 1 \notin replacing
  BY <1>6 DEF SignedInv, Unseen
<1>9. Ids' = Ids /\ (\A i : Unseen(i)' <=> Unseen(i))
  BY <1>2 DEF Ids, Unseen
<1>10. \A q \in Outstanding' :
         /\ q.op = "create" => q.intent \notin replacing'
         /\ q.op = "replace" => q.intent \in replacing' /\ q.id \in Ids'
         /\ q.op = "replace" /\ ~Unseen(q.intent)' => q.id \notin live'
  <2> TAKE q \in Outstanding'
  <2>1. CASE q = new
    BY <1>1, <1>2, <1>3, <1>5, <1>8, <1>9, <2>1
  <2>2. CASE q \in Outstanding
    BY <1>1, <1>2, <1>7, <1>9, <2>2 DEF TargetsInv
  <2> QED
    BY <1>4, <2>1, <2>2
<1>11. \A q, s \in Outstanding' :
         q.op = "replace" /\ s.op = "replace" /\ q.intent = s.intent => q.id = s.id
  BY <1>3, <1>4, <1>7 DEF TargetsInv
<1>12. \A m, n \in Ids' : origin'[m] = origin'[n] /\ origin'[m] \in replacing' => m = n
  BY <1>1, <1>2, <1>6, <1>9 DEF TargetsInv, SignedInv
<1> QED
  BY <1>9, <1>10, <1>11, <1>12 DEF TargetsInv

\* A replacement that is taken removes the target of all its requests.
LEMMA TargetsStep ==
  ASSUME OrdersTypeOK, RequestsInv, SignedInv, TargetsInv, [OrdersNext]_ordersVars
  PROVE  TargetsInv'
<1>1. CASE \E t \in Tasks, op \in {"create", "replace", "cancel"} : Call(t, op)
  BY <1>1, TargetsOfCall
<1>2. CASE /\ Kept /\ UNCHANGED <<issued, replacing>>
           /\ origin' = origin /\ live' \subseteq live
  <2>1. Ids' = Ids /\ (\A i : Unseen(i)' <=> Unseen(i))
    BY <1>2 DEF Ids, Unseen
  <2> QED
    BY <1>2, <2>1 DEF TargetsInv, Kept, Alike
<1>3. ASSUME Kept, UNCHANGED <<issued, replacing>>, NEW r \in Outstanding, Handle(r),
             Takes(r), r.op # "cancel"
      PROVE  TargetsInv'
  <2>1. r \in Requests /\ WellFormed(r)
    BY OutstandingWell
  <2>2. /\ Ids' = Ids \cup {NewId}
        /\ NewId \notin Ids
        /\ origin'[NewId] = r.intent
        /\ \A k \in Ids : origin'[k] = origin[k]
    BY <1>3, <2>1, HandleFacts DEF Grown
  <2>3. live' = (live \ {r.id}) \cup {NewId}
    BY <1>3 DEF Handle
  <2>4. \A i : Unseen(i)' <=> Unseen(i) /\ i # r.intent
    BY <2>2 DEF Unseen
  <2>5. ASSUME r.intent \in replacing PROVE Unseen(r.intent)
    <3>1. r.op = "replace"
      BY <1>3, <2>1, <2>5 DEF TargetsInv, Requests
    <3>2. r.id \in live
      BY <1>3, <3>1 DEF Takes
    <3> QED
      BY <3>1, <3>2 DEF TargetsInv
  <2>6. \A q \in Outstanding' :
          /\ q.op = "create" => q.intent \notin replacing'
          /\ q.op = "replace" => q.intent \in replacing' /\ q.id \in Ids'
          /\ q.op = "replace" /\ ~Unseen(q.intent)' => q.id \notin live'
    <3> TAKE q \in Outstanding'
    <3>1. PICK s \in Outstanding : Alike(q, s)
      BY <1>3 DEF Kept
    <3>2. /\ s.op = "create" => s.intent \notin replacing
          /\ s.op = "replace" => s.intent \in replacing /\ s.id \in Ids
          /\ s.op = "replace" /\ ~Unseen(s.intent) => s.id \notin live
      BY DEF TargetsInv
    <3>3. ASSUME s.op = "replace", ~Unseen(s.intent)' PROVE s.id \notin live'
      <4>1. CASE ~Unseen(s.intent)
        BY <2>2, <2>3, <3>2, <3>3, <4>1
      <4>2. CASE s.intent = r.intent
        <5>1. r.op = "replace" => s.id = r.id
          BY <3>3, <4>2 DEF TargetsInv
        <5>2. r.op = "replace"
          BY <1>3, <2>1, <3>2, <3>3, <4>2 DEF Requests, TargetsInv
        <5> QED
          BY <2>2, <2>3, <3>2, <3>3, <5>1, <5>2
      <4> QED
        BY <2>4, <3>3, <4>1, <4>2
    <3> QED
      BY <1>3, <2>2, <3>1, <3>2, <3>3 DEF Alike
  <2>7. \A q, s \in Outstanding' :
          q.op = "replace" /\ s.op = "replace" /\ q.intent = s.intent => q.id = s.id
    BY <1>3 DEF TargetsInv, Kept, Alike
  <2>8. \A m, n \in Ids' : origin'[m] = origin'[n] /\ origin'[m] \in replacing' => m = n
    BY <1>3, <2>2, <2>5 DEF TargetsInv, Unseen
  <2> QED
    BY <2>6, <2>7, <2>8 DEF TargetsInv
<1>4. CASE Kept /\ UNCHANGED <<issued, replacing>> /\ Served
  <2>1. PICK r \in Outstanding : Handle(r)
    BY <1>4 DEF Served
  <2>2. CASE Takes(r) /\ r.op # "cancel"
    BY <1>3, <1>4, <2>1, <2>2
  <2>3. CASE ~(Takes(r) /\ r.op # "cancel")
    <3>1. origin' = origin /\ live' \subseteq live
      BY <2>1, <2>3 DEF Handle
    <3> QED
      BY <1>2, <1>4, <3>1
  <2> QED
    BY <2>2, <2>3
<1> QED
  BY <1>1, <1>2, <1>4, StepKinds

LEMMA InvInit == OrdersInit => IInv
<1> SUFFICES ASSUME OrdersInit PROVE IInv
  OBVIOUS
<1> USE OrdersAssumption DEF OrdersInit, OrdersAssumption
<1>1. NoRequest \in Requests /\ WellFormed(NoRequest) /\ NoRequest.intent = None
  BY DEF NoRequest, Requests, None, WellFormed
<1>2. Ids = {} /\ IsFiniteSet(wire)
  BY FS_EmptySet DEF Ids
<1>3. OrdersTypeOK
  BY <1>1, <1>2 DEF OrdersTypeOK, None
<1>4. RequestsInv
  BY <1>1, <1>2 DEF RequestsInv, Sending
<1>5. NoncesInv /\ HandleNamesItsOrder /\ SignedInv /\ TargetsInv
  <2>1. Outstanding = {}
    BY <1>1 DEF Outstanding
  <2> QED
    BY <1>1, <1>2, <2>1 DEF NoncesInv, HandleNamesItsOrder, SignedInv, TargetsInv
<1>6. ASSUME NEW i \in Intents PROVE Load(i) = 0
  <2>1. {n \in Ids : origin[n] = i} = {} /\ {r \in wire : r.intent = i} = {}
    BY <1>2
  <2>2. Cardinality({n \in Ids : origin[n] = i}) = 0
    BY <2>1, FS_EmptySet
  <2>3. Cardinality({r \in wire : r.intent = i}) = 0
    BY <2>1, FS_EmptySet
  <2> QED
    BY <2>2, <2>3 DEF Load, Copies, OnWire
<1>7. LoadInv
  BY <1>6 DEF LoadInv, Sending
<1> QED
  BY <1>3, <1>4, <1>5, <1>7 DEF IInv

LEMMA InvStep == IInv /\ [OrdersNext]_ordersVars => IInv'
BY TypeStep, RequestsStep, NoncesStep, LoadStep, HandlesStep, SignedStep, TargetsStep DEF IInv

LEMMA Invariance == OrdersSpec => []IInv
BY InvInit, InvStep, PTL DEF OrdersSpec

\* Every value the calls, the service and the network hold is one they can have.
THEOREM TypeCorrect == OrdersSpec => []OrdersTypeOK
<1>1. IInv => OrdersTypeOK
  BY DEF IInv
<1> QED
  BY <1>1, Invariance, PTL

\* A call that succeeds returns the id of the order it signed, whatever was
\* repeated and whatever other tasks did (trading/api.py, update_partial_tp_sl).
THEOREM HandlesNameTheirOrder == OrdersSpec => []HandleNamesItsOrder
<1>1. IInv => HandleNamesItsOrder
  BY DEF IInv
<1> QED
  BY <1>1, Invariance, PTL

\* A signed order is stored once where its nonce is checked or it replaces
\* another, and otherwise no more often than the transport sends the request
\* (transport.py).
THEOREM CopiesAreBounded == OrdersSpec => []CopiesBounded
<1>1. ASSUME IInv, NEW i \in Intents
      PROVE  Copies(i) <= IF venue.checksNonce \/ i \in replacing THEN 1 ELSE OrderRetries + 1
  <2> DEFINE S == {n \in Ids : origin[n] = i}
  <2>1. IsFiniteSet(S) /\ Copies(i) = Cardinality(S) /\ Copies(i) \in Nat
    BY <1>1, CopiesFinite DEF Copies, IInv, OrdersTypeOK
  <2>2. CASE venue.checksNonce \/ i \in replacing
    <3>1. \A m, n \in S : m = n
      BY <1>1, <2>2 DEF IInv, NoncesInv, TargetsInv
    <3>2. S = {} \/ \E n \in S : S = {n}
      BY <3>1
    <3>3. Cardinality(S) \in {0, 1}
      BY <3>2, FS_EmptySet, FS_Singleton
    <3> QED
      BY <2>1, <2>2, <3>3
  <2>3. CASE ~(venue.checksNonce \/ i \in replacing)
    <3>1. Load(i) <= OrderRetries + 1 /\ OnWire(i) \in Nat /\ OrderRetries \in Nat
      BY <1>1, WireFinite, OrdersAssumption DEF IInv, LoadInv, OrdersAssumption
    <3> QED
      BY <2>1, <2>3, <3>1 DEF Load
  <2> QED
    BY <2>2, <2>3
<1>2. IInv => CopiesBounded
  BY <1>1 DEF CopiesBounded
<1> QED
  BY <1>2, Invariance, PTL

-----------------------------------------------------------------------------
(* The calls implement the order book. *)

Marks == [i \in Intents |-> StateOf(i)]
Told == {origin[n] : n \in withdrawn}

\* An order that is removed leaves every other as it is.
LEMMA RemoveMarks ==
  ASSUME OrdersTypeOK, NoncesInv, venue.checksNonce, NEW n \in live,
         live' = live \ {n}, origin' = origin
  PROVE  /\ origin[n] \in Intents
         /\ Marks[origin[n]] = "live"
         /\ Marks' = [Marks EXCEPT ![origin[n]] = "gone"]
<1>1. n \in Ids /\ origin[n] \in Intents /\ live \subseteq Ids /\ Ids' = Ids
  BY DEF OrdersTypeOK, Ids
<1>2. StateOf(origin[n]) = "live"
  BY <1>1 DEF StateOf
<1>3. StateOf(origin[n])' = "gone"
  <2>1. \A m \in live' : origin'[m] # origin[n]
    BY <1>1 DEF NoncesInv
  <2>2. ~(\A m \in Ids' : origin'[m] # origin[n])
    BY <1>1
  <2> QED
    BY <2>1, <2>2 DEF StateOf, Unseen
<1>4. ASSUME NEW i \in Intents, i # origin[n] PROVE StateOf(i)' = StateOf(i)
  <2>1. (\E m \in live' : origin'[m] = i) <=> (\E m \in live : origin[m] = i)
    BY <1>4
  <2>2. (\A m \in Ids' : origin'[m] # i) <=> (\A m \in Ids : origin[m] # i)
    BY <1>1
  <2> QED
    BY <2>1, <2>2 DEF StateOf, Unseen
<1> QED
  BY <1>1, <1>2, <1>3, <1>4 DEF Marks

\* An order that is stored takes the place of one at most.
LEMMA PlaceMarks ==
  ASSUME OrdersTypeOK, NoncesInv, venue.checksNonce,
         NEW r \in Requests, WellFormed(r), Handle(r), Takes(r), r.op # "cancel"
  PROVE  /\ r.intent \in Intents
         /\ Marks[r.intent] = "unborn"
         /\ \/ Marks' = [Marks EXCEPT ![r.intent] = "live"]
            \/ \E j \in Intents :
                 /\ Marks[j] = "live"
                 /\ Marks' = [Marks EXCEPT ![r.intent] = "live", ![j] = "gone"]
<1>1. /\ r.intent \in Intents
      /\ live' = (live \ {r.id}) \cup {NewId}
      /\ Ids' = Ids \cup {NewId}
      /\ NewId \notin Ids
      /\ origin'[NewId] = r.intent
      /\ \A n \in Ids : origin'[n] = origin[n]
      /\ live \subseteq Ids
  BY HandleFacts DEF Handle, Grown, OrdersTypeOK
<1>2. \A n \in Ids : origin[n] # r.intent
  BY DEF Takes, Unseen
<1>3. StateOf(r.intent) = "unborn" /\ StateOf(r.intent)' = "live"
  BY <1>1, <1>2 DEF StateOf, Unseen
<1>4. ASSUME NEW i \in Intents, i # r.intent, r.id \in live => origin[r.id] # i
      PROVE  StateOf(i)' = StateOf(i)
  <2>1. (\E m \in live' : origin'[m] = i) <=> (\E m \in live : origin[m] = i)
    BY <1>1, <1>4
  <2>2. (\A m \in Ids' : origin'[m] # i) <=> (\A m \in Ids : origin[m] # i)
    BY <1>1, <1>4
  <2> QED
    BY <2>1, <2>2 DEF StateOf, Unseen
<1>5. CASE r.id \notin live
  BY <1>1, <1>3, <1>4, <1>5 DEF Marks
<1>6. CASE r.id \in live
  <2>1. PICK j \in Intents : j = origin[r.id]
    BY <1>1, <1>6 DEF OrdersTypeOK, Ids
  <2>2. j # r.intent /\ StateOf(j) = "live"
    BY <1>1, <1>2, <1>6, <2>1 DEF StateOf
  <2>3. StateOf(j)' = "gone"
    <3>1. \A m \in live' : origin'[m] # j
      BY <1>1, <1>6, <2>1, <2>2 DEF NoncesInv
    <3>2. ~(\A m \in Ids' : origin'[m] # j)
      BY <1>1, <1>6, <2>1
    <3> QED
      BY <3>1, <3>2 DEF StateOf, Unseen
  <2>4. \A i \in Intents : i # r.intent /\ i # j => StateOf(i)' = StateOf(i)
    BY <1>4, <2>1
  <2>5. Marks' = [Marks EXCEPT ![r.intent] = "live", ![j] = "gone"]
    BY <1>1, <1>3, <2>2, <2>3, <2>4 DEF Marks
  <2> QED
    BY <1>1, <1>3, <2>2, <2>5 DEF Marks
<1> QED
  BY <1>5, <1>6

\* What is told as withdrawn keeps its meaning.
LEMMA ToldStep ==
  ASSUME OrdersTypeOK, Grown
  PROVE  /\ withdrawn' = withdrawn => Told' = Told
         /\ \A n \in Ids : withdrawn' = withdrawn \cup {n} => Told' = Told \cup {origin[n]}
BY DEF OrdersTypeOK, Grown, Told

\* A request that the service handles places or removes an order, or nothing
\* changes; its answer may be told at the same time.
LEMMA HandleImplements ==
  ASSUME IInv, venue.checksNonce, NEW r \in Requests, WellFormed(r), Handle(r),
         \/ UNCHANGED <<confirmed, withdrawn>>
         \/ /\ Takes(r) /\ r.op = "cancel"
            /\ withdrawn' = withdrawn \cup {r.id} /\ confirmed' = confirmed
         \/ /\ Takes(r) /\ r.op # "cancel"
            /\ confirmed' = confirmed \cup {r.intent} /\ withdrawn' = withdrawn
  PROVE  Book!Next \/ UNCHANGED <<Marks, confirmed, Told>>
<1>1. OrdersTypeOK /\ NoncesInv /\ Grown
  BY HandleFacts DEF IInv
<1>2. CASE ~Takes(r)
  <2>1. UNCHANGED <<origin, live, confirmed, withdrawn>>
    BY <1>2 DEF Handle
  <2> QED
    BY <2>1 DEF Marks, Told, StateOf, Unseen, Ids
<1>3. CASE Takes(r) /\ r.op = "cancel"
  <2>1. r.id \in live /\ live' = live \ {r.id} /\ origin' = origin /\ r.id \in Ids
    BY <1>1, <1>3 DEF Takes, Handle, OrdersTypeOK
  <2>2. /\ origin[r.id] \in Intents
        /\ Marks[origin[r.id]] = "live"
        /\ Marks' = [Marks EXCEPT ![origin[r.id]] = "gone"]
    BY <1>1, <2>1, RemoveMarks
  <2>3. Told' \in {Told, Told \cup {origin[r.id]}} /\ confirmed' = confirmed
    BY <1>1, <1>3, <2>1, ToldStep
  <2>4. PICK i \in Intents : i = origin[r.id]
    BY <2>2
  <2>5. Book!Remove(i)
    BY <2>2, <2>3, <2>4 DEF Book!Remove, Marks, Told
  <2> QED
    BY <2>5 DEF Book!Next
<1>4. CASE Takes(r) /\ r.op # "cancel"
  <2>1. /\ r.intent \in Intents
        /\ Marks[r.intent] = "unborn"
        /\ \/ Marks' = [Marks EXCEPT ![r.intent] = "live"]
           \/ \E j \in Intents :
                /\ Marks[j] = "live"
                /\ Marks' = [Marks EXCEPT ![r.intent] = "live", ![j] = "gone"]
    BY <1>1, <1>4, PlaceMarks
  <2>2. Told' = Told /\ confirmed' \in {confirmed, confirmed \cup {r.intent}}
    BY <1>1, <1>4, ToldStep
  <2>3. Book!Place(r.intent)
    BY <2>1, <2>2 DEF Book!Place, Marks, Told
  <2> QED
    BY <2>1, <2>3 DEF Book!Next
<1> QED
  BY <1>2, <1>3, <1>4

LEMMA BookStep ==
  ASSUME IInv, venue.checksNonce, [OrdersNext]_ordersVars
  PROVE  Book!Next \/ UNCHANGED <<Marks, confirmed, Told>>
<1>1. ASSUME UNCHANGED <<origin, live, confirmed, withdrawn>>
      PROVE  UNCHANGED <<Marks, confirmed, Told>>
  BY <1>1 DEF Marks, Told, StateOf, Unseen, Ids
<1>2. ASSUME NEW t \in Tasks PROVE request[t] \in Requests /\ WellFormed(request[t])
  BY DEF IInv, OrdersTypeOK, RequestsInv
<1>3. ASSUME NEW t \in Tasks, NEW op \in {"create", "replace", "cancel"}, Call(t, op)
      PROVE  UNCHANGED <<Marks, confirmed, Told>>
  BY <1>1, <1>3 DEF Call, serviceVars, toldVars
<1>4. ASSUME NEW t \in Tasks, CallStep(t)
      PROVE  Book!Next \/ UNCHANGED <<Marks, confirmed, Told>>
  <2>1. \/ UNCHANGED <<origin, live, confirmed, withdrawn>>
        \/ /\ Handle(request[t])
           /\ \/ UNCHANGED <<confirmed, withdrawn>>
              \/ /\ Takes(request[t]) /\ request[t].op = "cancel"
                 /\ withdrawn' = withdrawn \cup {request[t].id}
                 /\ confirmed' = confirmed
              \/ /\ Takes(request[t]) /\ request[t].op # "cancel"
                 /\ confirmed' = confirmed \cup {request[t].intent}
                 /\ withdrawn' = withdrawn
    BY <1>4 DEF CallStep, Answered, Repeats, GivesUp, ErrorStatus, Unanswered, toldVars
  <2> QED
    BY <1>1, <1>2, <2>1, HandleImplements
<1>5. ASSUME NEW r \in wire, Arrives(r)
      PROVE  Book!Next \/ UNCHANGED <<Marks, confirmed, Told>>
  <2>1. r \in Requests /\ WellFormed(r) /\ Handle(r) /\ UNCHANGED <<confirmed, withdrawn>>
    BY <1>5 DEF IInv, OrdersTypeOK, RequestsInv, Arrives, toldVars
  <2> QED
    BY <2>1, HandleImplements
<1>6. ASSUME NEW n \in live, Executes(n) PROVE Book!Next
  <2>1. live' = live \ {n} /\ UNCHANGED <<origin, confirmed, withdrawn>>
    BY <1>6 DEF Executes, toldVars
  <2>2. /\ origin[n] \in Intents
        /\ Marks[origin[n]] = "live"
        /\ Marks' = [Marks EXCEPT ![origin[n]] = "gone"]
    BY <2>1, RemoveMarks DEF IInv
  <2>3. Told' = Told
    BY <2>1 DEF Told
  <2>4. PICK i \in Intents : i = origin[n]
    BY <2>2
  <2>5. Book!Remove(i)
    BY <2>1, <2>2, <2>3, <2>4 DEF Book!Remove, Marks, Told
  <2> QED
    BY <2>5 DEF Book!Next
<1>7. CASE UNCHANGED ordersVars \/ Quiet
  BY <1>1, <1>7 DEF ordersVars, Quiet
<1> QED
  BY <1>3, <1>4, <1>5, <1>6, <1>7 DEF OrdersNext

\* Where nonces are checked, the calls of all tasks with their repeats and late
\* requests are one order book, each order placed once and removed once.
THEOREM CallsAreOneBook == OrdersSpec => ImplementsOrderBook
<1>1. OrdersInit => Book!Init
  <2> SUFFICES ASSUME OrdersInit PROVE Book!Init
    OBVIOUS
  <2>1. \A i \in Intents : StateOf(i) = "unborn"
    BY DEF OrdersInit, StateOf, Unseen, Ids
  <2> QED
    BY <2>1 DEF OrdersInit, Book!Init
<1>2. IInv /\ [OrdersNext]_ordersVars => [venue.checksNonce => Book!Next]_<<Book!vars>>
  BY BookStep DEF Book!vars, Marks, Told
<1> QED
  BY <1>1, <1>2, Invariance, PTL DEF OrdersSpec, ImplementsOrderBook

=============================================================================
