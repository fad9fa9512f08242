---------------------------- MODULE StoredOrders ----------------------------
(***************************************************************************)
(* Orders that a service keeps for the trader: partial TP/SL orders of the *)
(* core API (partial_tp_sl, update_partial_tp_sl, cancel_partial_tp_sl of  *)
(* trading/api.py) and TWAPs (twap_open, twap_close, twap_cancel), each    *)
(* one request that HttpTransport.request repeats, POST, PUT and DELETE    *)
(* alike, when it is not answered or answered with 502, 503 or 504.        *)
(*                                                                         *)
(* The service is external.  It hands out ids, which it never uses again,  *)
(* and removes orders when they execute.                                   *)
(***************************************************************************)
EXTENDS Integers, Sequences, FiniteSets

CONSTANTS
  Tasks,          \* tasks that make calls
  OrderRetries,   \* times the transport repeats a request
  MaxOrderCalls,  \* bound: calls made
  MaxIntents,     \* bound: orders signed
  MaxLate         \* bound: requests on their way at a time

ASSUME OrdersAssumption ==
  /\ OrderRetries \in Nat
  /\ MaxOrderCalls \in Nat
  /\ MaxIntents \in Nat
  /\ MaxLate \in Nat

Intents == 1..MaxIntents

\* No id, and a synthetic id "global-..." of the levels held on chain.
None   == 0
Global == -1

\* A service: whether its orders can be replaced, whether it refuses a signed
\* order whose nonce it has seen, and whether its answers carry the new id.  A
\* TWAP is registered on chain, where its nonce is spent; of partial orders the
\* code does not say.
Service(replaces, checksNonce, names) ==
  [replaces |-> replaces, checksNonce |-> checksNonce, names |-> names]

PartialOrders ==
  {Service(TRUE, FALSE, TRUE), Service(TRUE, TRUE, TRUE), Service(TRUE, TRUE, FALSE)}
Twaps == {Service(FALSE, TRUE, TRUE)}

VARIABLES
  venue,      \* which service it is
  \* the service (external)
  origin,     \* the signed order behind each id handed out
  live,       \* ids of the orders kept
  wire,       \* requests given up by the client that may still arrive
  \* the calls
  orderPc,
  request,    \* the request each task is making
  made,       \* calls made
  issued,     \* orders signed
  replacing,  \* those signed to replace another
  \* what the callers were told
  handle,     \* the id returned for each signed order
  confirmed,  \* signed orders reported as stored
  withdrawn   \* ids reported as cancelled

serviceVars == <<venue, origin, live, wire>>
toldVars == <<handle, confirmed, withdrawn>>
ordersVars == <<venue, origin, live, wire, orderPc, request, made, issued, replacing,
                handle, confirmed, withdrawn>>

Ids == DOMAIN origin

Requests ==
  [op : {"create", "replace", "cancel"}, id : Nat, intent : Intents \cup {None},
   try : 0..OrderRetries]

OrdersTypeOK ==
  /\ venue \in PartialOrders \cup Twaps
  /\ origin \in Seq(Intents)
  /\ live \subseteq Ids
  /\ wire \subseteq Requests
  /\ orderPc \in [Tasks -> {"idle", "sent"}]
  /\ request \in [Tasks -> Requests]
  /\ made \in 0..MaxOrderCalls
  /\ issued \in 0..MaxIntents
  /\ replacing \subseteq Intents
  /\ handle \in [Intents -> Nat]
  /\ confirmed \subseteq Intents
  /\ withdrawn \subseteq Ids

NoRequest == [op |-> "cancel", id |-> None, intent |-> None, try |-> 0]

OrdersInit ==
  /\ venue \in PartialOrders \cup Twaps
  /\ origin = <<>>
  /\ live = {}
  /\ wire = {}
  /\ orderPc = [t \in Tasks |-> "idle"]
  /\ request = [t \in Tasks |-> NoRequest]
  /\ made = 0
  /\ issued = 0
  /\ replacing = {}
  /\ handle = [i \in Intents |-> None]
  /\ confirmed = {}
  /\ withdrawn = {}

-----------------------------------------------------------------------------
(* The service *)

Unseen(i) == \A n \in Ids : origin[n] # i

Takes(r) ==
  /\ r.op # "create" => r.id \in live
  /\ r.op # "cancel" /\ venue.checksNonce => Unseen(r.intent)

NewId == Len(origin) + 1

\* The service handles a request; one that it refuses changes nothing.
Handle(r) ==
  IF ~Takes(r) THEN UNCHANGED <<origin, live>>
  ELSE IF r.op = "cancel"
       THEN live' = live \ {r.id} /\ UNCHANGED origin
       ELSE live' = (live \ {r.id}) \cup {NewId} /\ origin' = Append(origin, r.intent)

Arrives(r) ==
  /\ r \in wire
  /\ Handle(r)
  /\ wire' = wire \ {r}
  /\ UNCHANGED <<venue, orderPc, request, made, issued, replacing, toldVars>>

\* The order executes, or its position closes.
Executes(n) ==
  /\ n \in live
  /\ live' = live \ {n}
  /\ UNCHANGED <<venue, origin, wire, orderPc, request, made, issued, replacing, toldVars>>

-----------------------------------------------------------------------------
(* The calls *)

\* An id that the caller may pass: one the service gave, in an answer or in the
\* position's price_triggers, where the global levels stand too.
Targets(op) ==
  CASE op = "create"  -> {None}
    [] op = "replace" -> Ids \cup {n \in {Global} : venue.replaces}
    [] op = "cancel"  -> Ids \cup {None} \cup {n \in {Global} : venue.replaces}

\* _require_partial_entity_id and the check for a missing entityId.
Rejects(op, id) == id = Global \/ (op = "cancel" /\ id = None)

\* The intent is built and signed and the request sent.  What fails before
\* that, a check or a request of the builder, ends the call with nothing sent.
Call(t, op) ==
  /\ orderPc[t] = "idle"
  /\ made < MaxOrderCalls
  /\ made' = made + 1
  /\ op = "replace" => venue.replaces
  /\ \E id \in Targets(op) :
       /\ ~Rejects(op, id)
       /\ IF op = "cancel" THEN UNCHANGED issued
          ELSE issued < MaxIntents /\ issued' = issued + 1
       /\ replacing' = IF op = "replace" THEN replacing \cup {issued + 1} ELSE replacing
       /\ request' = [request EXCEPT ![t] =
            [op |-> op, id |-> id, intent |-> IF op = "cancel" THEN None ELSE issued + 1,
             try |-> 0]]
  /\ orderPc' = [orderPc EXCEPT ![t] = "sent"]
  /\ UNCHANGED <<serviceVars, toldVars>>

\* Mutant: the id of an updated order is taken to be the one it was passed.
KeptId(r) == IF r.op = "replace" THEN r.id ELSE IF venue.names THEN NewId ELSE None

\* The id that the call returns.
ReturnedId(r) ==
  IF venue.names THEN NewId ELSE IF r.op = "replace" THEN r.id ELSE None

Answered(t) ==
  LET r == request[t] IN
  /\ orderPc[t] = "sent"
  /\ Handle(r)
  /\ IF ~Takes(r) THEN UNCHANGED toldVars
     ELSE IF r.op = "cancel"
          THEN withdrawn' = withdrawn \cup {r.id} /\ UNCHANGED <<handle, confirmed>>
          ELSE /\ confirmed' = confirmed \cup {r.intent}
               /\ handle' = [handle EXCEPT ![r.intent] = ReturnedId(r)]
               /\ UNCHANGED withdrawn
  /\ orderPc' = [orderPc EXCEPT ![t] = "idle"]
  /\ request' = [request EXCEPT ![t] = NoRequest]
  /\ UNCHANGED <<venue, wire, made, issued, replacing>>

\* A request without a usable answer was handled, is not, or will be.  One that
\* the service would refuse now it refuses for ever, so it need not be kept.
Unanswered(r) ==
  \/ Handle(r) /\ UNCHANGED wire
  \/ UNCHANGED <<origin, live, wire>>
  \/ Takes(r) /\ Cardinality(wire) < MaxLate /\ wire' = wire \cup {r} /\ UNCHANGED <<origin, live>>

\* Mutant: the transport repeats once more than it is told.
RepeatsOnceMore(t) ==
  /\ orderPc[t] = "sent"
  /\ request[t].try <= OrderRetries
  /\ Unanswered(request[t])
  /\ request' = [request EXCEPT ![t].try = @ + 1]
  /\ UNCHANGED <<venue, orderPc, made, issued, replacing, toldVars>>

Repeats(t) ==
  /\ orderPc[t] = "sent"
  /\ request[t].try < OrderRetries
  /\ Unanswered(request[t])
  /\ request' = [request EXCEPT ![t].try = @ + 1]
  /\ UNCHANGED <<venue, orderPc, made, issued, replacing, toldVars>>

\* Mutant: a request that is not answered counts as done.
TakesSilenceForDone(t) ==
  /\ orderPc[t] = "sent"
  /\ request[t].try = OrderRetries
  /\ Unanswered(request[t])
  /\ orderPc' = [orderPc EXCEPT ![t] = "idle"]
  /\ withdrawn' = IF request[t].op = "cancel" THEN withdrawn \cup {request[t].id} ELSE withdrawn
  /\ confirmed' = IF request[t].op = "cancel" THEN confirmed ELSE confirmed \cup {request[t].intent}
  /\ request' = [request EXCEPT ![t] = NoRequest]
  /\ UNCHANGED <<venue, made, issued, replacing, handle>>

GivesUp(t) ==
  /\ orderPc[t] = "sent"
  /\ request[t].try = OrderRetries
  /\ Unanswered(request[t])
  /\ orderPc' = [orderPc EXCEPT ![t] = "idle"]
  /\ request' = [request EXCEPT ![t] = NoRequest]
  /\ UNCHANGED <<venue, made, issued, replacing, toldVars>>

\* Another error status, or a body that is not JSON: an ApiError at once.
ErrorStatus(t) ==
  /\ orderPc[t] = "sent"
  /\ Handle(request[t]) \/ UNCHANGED <<origin, live>>
  /\ orderPc' = [orderPc EXCEPT ![t] = "idle"]
  /\ request' = [request EXCEPT ![t] = NoRequest]
  /\ UNCHANGED <<venue, wire, made, issued, replacing, toldVars>>

CallStep(t) == Answered(t) \/ Repeats(t) \/ GivesUp(t) \/ ErrorStatus(t)

\* No task makes another call.
Quiet ==
  /\ made = MaxOrderCalls \/ issued = MaxIntents
  /\ \A t \in Tasks : orderPc[t] = "idle"
  /\ UNCHANGED ordersVars

OrdersNext ==
  \/ \E t \in Tasks, op \in {"create", "replace", "cancel"} : Call(t, op)
  \/ \E t \in Tasks : CallStep(t)
  \/ \E r \in wire : Arrives(r)
  \/ \E n \in live : Executes(n)
  \/ Quiet

OrdersSpec == OrdersInit /\ [][OrdersNext]_ordersVars

-----------------------------------------------------------------------------
(* Properties *)

\* The POST of a signed order is repeated although the first may have been
\* taken (transport.py:65).  The order is stored once where its nonce is
\* checked, and otherwise no more often than the POST was sent; a replacement,
\* whose target is gone after the first PUT, once in either case.
Copies(i) == Cardinality({n \in Ids : origin[n] = i})
CopiesBounded ==
  \A i \in Intents :
    Copies(i) <= IF venue.checksNonce \/ i \in replacing THEN 1 ELSE OrderRetries + 1

\* "the returned dict's entityId is the replacement's id; adopt it"
\* (trading/api.py:808): an id returned with success is that of the order the
\* call signed, whatever was repeated and whatever other tasks did.
HandleNamesItsOrder ==
  venue.names => \A i \in confirmed : handle[i] \in Ids /\ origin[handle[i]] = i

\* With nonces checked, the calls of all tasks implement the order book.
StateOf(i) ==
  IF \E n \in live : origin[n] = i THEN "live"
  ELSE IF Unseen(i) THEN "unborn" ELSE "gone"

Book == INSTANCE OrderBook WITH
  state <- [i \in Intents |-> StateOf(i)],
  withdrawn <- {origin[n] : n \in withdrawn}

ImplementsOrderBook ==
  /\ Book!Init
  /\ [][venue.checksNonce => Book!Next]_<<Book!vars>>

=============================================================================
