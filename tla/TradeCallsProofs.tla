-------------------------- MODULE TradeCallsProofs --------------------------
(***************************************************************************)
(* Theorems of TradeCalls: whatever method is called, in either mode and   *)
(* with any combination of addresses, keys and permissions, the message    *)
(* that leaves the client may be sent by the key that signs it, is of the  *)
(* order type its pair takes, and closes the position it names.            *)
(***************************************************************************)
EXTENDS TradeCalls, TLAPS

\* Nothing is asked for or sent before a call is made, and a method that is
\* called is one of those listed.
BeginInv ==
  /\ pc = "idle" => intent = NoIntent /\ legs = [leg \in Legs |-> "unasked"]
  /\ pc \notin {"idle", "returned"} => call.method \in Methods
  /\ pc \in {"resolve", "price"} => call.method \in PairCalls

\* What passed the guards on the way: a call as oneself is made by oneself, and
\* a limit order is placed on a plain pair.
GuardInv ==
  /\ pc \in {"build", "submit"} /\ call.method \in OwnCalls => delegate_param = None
  /\ pc \in {"price", "build", "submit"} => NotUpside

\* An intent is asked for by the calls that send one, and is that of the call.
IntentInv ==
  /\ legs["intent"] # "unasked" => call.method \in MarketCalls \union WithSigCalls
  /\ intent # NoIntent =>
       /\ call.method \in MarketCalls \union WithSigCalls
       /\ intent.kind = IntentKind(call.method)
       /\ intent.account = ActsFor(call.method)
       /\ call.method \in CloseCalls /\ call.opened # 0 => intent.opened = call.opened

CallInv == BeginInv /\ GuardInv /\ IntentInv

\* The message of a market order is signed by the trader or by the delegate that
\* the delegation was verified for.
MarketSender ==
  IF RelayerMode
  THEN sent.key = sent.account \/ (sent.key = "delegate" /\ delegate_param # None)
  ELSE IF sent.tx.delegate = None
       THEN sent.tx.account = config.signer
       ELSE sent.tx.delegate = config.signer /\ delegate_param # None

SentInv ==
  /\ pc # "returned" => sent = NoMessage /\ closed = NoClose
  /\ sent # NoMessage /\ call.method \in MarketCalls => MarketSender
  /\ sent.kind # None /\ call.method \in CloseCalls /\ call.opened # 0 =>
       sent.opened = call.opened

VerifiedInv == verified => (delegate_param # None => CanAct)

-----------------------------------------------------------------------------
(* Types *)

LEMMA TypeInit == Init => TypeOK
<1> SUFFICES ASSUME Init PROVE TypeOK
  OBVIOUS
<1>1. /\ opened \in 1..MaxOpened
      /\ call \in [method : Methods \union {None}, upside : BOOLEAN,
                   opened : 0..MaxOpened]
      /\ closed \in [opened : 0..MaxOpened, leg : Legs \union {None}]
  BY MaxOpenedAssumption DEF Init, NoCall, NoClose
<1>2. /\ intent.account \in Addresses \union {None}
      /\ intent.opened \in 0..MaxOpened
      /\ sent.tx.account \in Addresses \union {None}
      /\ sent.opened \in 0..MaxOpened
  BY MaxOpenedAssumption DEF Init, NoIntent, NoMessage, NoTx
<1>3. /\ legs \in [Legs -> {"unasked", "asked", "built"}]
      /\ price \in [bytes : {None, "pro", "core"}, sourcing : {0, 1}]
      /\ outcome \in Outcomes
  BY DEF Init, NoPrice, Outcomes
<1> QED
  BY <1>1, <1>2, <1>3 DEF Init, TypeOK
LEMMA TypeStep == TypeOK /\ [Next]_vars => TypeOK'
<1> SUFFICES ASSUME TypeOK, [Next]_vars PROVE TypeOK'
  OBVIOUS
<1> USE DEF TypeOK
<1>1. CASE UNCHANGED vars
  BY <1>1 DEF vars
<1>2. CASE Revokes
  <2>1. grants' \in SUBSET {"sign", "act"}
    <3>1. grants' = {}
      BY <1>2 DEF Revokes
    <3> QED
      BY <3>1
  <2>2. verified' \in BOOLEAN
    BY <1>2 DEF Revokes
  <2>3. UNCHANGED <<external, opened, closed>>
    BY <1>2 DEF Revokes
  <2> QED
    BY <2>1, <2>2, <2>3 DEF external
<1>3. CASE Reopens
  BY <1>3, MaxOpenedAssumption DEF Reopens, external
<1>4. CASE Closes
  BY <1>4 DEF Closes, external, Legs
<1>5. CASE verify_delegation
  BY <1>5 DEF verify_delegation, Return, Outcomes
<1>6. ASSUME NEW method \in Methods, NEW upside \in BOOLEAN, NEW stamp \in {0, opened},
             Calls(method, upside, stamp)
      PROVE  TypeOK'
  BY <1>6, MaxOpenedAssumption DEF Calls, Return, Outcomes, Legs
<1>7. CASE Resolved
  BY <1>7 DEF Resolved, Return, AskFor, Outcomes, Legs
<1>8. CASE Unresolved
  BY <1>8 DEF Unresolved, Return, Outcomes
<1>9. ASSUME NEW pro \in {"absent", "bare", "signed"},
             NEW core \in {"absent", "bare", "signed"}, PriceRead(pro, core)
      PROVE  TypeOK'
  BY <1>9 DEF PriceRead, FreshPrice, NoPrice, AskFor, Legs, None
<1>10. ASSUME NEW leg \in Legs, NEW drifted \in BOOLEAN, LegBuilt(leg, drifted)
       PROVE  TypeOK'
  BY <1>10, MaxOpenedAssumption
     DEF LegBuilt, Legs, ActsFor, caller, trader, Stamp, Addresses
<1>11. ASSUME NEW leg \in Legs, LegFails(leg)
       PROVE  TypeOK'
  BY <1>11 DEF LegFails, Return, Outcomes, Legs
<1>12. CASE Submits
  BY <1>12 DEF Submits, Return, Refusal, Outcomes, Message, ActsFor, caller, trader,
               Addresses, None
<1>13. CASE SubmitFails
  BY <1>13 DEF SubmitFails, Return, Outcomes
<1>14. CASE Finished
  BY <1>14 DEF Finished, vars
<1> QED
  BY <1>1, <1>2, <1>3, <1>4, <1>5, <1>6, <1>7, <1>8, <1>9, <1>10, <1>11, <1>12,
     <1>13, <1>14 DEF Next, Client

\* The call and the message it ends with are well formed, whatever the method,
\* its arguments and the answers it gets (trading/api.py).
THEOREM TypeCorrect == Spec => []TypeOK
  BY TypeInit, TypeStep, PTL DEF Spec

-----------------------------------------------------------------------------
(* From the call to its message *)

\* The classes of methods do not meet.
LEMMA Classes ==
  ASSUME NEW method \in Methods
  PROVE  /\ method \in PairCalls => method \notin OwnCalls \union WithSigCalls
         /\ method \in OwnCalls => method \notin PairCalls \union WithSigCalls
         /\ method \in LpCalls \union ReferralCalls => method \in OwnCalls
         /\ method \in PairCalls \/ method \in OwnCalls \/ method \in WithSigCalls
  BY DEF Methods, PairCalls, MarketCalls, CalldataCalls, OwnCalls, AccountCalls,
         LpCalls, ReferralCalls, WithSigCalls, GaslessReferralCalls

\* Market orders, and they alone, have an intent of the batched market.
LEMMA Kinds ==
  ASSUME NEW method \in MarketCalls \union WithSigCalls
  PROVE  /\ IntentKind(method) # None
         /\ IntentKind(method) \in BATCHED_MARKET_INTENT_KINDS <=> method \in MarketCalls
  BY DEF IntentKind, MarketCalls, WithSigCalls, GaslessReferralCalls,
         BATCHED_MARKET_INTENT_KINDS, None

\* The order type that goes with the intent.
LEMMA Types ==
  ASSUME NEW method \in MarketCalls, NEW upside \in BOOLEAN
  PROVE  /\ OrderType(method, upside) \in TypesOfKind(IntentKind(method))
         /\ OrderType(method, upside) \in PnlTypes <=>
              /\ upside
              /\ IntentKind(method) \notin {"IncreasePositionSizeReq",
                                           "IncreasePositionSizeWithCoinExposureReq"}
  BY DEF MarketCalls, OrderType, TypesOfKind, IntentKind, PnlTypes

\* An order is the trader's.
LEMMA OrdersAreTheTraders ==
  ASSUME NEW method \in PairCalls
  PROVE  ActsFor(method) = trader
<1>1. method \notin LpCalls \union ReferralCalls \union GaslessReferralCalls
  BY Classes DEF Methods, WithSigCalls
<1> QED
  BY <1>1 DEF ActsFor

LEMMA CallStep == TypeOK /\ CallInv /\ [Next]_vars => CallInv'
<1> SUFFICES ASSUME TypeOK, CallInv, [Next]_vars PROVE CallInv'
  OBVIOUS
<1> USE DEF CallInv, BeginInv, GuardInv, IntentInv, NotUpside, delegate_param, ActsFor,
            trader, caller
<1>1. CASE UNCHANGED vars
  BY <1>1 DEF vars
<1>2. CASE Revokes \/ Reopens \/ Closes
  BY <1>2 DEF Revokes, Reopens, Closes, external
<1>3. CASE verify_delegation
  BY <1>3 DEF verify_delegation, Return, Legs
<1>4. ASSUME NEW method \in Methods, NEW upside \in BOOLEAN, NEW stamp \in {0, opened},
             Calls(method, upside, stamp)
      PROVE  CallInv'
  BY <1>4, Classes DEF Calls, Return, CallerIsSigner, Legs
<1>5. CASE Resolved
  <2>1. /\ pc = "resolve"
        /\ UNCHANGED <<call, intent, config>>
        /\ call.method \in PairCalls
        /\ call.method \notin OwnCalls
    BY <1>5, Classes DEF Resolved
  <2>2. BeginInv'
    BY <1>5, <2>1 DEF Resolved, Return, AskFor
  <2>3. GuardInv'
    BY <1>5, <2>1 DEF Resolved, Return, AskFor
  <2>4. legs'["intent"] # "unasked" => call.method \in MarketCalls
    <3>1. CASE legs' = legs
      BY <2>1, <3>1, Classes
    <3>2. CASE \E wanted \in SUBSET Legs :
                 /\ wanted = LegsOf(call.method)
                 /\ legs' = [leg \in Legs |-> IF leg \in wanted THEN "asked" ELSE "unasked"]
      BY <3>2 DEF LegsOf, Legs
    <3> QED
      BY <1>5, <3>1, <3>2 DEF Resolved, AskFor, LegsOf, Legs
  <2>5. IntentInv'
    BY <2>1, <2>4
  <2> QED
    BY <2>2, <2>3, <2>5
<1>11. CASE Unresolved
  BY <1>11 DEF Unresolved, Return
<1>6. ASSUME NEW pro \in {"absent", "bare", "signed"},
             NEW core \in {"absent", "bare", "signed"}, PriceRead(pro, core)
      PROVE  CallInv'
  <2>1. /\ pc = "price"
        /\ UNCHANGED <<call, intent, config>>
        /\ call.method \in PairCalls
        /\ call.method \notin OwnCalls
    BY <1>6, Classes DEF PriceRead
  <2>2. pc' = "build" /\ legs'["intent"] = "unasked"
    BY <1>6 DEF PriceRead, AskFor, Legs
  <2> QED
    BY <2>1, <2>2
<1>7. ASSUME NEW leg \in Legs, NEW drifted \in BOOLEAN, LegBuilt(leg, drifted)
      PROVE  CallInv'
  BY <1>7 DEF LegBuilt, Stamp, Legs
<1>8. ASSUME NEW leg \in Legs, LegFails(leg)
      PROVE  CallInv'
  BY <1>8 DEF LegFails, Return, Legs
<1>9. CASE Submits \/ SubmitFails
  BY <1>9 DEF Submits, SubmitFails, Return
<1>10. CASE Finished
  BY <1>10 DEF Finished, vars
<1> QED
  BY <1>1, <1>2, <1>3, <1>4, <1>5, <1>6, <1>7, <1>8, <1>9, <1>10, <1>11
     DEF Next, Client

LEMMA CallInit == Init => CallInv
<1>1. Init => legs["intent"] = "unasked"
  BY DEF Init, Legs
<1> QED
  BY <1>1 DEF Init, CallInv, BeginInv, GuardInv, IntentInv

-----------------------------------------------------------------------------
(* The message *)

\* What leaves a call that was not refused.
LEMMA MessageFacts ==
  ASSUME TypeOK, CallInv, pc = "submit", Refusal = None
  PROVE  /\ config.signer # None
         /\ call.method \in Methods
         /\ Batched => intent # NoIntent
         /\ Message.key = None <=> Message.kind = None
         /\ Message.kind # None =>
              /\ call.method \in MarketCalls \union WithSigCalls
              /\ Message.kind = IntentKind(call.method)
              /\ Message.key = SigningKey
              /\ Message.account = ActsFor(call.method)
              /\ call.method \in CloseCalls /\ call.opened # 0 =>
                   Message.opened = call.opened
         /\ Message.kind = None => Message.account = None
<1>1. config.signer # None /\ call.method \in Methods /\ Routable
  BY DEF Refusal, CallInv, BeginInv, None
<1>2. Batched => intent # NoIntent
  BY <1>1 DEF Routable, NoIntent, BATCHED_MARKET_INTENT_KINDS, None
<1>3. intent # NoIntent =>
        /\ call.method \in MarketCalls \union WithSigCalls
        /\ intent.kind = IntentKind(call.method)
        /\ intent.kind # None
        /\ intent.account = ActsFor(call.method)
        /\ call.method \in CloseCalls /\ call.opened # 0 => intent.opened = call.opened
  BY Kinds DEF CallInv, IntentInv
<1>4. intent = NoIntent => intent.kind = None /\ intent.account = None
  BY DEF NoIntent
<1>5. intent # NoIntent => SigningKey # None
  BY <1>1 DEF SigningKey, trader
<1> QED
  BY <1>1, <1>2, <1>3, <1>4, <1>5 DEF Message

\* The message as the key that signs it and the account it acts for have it.
LEMMA SenderStep ==
  ASSUME TypeOK, CallInv, pc = "submit", Refusal = None, sent' = Message,
         UNCHANGED <<config, call>>
  PROVE  SenderMayAct' /\ ((call.method \in MarketCalls => MarketSender)')
<1> USE MessageFacts
<1>1. /\ sent'.tx.delegate = Wrapped
      /\ sent'.tx.account = IF call.method \in WithSigCalls THEN config.signer
                                                          ELSE ActsFor(call.method)
      /\ sent'.key = Message.key
      /\ sent'.kind = Message.kind
      /\ sent'.account = Message.account
  BY DEF Message
<1>2. config.signer \in Addresses /\ config.trader \in {None, "trader"}
  BY DEF TypeOK
<1>3. call.method \in PairCalls =>
        /\ ActsFor(call.method) = trader
        /\ call.method \notin OwnCalls \union WithSigCalls
  BY Classes, OrdersAreTheTraders
<1>4. delegate_param = None => trader = config.signer
  BY <1>2 DEF delegate_param, trader, Addresses, None
<1>5. delegate_param # None => delegate_param = config.signer /\ trader # config.signer
  BY <1>2 DEF delegate_param, trader, Addresses, None
<1>6. Wrapped = None => sent'.tx.account = config.signer
  <2>1. CASE call.method \in PairCalls
    BY <1>1, <1>3, <1>4, <2>1 DEF Wrapped
  <2>2. CASE call.method \in OwnCalls
    <3>1. ActsFor(call.method) = config.signer
      BY <1>4, <2>2 DEF CallInv, GuardInv, ActsFor, caller
    <3> QED
      BY <1>1, <2>2, <3>1, Classes
  <2>3. CASE call.method \in WithSigCalls
    BY <1>1, <2>3
  <2> QED
    BY <2>1, <2>2, <2>3, Classes
<1>7. Wrapped # None =>
        /\ Wrapped = config.signer
        /\ sent'.tx.account # config.signer
        /\ call.method \notin OwnCalls \union WithSigCalls
  BY <1>1, <1>3, <1>5 DEF Wrapped
<1>8. sent'.kind \notin BATCHED_MARKET_INTENT_KINDS => sent'.key = sent'.account
  <2>1. ASSUME Message.kind # None, call.method \in WithSigCalls
        PROVE  SigningKey = ActsFor(call.method)
    BY <2>1 DEF SigningKey, ActsFor, caller, WithSigCalls, GaslessReferralCalls, LpCalls,
                ReferralCalls
  <2> QED
    BY <1>1, <2>1, Kinds
<1>9. SenderMayAct'
  BY <1>1, <1>6, <1>7, <1>8 DEF SenderMayAct
<1>10. ASSUME call.method \in MarketCalls
      PROVE  MarketSender'
  <2>1. call.method \in PairCalls
    BY <1>10 DEF PairCalls
  <2>2. CASE RelayerMode
    <3>1. sent'.key = SigningKey /\ sent'.account = trader
      BY <1>1, <1>3, <1>10, <2>1, <2>2, Kinds DEF Batched, Message, CallInv, IntentInv
    <3>2. SigningKey = config.signer
      BY <1>10 DEF SigningKey, MarketCalls
    <3>3. config.signer = trader \/ (config.signer = "delegate" /\ delegate_param # None)
      BY <1>2, <1>4 DEF Addresses, trader
    <3> QED
      BY <2>2, <3>1, <3>2, <3>3 DEF MarketSender, RelayerMode, delegate_param
  <2>3. CASE ~RelayerMode
    BY <1>1, <1>6, <1>7, <2>1, <2>3 DEF MarketSender, RelayerMode, Wrapped, delegate_param
  <2> QED
    BY <2>2, <2>3
<1> QED
  BY <1>9, <1>10

LEMMA OrderStep ==
  ASSUME TypeOK, CallInv, pc = "submit", Refusal = None, sent' = Message,
         UNCHANGED call
  PROVE  OrderFitsPair'
<1>1. /\ sent'.route = Route
      /\ sent'.type = IF Batched THEN OrderType(call.method, call.upside) ELSE None
      /\ sent'.kind = Message.kind
  BY DEF Message
<1>2. Route = "batched-market" <=> Batched
  BY DEF Route
<1>3. call.upside \in BOOLEAN
  BY DEF TypeOK
<1>4. ~(call.method = "limit_open" /\ call.upside)
  BY DEF CallInv, GuardInv, NotUpside
<1>5. CASE Batched
  <2>1. call.method \in MarketCalls /\ sent'.kind = IntentKind(call.method)
    BY <1>1, <1>5, MessageFacts DEF Batched, Message, CallInv, IntentInv
  <2> QED
    BY <1>1, <1>2, <1>3, <1>4, <1>5, <2>1, Types DEF OrderFitsPair
<1>6. CASE ~Batched
  BY <1>1, <1>2, <1>4, <1>6 DEF OrderFitsPair, PnlTypes, None
<1> QED
  BY <1>5, <1>6

-----------------------------------------------------------------------------
(* Every step *)

MessageInv == SentInv /\ SenderMayAct /\ OrderFitsPair

IInv == TypeOK /\ CallInv /\ MessageInv /\ BoundCloseHitsItsPosition /\ VerifiedInv

\* What the steps other than the submission leave alone.
Keeps ==
  /\ UNCHANGED <<config, sent>>
  /\ pc = "returned" => pc' = "returned"
  /\ call' = call \/ pc = "idle"

LEMMA KeepsMessage == MessageInv /\ Keeps /\ UNCHANGED closed => MessageInv'
<1> SUFFICES ASSUME MessageInv, Keeps, UNCHANGED closed PROVE MessageInv'
  OBVIOUS
<1>1. CASE pc = "idle"
  <2>1. sent' = NoMessage /\ closed' = NoClose
    BY <1>1 DEF MessageInv, SentInv, Keeps
  <2> QED
    BY <2>1 DEF MessageInv, SentInv, SenderMayAct, OrderFitsPair, NoMessage
<1>2. CASE pc # "idle"
  BY <1>2 DEF MessageInv, SentInv, SenderMayAct, OrderFitsPair, Keeps, MarketSender,
              RelayerMode, delegate_param
<1> QED
  BY <1>1, <1>2

LEMMA StepKeeps ==
  ASSUME [Next]_vars, ~Submits, ~Closes
  PROVE  Keeps /\ UNCHANGED closed
<1> USE DEF Keeps
<1>1. CASE UNCHANGED vars \/ Finished
  BY <1>1 DEF vars, Finished
<1>2. CASE Revokes \/ Reopens
  BY <1>2 DEF Revokes, Reopens, external
<1>3. CASE verify_delegation
  BY <1>3 DEF verify_delegation
<1>4. ASSUME NEW method \in Methods, NEW upside \in BOOLEAN, NEW stamp \in {0, opened},
             Calls(method, upside, stamp)
      PROVE  Keeps /\ UNCHANGED closed
  BY <1>4 DEF Calls
<1>5. CASE Resolved \/ Unresolved
  BY <1>5 DEF Resolved, Unresolved
<1>6. ASSUME NEW pro \in {"absent", "bare", "signed"},
             NEW core \in {"absent", "bare", "signed"}, PriceRead(pro, core)
      PROVE  Keeps /\ UNCHANGED closed
  BY <1>6 DEF PriceRead
<1>7. ASSUME NEW leg \in Legs, NEW drifted \in BOOLEAN, LegBuilt(leg, drifted)
      PROVE  Keeps /\ UNCHANGED closed
  BY <1>7 DEF LegBuilt
<1>8. ASSUME NEW leg \in Legs, LegFails(leg)
      PROVE  Keeps /\ UNCHANGED closed
  BY <1>8 DEF LegFails
<1>9. CASE SubmitFails
  BY <1>9 DEF SubmitFails, Return
<1> QED
  BY <1>1, <1>2, <1>3, <1>4, <1>5, <1>6, <1>7, <1>8, <1>9 DEF Next, Client

LEMMA MessageStep ==
  TypeOK /\ CallInv /\ MessageInv /\ [Next]_vars => MessageInv'
<1> SUFFICES ASSUME TypeOK, CallInv, MessageInv, [Next]_vars PROVE MessageInv'
  OBVIOUS
<1>1. CASE Submits
  <2>1. pc = "submit" /\ UNCHANGED <<config, call, closed>> /\ pc' = "returned"
    BY <1>1 DEF Submits, Return
  <2>2. CASE Refusal = None
    <3>1. sent' = Message
      BY <1>1, <2>2 DEF Submits
    <3>2. SenderMayAct' /\ ((call.method \in MarketCalls => MarketSender)')
      BY <2>1, <2>2, <3>1, SenderStep
    <3>3. OrderFitsPair'
      BY <2>1, <2>2, <3>1, OrderStep
    <3>4. sent'.kind # None /\ call'.method \in CloseCalls /\ call'.opened # 0 =>
            sent'.opened = call'.opened
      BY <2>1, <2>2, <3>1, MessageFacts
    <3> QED
      BY <2>1, <3>2, <3>3, <3>4 DEF MessageInv, SentInv
  <2>3. CASE Refusal # None
    BY <1>1, <2>1, <2>3, KeepsMessage DEF Submits, Keeps
  <2> QED
    BY <2>2, <2>3
<1>2. CASE Closes
  <2>1. Keeps
    BY <1>2 DEF Closes, external, Keeps
  <2>2. sent # NoMessage
    BY <1>2 DEF Closes, NoMessage
  <2>3. pc = "returned"
    BY <2>2 DEF MessageInv, SentInv
  <2> QED
    BY <1>2, <2>1, <2>3 DEF Closes, external, Keeps, MessageInv, SentInv, SenderMayAct,
                            OrderFitsPair, MarketSender, RelayerMode, delegate_param
<1>3. CASE ~Submits /\ ~Closes
  BY <1>3, StepKeeps, KeepsMessage
<1> QED
  BY <1>1, <1>2, <1>3

LEMMA CloseStep ==
  MessageInv /\ BoundCloseHitsItsPosition /\ [Next]_vars => BoundCloseHitsItsPosition'
<1> SUFFICES ASSUME MessageInv, BoundCloseHitsItsPosition, [Next]_vars
             PROVE  BoundCloseHitsItsPosition'
  OBVIOUS
<1>1. CASE Closes
  BY <1>1 DEF Closes, external, MessageInv, SentInv, BoundCloseHitsItsPosition
<1>2. CASE Submits
  BY <1>2 DEF Submits, BoundCloseHitsItsPosition
<1>3. CASE ~Submits /\ ~Closes
  <2>1. Keeps /\ UNCHANGED closed
    BY <1>3, StepKeeps
  <2>2. pc = "idle" => closed = NoClose
    BY DEF MessageInv, SentInv
  <2>3. NoClose.leg # "intent"
    BY DEF NoClose, None
  <2> QED
    BY <2>1, <2>2, <2>3 DEF Keeps, BoundCloseHitsItsPosition
<1> QED
  BY <1>1, <1>2, <1>3

LEMMA VerifiedStep == VerifiedInv /\ [Next]_vars => VerifiedInv'
<1> SUFFICES ASSUME VerifiedInv, [Next]_vars PROVE VerifiedInv'
  OBVIOUS
<1>1. CASE Revokes
  BY <1>1 DEF Revokes, VerifiedInv
<1>2. CASE verify_delegation
  BY <1>2 DEF verify_delegation, VerifiedInv, CanAct, RelayerMode, delegate_param
<1>3. UNCHANGED <<config, grants, verified>> => VerifiedInv'
  BY DEF VerifiedInv, CanAct, RelayerMode, delegate_param
<1>4. ~Revokes /\ ~verify_delegation => UNCHANGED <<config, grants, verified>>
  BY DEF Next, Client, vars, Finished, Reopens, Closes, external, Calls, Resolved, Unresolved,
         PriceRead, LegBuilt, LegFails, Submits, SubmitFails
<1> QED
  BY <1>1, <1>2, <1>3, <1>4

LEMMA Inductive == Spec => []IInv
<1>1. Init => IInv
  <2> SUFFICES ASSUME Init PROVE IInv
    OBVIOUS
  <2>1. sent = NoMessage /\ closed = NoClose /\ verified = FALSE
    BY DEF Init
  <2>2. MessageInv
    BY <2>1 DEF MessageInv, SentInv, SenderMayAct, OrderFitsPair, NoMessage
  <2> QED
    BY <2>1, <2>2, TypeInit, CallInit
       DEF IInv, BoundCloseHitsItsPosition, VerifiedInv, NoClose, None
<1>2. IInv /\ [Next]_vars => IInv'
  BY TypeStep, CallStep, MessageStep, CloseStep, VerifiedStep DEF IInv
<1> QED
  BY <1>1, <1>2, PTL DEF Spec

-----------------------------------------------------------------------------
(* Theorems *)

\* A transaction leaves for the account that sends it, or wrapped for the
\* delegate that does; no call made as oneself leaves a delegate, and an intent
\* that only its account may sign is signed by it (base_api.py).
THEOREM SendersMayAct == Spec => []SenderMayAct
<1>1. IInv => SenderMayAct
  BY DEF IInv, MessageInv
<1> QED
  BY <1>1, Inductive, PTL

\* The order type that goes with an intent is one of that intent's, and a PnL
\* type exactly for opens and closes on an Upside pair (trading/api.py:348).
THEOREM OrdersFitTheirPair == Spec => []OrderFitsPair
<1>1. IInv => OrderFitsPair
  BY DEF IInv, MessageInv
<1> QED
  BY <1>1, Inductive, PTL

\* A close executed by its intent closes the position it names, however many
\* positions were opened at the index since (trading/api.py:308).
THEOREM BoundClosesHit == Spec => []BoundCloseHitsItsPosition
<1>1. IInv => BoundCloseHitsItsPosition
  BY DEF IInv
<1> QED
  BY <1>1, Inductive, PTL

\* After verify_delegation, and until a permission is revoked, the contract
\* takes the market orders of the key (account/api.py:128).
THEOREM VerifiedKeysMayTrade == Spec => []VerifiedMayTrade
<1>1. ASSUME IInv, verified, sent # NoMessage, call.method \in MarketCalls
      PROVE  IF RelayerMode THEN IntentAccepted ELSE TxAccepted
  <2>1. MarketSender /\ (delegate_param # None => CanAct)
    BY <1>1 DEF IInv, MessageInv, SentInv, VerifiedInv
  <2> QED
    BY <2>1 DEF MarketSender, CanAct, IntentAccepted, TxAccepted
<1>2. IInv => VerifiedMayTrade
  BY <1>1 DEF VerifiedMayTrade
<1> QED
  BY <1>2, Inductive, PTL
=============================================================================
