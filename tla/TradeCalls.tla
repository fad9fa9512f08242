----------------------------- MODULE TradeCalls -----------------------------
(***************************************************************************)
(* One call of the trading surface, from the method to the message that    *)
(* leaves the client: TradeApi (trading/api.py), the account, LP and       *)
(* referral namespaces, the base they share (base_api.py) and the guards   *)
(* of ExecutionEngine (execution/engine.py).  What becomes of the message  *)
(* on its route is in BatchedMarket, BlitzRelay and DirectSend.            *)
(*                                                                         *)
(* External: the tx-builder that encodes the order, the price feed, the    *)
(* contract with its delegations and the trader's position.                *)
(***************************************************************************)
EXTENDS Integers

CONSTANT MaxOpened  \* positions opened one after the other at the trade index

ASSUME MaxOpenedAssumption == MaxOpened \in Nat \ {0}

VARIABLES
  config,    \* execution mode, trader address, signing key, RPC; never changes
  grants,    \* what the contract lets the delegate do (external)
  opened,    \* open timestamp of the position at the trade index (external)
  \* the call
  pc,
  call,      \* its method and arguments
  legs,      \* the encodings of the order: asked for, built
  intent,    \* the intent payload built
  price,     \* the price update attached to the calldata
  outcome,
  \* history
  verified,  \* verify_delegation passed, and nothing was revoked since
  sent,      \* the message submitted
  closed     \* the position the contract closed for it, by which leg

vars == <<config, grants, opened, pc, call, legs, intent, price, outcome,
          verified, sent, closed>>

None == "none"
Addresses == {"trader", "delegate"}

-----------------------------------------------------------------------------
(* The methods *)

MarketCalls ==
  {"market_open", "market_open_coin", "market_close", "market_close_coin",
   "increase_position", "increase_position_coin"}

\* Orders that leave as calldata, which a delegate may wrap.
CalldataCalls ==
  {"limit_open", "update_limit_order", "cancel_limit_order", "update_margin",
   "rfq_open", "rfq_close"}

\* Calls that act as the trader's own address.
AccountCalls ==
  {"approve_usdc", "revoke_delegate", "claim_rebate", "claim_keeper_rewards",
   "add_to_buffer", "register_builder_code", "modify_builder_code"}

\* Calls that act as the signing key's address.
LpCalls == {"deposit", "mint", "withdraw", "redeem"}

ReferralCalls ==
  {"register_code", "set_code", "request_special_code", "cancel_request",
   "relinquish_code", "set_code_by_owner", "transfer_ownership",
   "accept_ownership"}

GaslessReferralCalls == {"register_code_gasless", "set_code_gasless"}

\* Calls that relay a signed intent inside a transaction anyone may send.
WithSigCalls == GaslessReferralCalls \union {"register_delegate"}

PairCalls == MarketCalls \union CalldataCalls
OwnCalls == AccountCalls \union LpCalls \union ReferralCalls
Methods == PairCalls \union OwnCalls \union WithSigCalls

CloseCalls == {"market_close", "market_close_coin"}

-----------------------------------------------------------------------------
(* Whose call it is *)

RelayerMode == config.mode = "relayer"

trader == IF config.trader # None THEN config.trader ELSE config.signer

delegate_param ==
  IF config.trader # None /\ config.signer # config.trader
  THEN config.signer
  ELSE None

\* caller of the LP and referral namespaces.
caller == config.signer

ActsFor(method) ==
  IF method \in LpCalls \union ReferralCalls \union GaslessReferralCalls
  THEN caller
  ELSE trader

\* Mutant: the guard compares nothing.
CallerIsSignerUnchecked(method) == TRUE

\* _require_caller_is_signer, which the calls made as oneself start with.
CallerIsSigner(method) == method \in OwnCalls => delegate_param = None

-----------------------------------------------------------------------------
(* Order types *)

\* Mutant: a close in coin units forgets the kind of the pair.
OrderTypeCoinClosePlain(method, upside) ==
  CASE method = "market_open"  -> IF upside THEN "MARKET_OPEN_PNL" ELSE "MARKET_OPEN"
    [] method = "market_close" -> IF upside THEN "MARKET_CLOSE_PNL" ELSE "MARKET_CLOSE"
    [] method = "market_open_coin" ->
         IF upside THEN "MARKET_OPEN_PNL_WITH_COIN_EXPOSURE"
                   ELSE "MARKET_OPEN_WITH_COIN_EXPOSURE"
    [] method = "market_close_coin" -> "MARKET_CLOSE_WITH_COIN_EXPOSURE"
    [] method = "increase_position" -> "INCREASE_SIZE"
    [] method = "increase_position_coin" -> "INCREASE_SIZE_WITH_COIN_EXPOSURE"
    [] OTHER -> None

\* The AggregatorOrderType each method submits its intent with.
OrderType(method, upside) ==
  CASE method = "market_open"  -> IF upside THEN "MARKET_OPEN_PNL" ELSE "MARKET_OPEN"
    [] method = "market_close" -> IF upside THEN "MARKET_CLOSE_PNL" ELSE "MARKET_CLOSE"
    [] method = "market_open_coin" ->
         IF upside THEN "MARKET_OPEN_PNL_WITH_COIN_EXPOSURE"
                   ELSE "MARKET_OPEN_WITH_COIN_EXPOSURE"
    [] method = "market_close_coin" ->
         IF upside THEN "MARKET_CLOSE_PNL_WITH_COIN_EXPOSURE"
                   ELSE "MARKET_CLOSE_WITH_COIN_EXPOSURE"
    [] method = "increase_position" -> "INCREASE_SIZE"
    [] method = "increase_position_coin" -> "INCREASE_SIZE_WITH_COIN_EXPOSURE"
    [] OTHER -> None

BATCHED_MARKET_ORDER_TYPES ==
  {"MARKET_OPEN", "MARKET_OPEN_PNL", "MARKET_OPEN_WITH_COIN_EXPOSURE",
   "MARKET_OPEN_PNL_WITH_COIN_EXPOSURE", "MARKET_CLOSE", "MARKET_CLOSE_PNL",
   "MARKET_CLOSE_WITH_COIN_EXPOSURE", "MARKET_CLOSE_PNL_WITH_COIN_EXPOSURE",
   "INCREASE_SIZE", "INCREASE_SIZE_WITH_COIN_EXPOSURE"}

BATCHED_MARKET_INTENT_KINDS ==
  {"OpenTradeReq", "OpenTradeCoinExposureReq", "CloseTradeReq",
   "CloseTradeCoinExposureReq", "IncreasePositionSizeReq",
   "IncreasePositionSizeWithCoinExposureReq"}

\* The primary type of the intent the tx-builder answers on a method's path.
IntentKind(method) ==
  CASE method = "market_open"            -> "OpenTradeReq"
    [] method = "market_open_coin"       -> "OpenTradeCoinExposureReq"
    [] method = "market_close"           -> "CloseTradeReq"
    [] method = "market_close_coin"      -> "CloseTradeCoinExposureReq"
    [] method = "increase_position"      -> "IncreasePositionSizeReq"
    [] method = "increase_position_coin" -> "IncreasePositionSizeWithCoinExposureReq"
    [] method = "register_delegate"      -> "DelegateReq"
    [] method = "register_code_gasless"  -> "RegisterCodeReq"
    [] method = "set_code_gasless"       -> "SetTraderReferralCodeByUserReq"
    [] OTHER -> None

-----------------------------------------------------------------------------
(* State *)

NoIntent == [kind |-> None, account |-> None, opened |-> 0, drifted |-> FALSE]
NoPrice == [bytes |-> None, sourcing |-> 0]
NoTx == [account |-> None, delegate |-> None]
NoMessage == [route |-> None, type |-> None, kind |-> None, key |-> None,
              account |-> None, opened |-> 0, tx |-> NoTx]
NoCall == [method |-> None, upside |-> FALSE, opened |-> 0]
NoClose == [opened |-> 0, leg |-> None]

Legs == {"intent", "calldata"}
Outcomes == {None, "submitted", "config_error", "validation_error", "api_error",
             "digest_mismatch", "delegation_error"}

TypeOK ==
  /\ config \in [mode : {"relayer", "direct"}, trader : {None, "trader"},
                 signer : Addresses \union {None}, rpc : BOOLEAN]
  /\ grants \in SUBSET {"sign", "act"}
  /\ opened \in 1..MaxOpened
  /\ pc \in {"idle", "resolve", "price", "build", "submit", "returned"}
  /\ call \in [method : Methods \union {None}, upside : BOOLEAN,
               opened : 0..MaxOpened]
  /\ legs \in [Legs -> {"unasked", "asked", "built"}]
  /\ intent.account \in Addresses \union {None}
  /\ intent.opened \in 0..MaxOpened
  /\ price \in [bytes : {None, "pro", "core"}, sourcing : {0, 1}]
  /\ outcome \in Outcomes
  /\ verified \in BOOLEAN
  /\ sent.tx.account \in Addresses \union {None}
  /\ sent.opened \in 0..MaxOpened
  /\ closed \in [opened : 0..MaxOpened, leg : Legs \union {None}]

Init ==
  /\ config \in [mode : {"relayer", "direct"}, trader : {None, "trader"},
                 signer : Addresses \union {None}, rpc : BOOLEAN]
  /\ grants \in SUBSET {"sign", "act"}
  /\ opened = 1
  /\ pc = "idle"
  /\ call = NoCall
  /\ legs = [leg \in Legs |-> "unasked"]
  /\ intent = NoIntent
  /\ price = NoPrice
  /\ outcome = None
  /\ verified = FALSE
  /\ sent = NoMessage
  /\ closed = NoClose

Return(how) ==
  /\ pc' = "returned"
  /\ outcome' = how

-----------------------------------------------------------------------------
(* The contract *)

external == <<config, call, pc, legs, intent, price, outcome, sent>>

Revokes ==
  /\ grants # {}
  /\ grants' = {}
  /\ verified' = FALSE
  /\ UNCHANGED <<external, opened, closed>>

\* The position is closed by its stop loss, say, and another is opened.
Reopens ==
  /\ opened < MaxOpened
  /\ opened' = opened + 1
  /\ UNCHANGED <<external, grants, verified, closed>>

IntentAccepted ==
  sent.key = sent.account \/ (sent.key = "delegate" /\ "sign" \in grants)

TxAccepted ==
  IF sent.tx.delegate = None
  THEN sent.tx.account = config.signer
  ELSE sent.tx.delegate = config.signer /\ "act" \in grants

\* The close is executed: by the signed intent, which names the position it is
\* for, or by the transaction, as the service chooses.
Closes ==
  /\ call.method \in CloseCalls
  /\ closed = NoClose
  /\ \/ /\ sent.kind # None
        /\ IntentAccepted
        /\ sent.opened = opened
        /\ closed' = [opened |-> opened, leg |-> "intent"]
     \/ /\ sent.tx # NoTx
        /\ TxAccepted
        /\ closed' = [opened |-> opened, leg |-> "calldata"]
  /\ UNCHANGED <<external, grants, opened, verified>>

-----------------------------------------------------------------------------
(* verify_delegation *)

\* Mutant: either permission will do.
CanActEitherWay == grants # {}

CanAct == IF RelayerMode THEN "sign" \in grants ELSE "act" \in grants

verify_delegation ==
  /\ pc = "idle"
  /\ verified' = (delegate_param # None => CanAct)
  /\ IF verified' THEN UNCHANGED <<pc, outcome>> ELSE Return("delegation_error")
  /\ UNCHANGED <<config, grants, opened, call, legs, intent, price, sent, closed>>

-----------------------------------------------------------------------------
(* The call *)

\* What a call does before it first awaits; a close may name the position that
\* its caller has looked up.
Calls(method, upside, stamp) ==
  /\ pc = "idle"
  /\ upside => method \in PairCalls
  /\ stamp # 0 => method \in CloseCalls
  /\ call' = [method |-> method, upside |-> upside, opened |-> stamp]
  /\ IF method \in PairCalls
     THEN pc' = "resolve" /\ UNCHANGED <<legs, outcome>>
     ELSE IF ActsFor(method) = None \/ ~CallerIsSigner(method)
     THEN Return("config_error") /\ UNCHANGED legs
     ELSE /\ legs' = [legs EXCEPT ![IF method \in WithSigCalls
                                   THEN "intent" ELSE "calldata"] = "asked"]
          /\ pc' = "build"
          /\ UNCHANGED outcome
  /\ UNCHANGED <<config, grants, opened, intent, price, verified, sent, closed>>

\* _require_not_upside
NotUpside == call.method = "limit_open" => ~call.upside

LegsOf(method) ==
  IF method \in MarketCalls /\ RelayerMode THEN Legs ELSE {"calldata"}

AskFor(wanted) ==
  /\ legs' = [leg \in Legs |-> IF leg \in wanted THEN "asked" ELSE "unasked"]
  /\ pc' = "build"
  /\ UNCHANGED outcome

\* The pair is found in the snapshot and the encodings are asked for, the two
\* of a market order together.
Resolved ==
  /\ pc = "resolve"
  /\ IF ~NotUpside THEN Return("validation_error") /\ UNCHANGED legs
     ELSE IF trader = None THEN Return("config_error") /\ UNCHANGED legs
     ELSE IF call.method = "update_margin"
     THEN pc' = "price" /\ UNCHANGED <<legs, outcome>>
     ELSE AskFor(LegsOf(call.method))
  /\ UNCHANGED <<config, grants, opened, call, intent, price, verified, sent, closed>>

\* The snapshot cannot be had, or does not have the pair.
Unresolved ==
  /\ pc = "resolve"
  /\ Return("api_error")
  /\ UNCHANGED <<config, grants, opened, call, legs, intent, price, verified,
                 sent, closed>>

\* _fresh_price_update: each leg of the feed's answer is absent, without the
\* signed bytes, or whole.
FreshPrice(pro, core) ==
  LET leg == IF pro = "absent" THEN "core" ELSE "pro"
      state == IF leg = "pro" THEN pro ELSE core
  IN  IF state = "signed"
      THEN [bytes |-> leg, sourcing |-> IF pro # "absent" THEN 1 ELSE 0]
      ELSE NoPrice

\* A feed that cannot be reached reads as one with no update.
PriceRead(pro, core) ==
  /\ pc = "price"
  /\ price' = FreshPrice(pro, core)
  /\ AskFor({"calldata"})
  /\ UNCHANGED <<config, grants, opened, call, intent, verified, sent, closed>>

\* Mutant: the intent is asked for with the parameters of the calldata alone.
StampOmitted == opened

\* The tx-builder names the position that is open when the caller does not.
Stamp == IF call.opened # 0 THEN call.opened ELSE opened

\* An encoding comes back; its digest may differ from what the SDK computes.
LegBuilt(leg, drifted) ==
  /\ legs[leg] = "asked"
  /\ legs' = [legs EXCEPT ![leg] = "built"]
  /\ leg = "calldata" => ~drifted
  /\ intent' = IF leg = "intent"
               THEN [kind |-> IntentKind(call.method), account |-> ActsFor(call.method),
                     opened |-> IF call.method \in CloseCalls THEN Stamp ELSE 0,
                     drifted |-> drifted]
               ELSE intent
  /\ pc' = IF pc = "build" /\ "asked" \notin {legs'[l] : l \in Legs}
           THEN "submit" ELSE pc
  /\ UNCHANGED <<config, grants, opened, call, price, outcome, verified, sent, closed>>

\* One of the encodings fails and the call with it; the other request goes on,
\* and its answer is of no use to anyone.
LegFails(leg) ==
  /\ pc = "build"
  /\ legs[leg] = "asked"
  /\ legs' = [legs EXCEPT ![leg] = "unasked"]
  /\ Return("api_error")
  /\ UNCHANGED <<config, grants, opened, call, intent, price, verified, sent, closed>>

-----------------------------------------------------------------------------
(* Submission *)

\* The key an intent is signed with: register_delegate is handed the trader's.
SigningKey == IF call.method = "register_delegate" THEN trader ELSE config.signer

\* _calldata: wrapped for the delegate, where a delegate may act.
Wrapped ==
  IF call.method \in PairCalls THEN delegate_param ELSE None

\* The EIP-7702 authorization of a type-4 transaction needs the nonce of the
\* key: the RPC's, or that of a fresh delegate.
NonceKnown == config.rpc \/ delegate_param # None

Batched == call.method \in MarketCalls /\ RelayerMode

Routable ==
  Batched => /\ intent.kind \in BATCHED_MARKET_INTENT_KINDS
             /\ OrderType(call.method, call.upside) \in BATCHED_MARKET_ORDER_TYPES

\* sign_intent: the digest computed locally must be the API's.
Drifted == intent.drifted

\* Why nothing is submitted; an intent for a wrapper is signed before the
\* route is looked at, one for the batched market after.
Refusal ==
  IF call.method \in WithSigCalls /\ Drifted THEN "digest_mismatch"
  ELSE IF config.signer = None \/ ~Routable THEN "config_error"
  ELSE IF Batched /\ Drifted THEN "digest_mismatch"
  ELSE IF IF RelayerMode THEN ~NonceKnown ELSE ~config.rpc THEN "config_error"
  ELSE None

Route == IF Batched THEN "batched-market"
         ELSE IF RelayerMode THEN "relayer-passthrough"
         ELSE "rpc"

Message ==
  [route   |-> Route,
   type    |-> IF Batched THEN OrderType(call.method, call.upside) ELSE None,
   kind    |-> intent.kind,
   key     |-> IF intent.kind = None THEN None ELSE SigningKey,
   account |-> intent.account,
   opened  |-> intent.opened,
   tx      |-> [account  |-> IF call.method \in WithSigCalls
                             THEN config.signer ELSE ActsFor(call.method),
                delegate |-> Wrapped]]

\* submit_intent_batch, submit_passthrough or submit_direct: sign and send.
Submits ==
  /\ pc = "submit"
  /\ IF Refusal = None
     THEN Return("submitted") /\ sent' = Message
     ELSE Return(Refusal) /\ UNCHANGED sent
  /\ UNCHANGED <<config, grants, opened, call, legs, intent, price, verified, closed>>

\* What is read from the tx-builder or the RPC on the way, before the nonce is
\* found wanting in relayer mode, before the route is looked at for a wrapper.
ReadsTheChain ==
  \/ Refusal = None
  \/ ~Drifted /\ call.method \in WithSigCalls
  \/ ~Drifted /\ Routable /\ RelayerMode /\ config.signer # None

\* The chain id, the nonce or the fees cannot be read.
SubmitFails ==
  /\ pc = "submit"
  /\ ReadsTheChain
  /\ Return("api_error")
  /\ UNCHANGED <<config, grants, opened, call, legs, intent, price, verified,
                 sent, closed>>

Finished ==
  /\ pc = "returned"
  /\ UNCHANGED vars

Client ==
  \/ Resolved
  \/ Unresolved
  \/ \E pro, core \in {"absent", "bare", "signed"} : PriceRead(pro, core)
  \/ \E leg \in Legs, drifted \in BOOLEAN : LegBuilt(leg, drifted)
  \/ \E leg \in Legs : LegFails(leg)
  \/ Submits
  \/ SubmitFails

Next ==
  \/ Revokes
  \/ Reopens
  \/ Closes
  \/ verify_delegation
  \/ \E method \in Methods, upside \in BOOLEAN, stamp \in {0, opened} :
       Calls(method, upside, stamp)
  \/ Client
  \/ Finished

Spec == Init /\ [][Next]_vars

-----------------------------------------------------------------------------
(* Properties *)

PnlTypes ==
  {"MARKET_OPEN_PNL", "MARKET_CLOSE_PNL", "MARKET_OPEN_PNL_WITH_COIN_EXPOSURE",
   "MARKET_CLOSE_PNL_WITH_COIN_EXPOSURE"}

\* What the contract takes an order type for.
TypesOfKind(kind) ==
  CASE kind = "OpenTradeReq"  -> {"MARKET_OPEN", "MARKET_OPEN_PNL"}
    [] kind = "CloseTradeReq" -> {"MARKET_CLOSE", "MARKET_CLOSE_PNL"}
    [] kind = "OpenTradeCoinExposureReq" ->
         {"MARKET_OPEN_WITH_COIN_EXPOSURE", "MARKET_OPEN_PNL_WITH_COIN_EXPOSURE"}
    [] kind = "CloseTradeCoinExposureReq" ->
         {"MARKET_CLOSE_WITH_COIN_EXPOSURE", "MARKET_CLOSE_PNL_WITH_COIN_EXPOSURE"}
    [] kind = "IncreasePositionSizeReq" -> {"INCREASE_SIZE"}
    [] kind = "IncreasePositionSizeWithCoinExposureReq" ->
         {"INCREASE_SIZE_WITH_COIN_EXPOSURE"}
    [] OTHER -> {}

\* A transaction is sent by the account its calldata acts for, or wrapped for
\* the delegate that sends it; a call made as oneself is never wrapped, and an
\* intent that only its account may sign is signed by it.  It relates the three
\* notions of "who" of the code: trader, caller and _delegate_param.
SenderMayAct ==
  sent # NoMessage =>
    /\ sent.tx.delegate = None  => sent.tx.account = config.signer
    /\ sent.tx.delegate # None =>
         /\ sent.tx.delegate = config.signer
         /\ sent.tx.account # config.signer
         /\ call.method \notin OwnCalls \union WithSigCalls
    /\ sent.kind \notin BATCHED_MARKET_INTENT_KINDS => sent.key = sent.account

\* The order type submitted beside the intent is one of that intent's, and a
\* PnL type exactly on an Upside pair, where the contract takes no other for
\* an open or a close ("the contract reverts PnlOrderNotAllowed on any
\* mismatch", trading/api.py:15); no limit order is placed on one.
OrderFitsPair ==
  sent # NoMessage =>
    /\ sent.route = "batched-market" => sent.type \in TypesOfKind(sent.kind)
    /\ sent.type \in PnlTypes <=>
         /\ sent.route = "batched-market"
         /\ call.upside
         /\ sent.kind \notin {"IncreasePositionSizeReq",
                              "IncreasePositionSizeWithCoinExposureReq"}
    /\ ~(call.method = "limit_open" /\ call.upside)

\* A close that names the position it is for, and is executed by its intent,
\* closes that position, though another be open at the same index by then.
\* The calldata of the same close names none.
BoundCloseHitsItsPosition ==
  closed.leg = "intent" /\ call.opened # 0 => closed.opened = call.opened

\* market-orders.mdx:83 of open_timestamp: "Binds the close to a specific open".
\* TLC refutes it: the close of a client in direct mode, and the calldata that is
\* signed beside the intent, leave without the timestamp.
CloseHitsItsPosition ==
  closed # NoClose /\ call.opened # 0 => closed.opened = call.opened

\* After verify_delegation, and until something is revoked, no market order is
\* refused for want of a permission: it checks the one that its mode needs.
\* (In relayer mode the calldata calls need the other one.)
VerifiedMayTrade ==
  verified /\ sent # NoMessage /\ call.method \in MarketCalls =>
    IF RelayerMode THEN IntentAccepted ELSE TxAccepted
=============================================================================
