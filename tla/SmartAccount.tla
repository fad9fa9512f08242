---------------------------- MODULE SmartAccount ----------------------------
(***************************************************************************)
(* Smart-account calls of one key: ExecutionEngine._build_type4            *)
(* (execution/engine.py) gives each an EIP-7702 authorization over the     *)
(* account's protocol nonce and a fresh execution nonce                    *)
(* (eip7702/account.py), and a relayer includes it in some order, or never.*)
(*                                                                         *)
(* The chain is external.  An authorization over a nonce that is not the   *)
(* account's is skipped; one that is applied sets the delegation code and  *)
(* takes the nonce.  A call is void when the account has no Gelato code or *)
(* the execution nonce was used.                                           *)
(***************************************************************************)
EXTENDS Integers

CONSTANTS
  Tasks,      \* the calls
  Outside,    \* bound: transactions of the key that are not this client's
  MaxClock    \* bound: the clock, in milliseconds

ASSUME ConstantsAssumption ==
  /\ Outside \in Nat
  /\ MaxClock \in Nat

VARIABLES
  setup,      \* rpc: rpc_url is configured; delegate: the key is not the trader's
  \* the chain (external)
  code,       \* the account's delegation code
  nonce,      \* its protocol nonce
  used,       \* execution nonces it has used
  outside,    \* transactions of the key from elsewhere
  pending,    \* those at the node and not mined, in turn from nonce on
  \* the client
  clock,
  accountPc,
  authNonce,  \* the nonce a call's authorization is signed over
  execNonce,
  built,      \* when it was pinned
  fate        \* of the call

chainVars == <<setup, code, nonce, used, outside, pending>>
accountVars == <<setup, code, nonce, used, outside, pending, clock, accountPc, authNonce,
                 execNonce, built, fate>>

AccountTypeOK ==
  /\ setup \in [rpc : BOOLEAN, delegate : BOOLEAN]
  /\ code \in {"none", "foreign", "gelato"}
  /\ nonce \in Nat
  /\ used \subseteq 0..MaxClock
  /\ outside \in 0..Outside
  /\ pending \in 0..outside
  /\ clock \in 0..MaxClock
  /\ accountPc \in [Tasks -> {"nonce", "encode", "relay", "relayed", "config_error", "failed"}]
  /\ authNonce \in [Tasks -> Nat]
  /\ execNonce \in [Tasks -> 0..MaxClock]
  /\ built \in [Tasks -> 0..MaxClock]
  /\ fate \in [Tasks -> {"unsent", "done", "void"}]

\* A delegate key is a fresh account; a trader's has had transactions, and may
\* have another delegation.
AccountInit ==
  /\ setup \in [rpc : BOOLEAN, delegate : BOOLEAN]
  /\ IF setup.delegate
     THEN code = "none" /\ nonce = 0
     ELSE code \in {"none", "foreign", "gelato"} /\ nonce \in 1..2
  /\ used = {}
  /\ outside = 0
  /\ pending = 0
  /\ clock = 0
  /\ accountPc = [t \in Tasks |-> "nonce"]
  /\ authNonce = [t \in Tasks |-> 0]
  /\ execNonce = [t \in Tasks |-> 0]
  /\ built = [t \in Tasks |-> 0]
  /\ fate = [t \in Tasks |-> "unsent"]

-----------------------------------------------------------------------------
(* The client *)

\* Mutant: a fresh account is assumed of every key.
AuthorizationNonceZero(t) ==
  /\ accountPc[t] = "nonce"
  /\ accountPc' = [accountPc EXCEPT ![t] = "encode"]
  /\ UNCHANGED <<chainVars, clock, authNonce, execNonce, built, fate>>

\* _authorization_nonce: the node's pending count if there is an RPC, 0 for a
\* delegate, or a ConfigError.
AuthorizationNonce(t) ==
  /\ accountPc[t] = "nonce"
  /\ IF setup.rpc \/ setup.delegate
     THEN /\ accountPc' = [accountPc EXCEPT ![t] = "encode"]
          /\ authNonce' = [authNonce EXCEPT ![t] = IF setup.rpc THEN nonce + pending ELSE 0]
     ELSE accountPc' = [accountPc EXCEPT ![t] = "config_error"] /\ UNCHANGED authNonce
  /\ UNCHANGED <<chainVars, clock, execNonce, built, fate>>

\* Mutant: the clock is read in a unit too coarse to tell two calls apart.
FreshNonceCoarse == clock - (clock % 2)

\* fresh_nonce: the key of the nonce is the clock, its sequence 0.
FreshNonce == clock

\* The execution nonce is pinned, the call signed over it, and its gas
\* estimated on those bytes.
Encode(t) ==
  /\ accountPc[t] = "encode"
  /\ execNonce' = [execNonce EXCEPT ![t] = FreshNonce]
  /\ built' = [built EXCEPT ![t] = clock]
  /\ accountPc' = [accountPc EXCEPT ![t] = "relay"]
  /\ UNCHANGED <<chainVars, clock, authNonce, fate>>

\* A request fails: nothing is relayed.
Fail(t) ==
  /\ accountPc[t] \in {"nonce", "encode", "relay"}
  /\ accountPc' = [accountPc EXCEPT ![t] = "failed"]
  /\ UNCHANGED <<chainVars, clock, authNonce, execNonce, built, fate>>

\* The payload is handed to the relayer (BlitzRelay), or to the batched-market
\* service as the EIP-7702 leg of an order.
Relay(t) ==
  /\ accountPc[t] = "relay"
  /\ accountPc' = [accountPc EXCEPT ![t] = "relayed"]
  /\ UNCHANGED <<chainVars, clock, authNonce, execNonce, built, fate>>

Tick ==
  /\ clock < MaxClock
  /\ clock' = clock + 1
  /\ UNCHANGED <<chainVars, accountPc, authNonce, execNonce, built, fate>>

-----------------------------------------------------------------------------
(* The chain *)

\* The authorization list is processed before the call.  One that is applied
\* takes the nonce of the first transaction that is pending, which is then void.
Include(t) ==
  LET applies == authNonce[t] = nonce
      runs    == (applies \/ code = "gelato") /\ execNonce[t] \notin used
  IN  /\ accountPc[t] = "relayed"
      /\ fate[t] = "unsent"
      /\ code' = IF applies THEN "gelato" ELSE code
      /\ nonce' = IF applies THEN nonce + 1 ELSE nonce
      /\ pending' = IF applies /\ pending > 0 THEN pending - 1 ELSE pending
      /\ used' = IF runs THEN used \union {execNonce[t]} ELSE used
      /\ fate' = [fate EXCEPT ![t] = IF runs THEN "done" ELSE "void"]
      /\ UNCHANGED <<setup, outside, clock, accountPc, authNonce, execNonce, built>>

\* A wallet sends a transaction of the key.
OutsideSends ==
  /\ outside < Outside
  /\ outside' = outside + 1
  /\ pending' = pending + 1
  /\ UNCHANGED <<setup, code, nonce, used, clock, accountPc, authNonce, execNonce, built,
                 fate>>

\* The next of them is mined; it may set another delegation.
OutsideMined ==
  /\ pending > 0
  /\ pending' = pending - 1
  /\ nonce' = nonce + 1
  /\ code' \in {code, "foreign"}
  /\ UNCHANGED <<setup, used, outside, clock, accountPc, authNonce, execNonce, built, fate>>

\* The node forgets the last of them.
OutsideDropped ==
  /\ pending > 0
  /\ pending' = pending - 1
  /\ UNCHANGED <<setup, code, nonce, used, outside, clock, accountPc, authNonce, execNonce,
                 built, fate>>

\* Nothing is left to do but wait for the chain, which may never come.
AllRelayed ==
  /\ \A t \in Tasks : accountPc[t] \in {"relayed", "config_error", "failed"}
  /\ UNCHANGED accountVars

AccountNext ==
  \/ \E t \in Tasks :
       AuthorizationNonce(t) \/ Encode(t) \/ Fail(t) \/ Relay(t) \/ Include(t)
  \/ Tick
  \/ OutsideSends
  \/ OutsideMined
  \/ OutsideDropped
  \/ AllRelayed

AccountSpec == AccountInit /\ [][AccountNext]_accountVars

-----------------------------------------------------------------------------
(* Properties *)

\* fresh_nonce promises that no other call has the nonce (account.py:63); of
\* two calls that are built in the same millisecond one is void.
SameMs(t) == \E s \in Tasks \ {t} : fate[s] = "done" /\ built[s] = built[t]

\* Of a key that is used nowhere else a call takes effect when it is included,
\* whatever the order in which the relayer includes calls and whichever
\* authorizations are skipped: one that is skipped is redundant
\* (engine.py:111-119).  Only the millisecond can void a call.
IncludedCallsRun == outside = 0 => \A t \in Tasks : fate[t] = "void" => SameMs(t)

\* "fine once the Gelato delegation code is already set (the authorization is
\* redundant)" (engine.py:112): a call included then takes effect too, also when
\* its authorization is stale because the key was used elsewhere.
DelegatedCallsRun ==
  [][\A t \in Tasks :
       Include(t) /\ code = "gelato" => fate'[t] = "done" \/ SameMs(t)]_accountVars
=============================================================================
