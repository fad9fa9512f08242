--------------------------- MODULE ContractWrite ----------------------------
(***************************************************************************)
(* Contract writes by each of the routes of ExecutionEngine                *)
(* (execution/engine.py: submit_passthrough, submit_via_txbuilder_relay    *)
(* and submit_direct): the smart account's transaction through the relayer *)
(* (BlitzRelay), a transaction signed by the caller through the tx-builder *)
(* (RawRelay), and the node the key sends to itself (DirectSend).  All     *)
(* three implement TxSubmission, the promise callers of a contract write   *)
(* rely on whichever route is taken.                                       *)
(*                                                                         *)
(* A behaviour follows one route: the variables of the others keep their   *)
(* initial values.                                                         *)
(***************************************************************************)
EXTENDS BlitzRelay, FiniteSets

CONSTANTS
  Tasks,    \* the calls of the direct route
  Together  \* bound: those made together

ASSUME WriteAssumption == IsFiniteSet(Tasks) /\ Together \in Nat

VARIABLES
  route,
  rawTx, rawLate, rawPc, rawWaits, rawTries, rawPolled, rawOutcome,
  inTurn, account, fate, directLate, directPc, nonce, directWaits, directLeft,
  directOutcome

rawVars == <<rawTx, rawLate, rawPc, rawWaits, rawTries, rawPolled, rawOutcome>>
directVars == <<inTurn, account, fate, directLate, directPc, nonce, directWaits,
                directLeft, directOutcome>>
allVars == <<route, vars, rawVars, directVars>>

Raw == INSTANCE RawRelay WITH
  tx <- rawTx, late <- rawLate, pc <- rawPc, waits <- rawWaits, tries <- rawTries,
  polled <- rawPolled, outcome <- rawOutcome

Direct == INSTANCE DirectSend WITH
  late <- directLate, pc <- directPc, waits <- directWaits, left <- directLeft,
  outcome <- directOutcome

\* The variables of a route that is not taken need one initial value only.
WriteInit ==
  /\ route \in {"relayer", "txbuilder", "direct"}
  /\ Init /\ Raw!Init /\ Direct!Init
  /\ route # "relayer" => ~waits
  /\ route # "txbuilder" => ~rawWaits
  /\ route # "direct" => ~inTurn /\ \A t \in Tasks : ~directWaits[t]

RelayerStep(step) == route = "relayer" /\ step /\ UNCHANGED <<route, rawVars, directVars>>
RawStep(step) == route = "txbuilder" /\ step /\ UNCHANGED <<route, vars, directVars>>
DirectStep(step) == route = "direct" /\ step /\ UNCHANGED <<route, vars, rawVars>>

WriteNext ==
  \/ RelayerStep(Next)
  \/ RawStep(Raw!Next)
  \/ DirectStep(Direct!Next)

WriteSpec == WriteInit /\ [][WriteNext]_allVars

\* The fairness of each route.
FairWrite ==
  /\ WriteSpec
  /\ WF_allVars(RelayerStep(Client))
  /\ WF_allVars(RawStep(Raw!Client))
  /\ \A t \in Tasks : WF_allVars(DirectStep(Direct!Client(t)))

-----------------------------------------------------------------------------
(* Properties, of RawRelay and DirectSend under the names of this module *)

RoutesTypeOK == TypeOK /\ Raw!TypeOK /\ Direct!TypeOK

\* A receipt of the tx-builder is of a transaction that was broadcast, once
\* however often it was posted; a status taken for "confirmed" or "reverted" is
\* so; but for the wait that runs out, see RawRelay.  And whatever other tasks
\* do with the same key, a call that sends by itself reports as mined or
\* reverted only its own transaction, even when another took its nonce.
OtherRoutesImplementSubmission ==
  Raw!ImplementsSubmission /\ Direct!ImplementsSubmission

\* Calls made one after another do not get in each other's way, also when one
\* did not wait or gave up: the nonce counts what is pending
\* (get_transaction_count's "pending", rpc.py:49).
SendsDoNotCollide == Direct!SendsDoNotCollide

\* Every call returns, by any route: the busy relayer is tried a bounded number
\* of times, no request is repeated for ever and each polling has its end.
CallsReturn ==
  /\ route = "relayer" => CallReturns
  /\ route = "txbuilder" => Raw!CallReturns
  /\ route = "direct" => Direct!CallsReturn
=============================================================================
