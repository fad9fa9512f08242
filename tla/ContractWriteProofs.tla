------------------------- MODULE ContractWriteProofs -------------------------
(***************************************************************************)
(* Theorems about ContractWrite, for any number of attempts, repeats and   *)
(* polls and any finite set of calls of the direct route: first the        *)
(* relayer's route by itself, then the tx-builder's, then the direct one,  *)
(* and last that a contract write is one of the three.                     *)
(*                                                                         *)
(* By the relayer the transaction is in one place at a time: with the      *)
(* client, in the POST under way, in one that was given up, or in a relay. *)
(* By the direct route a call made in turn has its nonce to itself from    *)
(* the time it reads it, because what is pending then counts.              *)
(***************************************************************************)
EXTENDS ContractWrite, FiniteSetTheorems, SequenceTheorems, TLAPS

-----------------------------------------------------------------------------
(* The relayer's route *)

\* A POST is under way while create waits for its answer, and one is left.
PostInv ==
  /\ pc = "posting" <=> post.at # "none"
  /\ pc = "posting" => attempt < Attempts

\* Nothing has left the client for good.
Unsent == relays = <<>> /\ late = 0

\* There is one relay and no POST that could make another.
Taken == Len(relays) = 1 /\ late = 0

PlaceInv ==
  /\ pc = "create" \/ post.at \in {"sent", "busy"} => Unsent
  /\ post.at = "accepted" => Taken /\ post.relay = 1
  /\ pc \in {"poll", "getting"} => Taken /\ request = 1
  /\ late + Len(relays) <= 1

OutcomeInv ==
  /\ pc = "returned" <=> outcome # "none"
  /\ outcome = "busy" => Unsent

IInv == TypeOK /\ PostInv /\ PlaceInv /\ OutcomeInv

-----------------------------------------------------------------------------
LEMMA IInvInit == Init => IInv
  BY ConstantsAssumption
     DEF Init, IInv, TypeOK, PostInv, PlaceInv, OutcomeInv, Unsent, Taken, NoPost, Outcomes,
         ConstantsAssumption

\* The relayer and the network move the transaction on and make no other.
LEMMA NetworkStep ==
  ASSUME "503" \notin GatewayErrors, IInv, Network
  PROVE  IInv'
<1> USE ConstantsAssumption
    DEF IInv, TypeOK, PostInv, PlaceInv, OutcomeInv, Unsent, Taken, NoPost, clientVars,
        ConstantsAssumption
<1>1. CASE RelayerTakes
  BY <1>1 DEF RelayerTakes, Fates
<1>2. ASSUME NEW how \in {"busy", "rejected"}, RelayerDeclines(how) PROVE IInv'
  BY <1>2 DEF RelayerDeclines
<1>3. ASSUME NEW status \in GatewayErrors, GatewayAnswers(status) PROVE IInv'
  <2>1. post.at \in {"sent", "accepted"} /\ status # "503" /\ pc = "posting"
    BY <1>3 DEF GatewayAnswers
  <2>2. post' = [at |-> "rejected", relay |-> 0]
    BY <1>3, <2>1 DEF GatewayAnswers
  <2>3. UNCHANGED <<relays, pc, waits, attempt, request, tries, left, outcome>>
    BY <1>3 DEF GatewayAnswers
  <2>4. CASE post.at = "sent"
    <3>1. late' = 1 /\ relays = <<>>
      BY <1>3, <2>4 DEF GatewayAnswers
    <3>2. QED
      BY <2>1, <2>2, <2>3, <3>1
  <2>5. CASE post.at = "accepted"
    <3>1. late' = late
      BY <1>3, <2>5 DEF GatewayAnswers
    <3>2. QED
      BY <2>1, <2>2, <2>3, <2>5, <3>1
  <2>6. QED
    BY <2>1, <2>4, <2>5
<1>4. CASE LateArrival
  BY <1>4 DEF LateArrival, Fates
<1>5. ASSUME NEW i \in 1..Len(relays), NEW end \in Fates \ {"pending"}, Settles(i, end)
      PROVE  IInv'
  BY <1>5 DEF Settles, Fates
<1>6. QED
  BY <1>1, <1>2, <1>3, <1>4, <1>5 DEF Network

LEMMA CreateStep ==
  ASSUME IInv,
         Post \/ PostBusy \/ PostGivesUp \/ PostRejected \/ PostFails \/ PostAccepted
  PROVE  IInv'
<1> USE ConstantsAssumption
    DEF IInv, TypeOK, PostInv, PlaceInv, OutcomeInv, Unsent, Taken, NoPost, netVars,
        ConstantsAssumption, Outcomes, Return
<1>1. CASE Post
  BY <1>1 DEF Post
<1>2. CASE PostBusy
  BY <1>2 DEF PostBusy
<1>3. CASE PostGivesUp
  BY <1>3 DEF PostGivesUp
<1>4. CASE PostRejected
  BY <1>4 DEF PostRejected
<1>5. CASE PostFails
  BY <1>5 DEF PostFails
<1>6. CASE PostAccepted
  BY <1>6 DEF PostAccepted
<1>7. QED
  BY <1>1, <1>2, <1>3, <1>4, <1>5, <1>6

LEMMA WaitStep ==
  ASSUME IInv,
         \/ Ask \/ PollExpires \/ StatusUnreadable \/ StatusFails \/ StatusUnknown
         \/ \E receipt \in Receipts : StatusReply(receipt)
  PROVE  IInv'
<1> USE ConstantsAssumption
    DEF IInv, TypeOK, PostInv, PlaceInv, OutcomeInv, Unsent, Taken, NoPost, netVars,
        ConstantsAssumption, Outcomes, Return, Pause
<1>1. CASE Ask
  BY <1>1 DEF Ask
<1>2. CASE PollExpires
  BY <1>2 DEF PollExpires
<1>3. CASE StatusUnreadable
  BY <1>3 DEF StatusUnreadable
<1>4. CASE StatusFails
  BY <1>4 DEF StatusFails
<1>5. CASE StatusUnknown
  BY <1>5 DEF StatusUnknown
<1>6. ASSUME NEW receipt \in Receipts, StatusReply(receipt) PROVE IInv'
  <2>1. Reading(relays[request], receipt) \in {"none", "failed", "reverted", "confirmed"}
    BY DEF Reading
  <2>2. CASE Reading(relays[request], receipt) = "none"
    BY <1>6, <2>2 DEF StatusReply
  <2>3. CASE Reading(relays[request], receipt) # "none"
    BY <1>6, <2>1, <2>3 DEF StatusReply
  <2>4. QED
    BY <2>2, <2>3
<1>7. QED
  BY <1>1, <1>2, <1>3, <1>4, <1>5, <1>6

LEMMA IInvStep ==
  ASSUME "503" \notin GatewayErrors, IInv, [Next]_vars
  PROVE  IInv'
<1>1. CASE UNCHANGED vars
  BY <1>1 DEF vars, IInv, TypeOK, PostInv, PlaceInv, OutcomeInv, Unsent, Taken
<1>2. CASE Client
  BY <1>2, CreateStep, WaitStep DEF Client
<1>3. QED
  BY <1>1, <1>2, NetworkStep DEF Next, Finished

LEMMA Invariance == ASSUME "503" \notin GatewayErrors PROVE Spec => []IInv
<1>1. Init => IInv
  BY IInvInit
<1>2. IInv /\ [Next]_vars => IInv'
  BY IInvStep
<1>3. QED
  BY <1>1, <1>2, PTL DEF Spec

\* What the call does and what the relayer answers stay in step, whatever the
\* gateway does.
CallInv == TypeOK /\ PostInv

LEMMA CallInvStep ==
  ASSUME CallInv, [Next]_vars
  PROVE  CallInv'
<1> USE ConstantsAssumption
    DEF CallInv, TypeOK, PostInv, NoPost, netVars, clientVars, ConstantsAssumption, Outcomes,
        Return
<1>1. CASE Network
  <2>1. ASSUME NEW status \in GatewayErrors, GatewayAnswers(status) PROVE CallInv'
    <3>1. PICK how \in {"busy", "rejected"} : post' = [at |-> how, relay |-> 0]
      BY <2>1 DEF GatewayAnswers
    <3> QED
      BY <2>1, <3>1 DEF GatewayAnswers
  <2>2. ASSUME NEW how \in {"busy", "rejected"}, RelayerDeclines(how) PROVE CallInv'
    BY <2>2 DEF RelayerDeclines
  <2>3. CASE RelayerTakes
    BY <2>3 DEF RelayerTakes, Fates
  <2>4. CASE LateArrival
    BY <2>4 DEF LateArrival, Fates
  <2>5. ASSUME NEW i \in 1..Len(relays), NEW end \in Fates \ {"pending"}, Settles(i, end)
        PROVE  CallInv'
    BY <2>5 DEF Settles, Fates
  <2> QED
    BY <1>1, <2>1, <2>2, <2>3, <2>4, <2>5 DEF Network
<1>2. CASE Post \/ PostBusy \/ PostGivesUp \/ PostRejected \/ PostFails
  BY <1>2 DEF Post, PostBusy, PostGivesUp, PostRejected, PostFails
<1>3. CASE PostAccepted
  BY <1>3 DEF PostAccepted
<1>4. CASE Ask \/ PollExpires \/ StatusUnreadable \/ StatusFails \/ StatusUnknown
  BY <1>4 DEF Ask, PollExpires, StatusUnreadable, StatusFails, StatusUnknown, Pause
<1>5. ASSUME NEW receipt \in Receipts, StatusReply(receipt) PROVE CallInv'
  <2>1. Reading(relays[request], receipt) \in {"none", "failed", "reverted", "confirmed"}
    BY DEF Reading
  <2> QED
    BY <1>5, <2>1 DEF StatusReply, Pause
<1> QED
  BY <1>1, <1>2, <1>3, <1>4, <1>5 DEF Next, Client, Finished, vars

LEMMA CallInvariance == Spec => []CallInv
<1>1. Init => CallInv
  BY IInvInit DEF IInv, CallInv
<1>2. CallInv /\ [Next]_vars => CallInv'
  BY CallInvStep
<1> QED
  BY <1>1, <1>2, PTL DEF Spec

-----------------------------------------------------------------------------
(* The refinement *)

LEMMA SubmissionInit == Init => Submission!Init
  BY DEF Init, Submission!Init, Tx, Answer

LEMMA OnlyIndex ==
  ASSUME NEW m \in Nat, NEW n \in Nat, m + n <= 1, NEW i \in 1..n
  PROVE  i = 1 /\ n = 1
  OBVIOUS

LEMMA OneTaken ==
  ASSUME IInv, post.at = "accepted" \/ pc = "getting"
  PROVE  /\ Len(relays) = 1 /\ relays # <<>> /\ relays[1] \in Fates
         /\ pc = "getting" => request = 1
<1>1. relays \in Seq(Fates) /\ Len(relays) = 1 /\ (pc = "getting" => request = 1)
  BY DEF IInv, TypeOK, PlaceInv, Taken
<1>2. relays[1] \in Fates
  BY <1>1, ElementOfSeq, SMTT(20)
<1>3. relays # <<>>
  BY <1>1, EmptySeq
<1>4. QED
  BY <1>1, <1>2, <1>3

\* The network broadcasts the transaction once and settles it once.
LEMMA NetworkSubmits ==
  ASSUME IInv, IInv', Network
  PROVE  Submission!Next \/ UNCHANGED <<Tx, waits, Answer>>
<1> USE DEF IInv, TypeOK, PlaceInv, Unsent, Taken, clientVars
<1>0. UNCHANGED <<waits, Answer>>
  BY DEF Network, RelayerTakes, RelayerDeclines, GatewayAnswers, LateArrival, Settles, Answer
<1>1. ASSUME relays = <<>>, relays' = Append(relays, "pending") PROVE Submission!Broadcast
  BY <1>0, <1>1 DEF Submission!Broadcast, Tx
<1>2. CASE RelayerTakes
  BY <1>1, <1>2 DEF RelayerTakes, Submission!Next
<1>3. CASE LateArrival
  <2>1. relays = <<>>
    BY <1>3 DEF LateArrival
  <2>2. QED
    BY <1>0, <1>1, <1>3, <2>1 DEF LateArrival, Submission!Next, Tx
<1>4. ASSUME NEW i \in 1..Len(relays), NEW end \in Fates \ {"pending"}, Settles(i, end)
      PROVE  Submission!Settle
  <2>1. i = 1 /\ Len(relays) = 1
    <3>1. Len(relays) \in Nat /\ late \in Nat /\ late + Len(relays) <= 1
      OBVIOUS
    <3>2. QED
      BY <3>1, OnlyIndex
  <2>2. relays # <<>> /\ relays' # <<>> /\ Len(relays') = 1
    BY <1>4, <2>1 DEF Settles
  <2>3. Tx = "pending" /\ Tx' = end
    BY <1>4, <2>1, <2>2 DEF Settles, Tx
  <2>4. QED
    BY <1>0, <2>3 DEF Submission!Settle, Fates
<1>5. CASE UNCHANGED relays
  BY <1>0, <1>5 DEF Tx
<1>6. QED
  BY <1>2, <1>3, <1>4, <1>5
     DEF Network, RelayerDeclines, GatewayAnswers, Submission!Next

\* The client tells its caller what it read.
LEMMA ClientSubmits ==
  ASSUME "bare" \notin Receipts, IInv, Client
  PROVE  Submission!Next \/ UNCHANGED <<Tx, waits, Answer>>
<1> USE DEF IInv, TypeOK, PlaceInv, OutcomeInv, Taken, netVars, Return, Pause
<1>0. UNCHANGED <<Tx, waits>> /\ pc # "returned" /\ Answer = "waiting"
  BY DEF Client, Post, PostBusy, PostGivesUp, PostRejected, PostFails, PostAccepted, Ask,
         PollExpires, StatusReply, StatusUnreadable, StatusFails, StatusUnknown, Tx, Answer
<1>1. CASE outcome' \in {"busy", "rejected", "api_error", "unknown_relay", "timeout"}
  BY <1>0, <1>1 DEF Answer, Submission!Next, Submission!Tell
<1>2. CASE outcome' = outcome
  BY <1>0, <1>2 DEF Answer
<1>3. CASE PostAccepted
  <2>1. (outcome' = "submitted" /\ ~waits) \/ outcome' = outcome
    BY <1>3 DEF PostAccepted
  <2>2. Len(relays) = 1 /\ relays # <<>> /\ relays[1] \in Fates
    BY <1>3, OneTaken DEF PostAccepted
  <2>3. Tx # "unsent"
    BY <2>2 DEF Tx, Fates
  <2>4. QED
    BY <1>0, <1>2, <2>1, <2>3 DEF Answer, Submission!Next, Submission!Tell
<1>4. ASSUME NEW receipt \in Receipts, StatusReply(receipt)
      PROVE  Submission!Next \/ UNCHANGED <<Tx, waits, Answer>>
  <2>1. receipt = "status"
    BY ConstantsAssumption DEF ConstantsAssumption
  <2>2. request = 1 /\ Len(relays) = 1 /\ relays # <<>> /\ relays[1] \in Fates
    BY <1>4, OneTaken DEF StatusReply
  <2>3. Tx = relays[request]
    BY <2>2 DEF Tx
  <2>4. CASE relays[request] = "pending"
    BY <1>2, <1>4, <2>4 DEF StatusReply, Reading
  <2>5. CASE relays[request] = "landed"
    <3>1. outcome' = "confirmed"
      BY <1>4, <2>5 DEF StatusReply, Reading
    <3>2. QED
      BY <1>0, <2>3, <2>5, <3>1 DEF Answer, Submission!Next, Submission!Tell
  <2>6. CASE relays[request] \in {"reverted", "dropped"}
    <3>1. outcome' \in {"reverted", "failed"}
      BY <1>4, <2>1, <2>6 DEF StatusReply, Reading
    <3>2. QED
      BY <1>0, <2>3, <2>6, <3>1 DEF Answer, Submission!Next, Submission!Tell
  <2>7. QED
    BY <2>2, <2>4, <2>5, <2>6 DEF Fates
<1>5. QED
  BY <1>1, <1>2, <1>3, <1>4
     DEF Client, Post, PostBusy, PostGivesUp, PostRejected, PostFails, Ask,
         PollExpires, StatusUnreadable, StatusFails, StatusUnknown

LEMMA SubmissionStep ==
  ASSUME "bare" \notin Receipts, IInv, IInv', [Next]_vars
  PROVE  [Submission!Next]_<<Tx, waits, Answer>>
<1>1. CASE UNCHANGED vars
  BY <1>1 DEF vars, Tx, Answer
<1>2. QED
  BY <1>1, NetworkSubmits, ClientSubmits DEF Next, Finished

\* The relayer route does what submitting a transaction promises: it is
\* broadcast once at most, and what the caller is told of it is so.
LEMMA Implementation ==
  ASSUME "503" \notin GatewayErrors, "bare" \notin Receipts
  PROVE  Spec => ImplementsSubmission
<1>1. Init => Submission!Init
  BY SubmissionInit
<1>2. IInv /\ IInv' /\ [Next]_vars => [Submission!Next]_<<Tx, waits, Answer>>
  BY SubmissionStep
<1>3. Spec => []IInv
  BY Invariance
<1>4. QED
  BY <1>1, <1>2, <1>3, PTL DEF Spec, ImplementsSubmission, Submission!Spec, Submission!vars

-----------------------------------------------------------------------------
(* The tx-builder's route *)

\* A call is over when its caller was told, and asks only for a transaction
\* that was broadcast.
RawInv ==
  /\ Raw!TypeOK
  /\ rawPc = "returned" <=> rawOutcome # "none"
  /\ rawPc \in {"poll", "getting"} => rawTx # "unsent"

LEMMA RawInvInit == Raw!Init => RawInv
<1> SUFFICES ASSUME Raw!Init
             PROVE  RawInv
  OBVIOUS
<1>1. rawLate \in BOOLEAN /\ rawWaits \in BOOLEAN
  BY Zenon DEF Raw!Init
<1> QED
  BY <1>1, ConstantsAssumption
     DEF Raw!Init, RawInv, Raw!TypeOK, Raw!Outcomes, ConstantsAssumption

LEMMA RawInvStep ==
  ASSUME RawInv, [Raw!Next]_rawVars
  PROVE  RawInv'
<1> USE ConstantsAssumption
    DEF RawInv, Raw!TypeOK, Raw!Outcomes, Raw!Return, ConstantsAssumption
<1>1. CASE Raw!Settles \/ Raw!Arrives
  BY <1>1 DEF Raw!Settles, Raw!Arrives
<1>2. CASE Raw!Relayed \/ Raw!Refused \/ Raw!RelayFails
  <2>1. rawLate' \in BOOLEAN
    BY <1>2, Zenon DEF Raw!Relayed, Raw!Refused, Raw!RelayFails
  <2> QED
    BY <1>2, <2>1 DEF Raw!Relayed, Raw!Refused, Raw!RelayFails
<1>3. CASE Raw!Ask \/ Raw!StatusFails \/ Raw!GivesUp
  BY <1>3 DEF Raw!Ask, Raw!StatusFails, Raw!GivesUp
<1>4. CASE Raw!StatusReply
  BY <1>4 DEF Raw!StatusReply
<1>5. CASE UNCHANGED rawVars
  BY <1>5 DEF rawVars
<1> QED
  BY <1>1, <1>2, <1>3, <1>4, <1>5
     DEF Raw!Next, Raw!Client, Raw!Finished, Raw!vars, rawVars

LEMMA RawInvariance == Raw!Spec => []RawInv
<1>1. RawInv /\ [Raw!Next]_Raw!vars => RawInv'
  BY RawInvStep DEF Raw!vars, rawVars
<1> QED
  BY <1>1, RawInvInit, PTL DEF Raw!Spec

\* The tx-builder broadcasts once and the chain settles once; the client tells
\* its caller what it read.
LEMMA RawSubmits ==
  ASSUME RawInv, [Raw!Next]_rawVars
  PROVE  \/ Raw!Submission!Next \/ UNCHANGED <<rawTx, rawWaits, Raw!Answer>>
         \/ Raw!WaitRanOut
<1> USE DEF RawInv, Raw!TypeOK, Raw!Outcomes, Raw!Return
<1>1. CASE Raw!Settles \/ Raw!Arrives
  <2>1. UNCHANGED <<rawWaits, Raw!Answer>>
    BY <1>1 DEF Raw!Settles, Raw!Arrives, Raw!Answer
  <2> QED
    BY <1>1, <2>1
       DEF Raw!Settles, Raw!Arrives, Raw!Submission!Next, Raw!Submission!Settle,
           Raw!Submission!Broadcast
<1>2. CASE Raw!Relayed \/ Raw!Refused \/ Raw!RelayFails \/ Raw!Ask \/ Raw!StatusReply
             \/ Raw!StatusFails
  <2>1. UNCHANGED <<rawTx, rawWaits>> /\ rawOutcome = "none"
    BY <1>2
       DEF Raw!Relayed, Raw!Refused, Raw!RelayFails, Raw!Ask, Raw!StatusReply,
           Raw!StatusFails
  <2>2. \/ rawOutcome' \in {"none", "api_error"}
        \/ rawOutcome' = "submitted" /\ rawTx # "unsent" /\ ~rawWaits
        \/ rawOutcome' = "confirmed" /\ rawTx = "landed"
        \/ rawOutcome' = "reverted" /\ rawTx = "reverted"
    BY <1>2
       DEF Raw!Relayed, Raw!Refused, Raw!RelayFails, Raw!Ask, Raw!StatusReply,
           Raw!StatusFails
  <2> QED
    BY <2>1, <2>2 DEF Raw!Answer, Raw!Submission!Next, Raw!Submission!Tell
<1>3. CASE Raw!GivesUp
  BY <1>3 DEF Raw!GivesUp, Raw!WaitRanOut
<1>4. CASE UNCHANGED rawVars
  BY <1>4 DEF rawVars, Raw!Answer
<1> QED
  BY <1>1, <1>2, <1>3, <1>4
     DEF Raw!Next, Raw!Client, Raw!Finished, Raw!vars, rawVars

LEMMA RawImplementation == Raw!Spec => Raw!ImplementsSubmission
<1>1. Raw!Init => Raw!Submission!Init
  BY Zenon DEF Raw!Init, Raw!Submission!Init, Raw!Answer
<1>2. RawInv /\ [Raw!Next]_Raw!vars =>
        [\/ Raw!Submission!Next \/ UNCHANGED Raw!Submission!vars
         \/ Raw!WaitRanOut]_Raw!vars
  BY RawSubmits DEF Raw!vars, rawVars, Raw!Submission!vars
<1> QED
  BY <1>1, <1>2, RawInvariance, PTL
     DEF Raw!Spec, Raw!ImplementsSubmission

-----------------------------------------------------------------------------
(* The direct route *)

\* A call is over when its caller was told; its transaction leaves at the send,
\* or later if the send failed before it.  A nonce has one pending transaction,
\* and none once it is mined.
CallsInv ==
  \A t \in Tasks :
    /\ directPc[t] = "returned" <=> directOutcome[t] # "none"
    /\ directPc[t] \in {"idle", "nonce", "prepare"} => fate[t] = "unsent"
    /\ t \in directLate => fate[t] = "unsent" /\ directPc[t] = "returned"
    /\ fate[t] = "pending" => nonce[t] >= account
    /\ \A s \in Tasks :
         fate[s] = "pending" /\ fate[t] = "pending" /\ nonce[s] = nonce[t] => s = t

DirectInv == Direct!TypeOK /\ CallsInv

Active(t) == directPc[t] \notin {"idle", "returned"}

\* The nonce a task has read is still to be used, and nobody's.
NonceIsFree(t) == nonce[t] >= account /\ Direct!PendingAt(nonce[t]) = {}

\* Calls made in turn: one is under way, and the nonce it sends with is free.
InTurnInv ==
  inTurn =>
  /\ directLate = {}
  /\ \A s, t \in Tasks : Active(s) /\ Active(t) => s = t
  /\ \A t \in Tasks :
       /\ directPc[t] \in {"prepare", "send"} /\ fate[t] = "unsent" => NonceIsFree(t)
       /\ directOutcome[t] # "refused"

-----------------------------------------------------------------------------
\* A set of natural numbers has a least element.
LEMMA LeastNatural ==
  ASSUME NEW T \in SUBSET Nat, T # {}
  PROVE  \E n \in T : \A m \in T : n <= m
<1> DEFINE Below == {ss \in Nat \X Nat : ss[1] < ss[2]}
<1>1. IsWellFoundedOn(Below, Nat)
  BY NatLessThanWellFounded DEF OpToRel
<1>2. \E n \in T : \A m \in T : ~(<<m, n>> \in Below)
  <2>1. T \subseteq Nat
    OBVIOUS
  <2> HIDE DEF Below
  <2> QED
    BY <1>1, <2>1, WFMin, Zenon
<1>3. PICK n \in T : \A m \in T : ~(<<m, n>> \in Below)
  BY <1>2
<1>4. ASSUME NEW m \in T
      PROVE  n <= m
  <2>1. m \in Nat /\ n \in Nat /\ <<m, n>> \in Nat \X Nat
    OBVIOUS
  <2>2. ~(<<m, n>>[1] < <<m, n>>[2])
    BY <1>3, <2>1
  <2> QED
    BY <2>1, <2>2
<1> QED
  BY <1>4

\* There are no more pending transactions than tasks, so one of the nonces that
\* PendingCount chooses from is free.
LEMMA SomeNonceIsFree ==
  ASSUME account \in Nat
  PROVE  /\ Cardinality(Tasks) \in Nat
         /\ \E n \in account..(account + Cardinality(Tasks)) : Direct!PendingAt(n) = {}
<1> DEFINE K == Cardinality(Tasks)
           Nonces == account..(account + K)
<1>1. IsFiniteSet(Tasks) /\ K \in Nat
  BY WriteAssumption, FS_CardinalityType
<1>2. IsFiniteSet(Nonces) /\ Cardinality(Nonces) = K + 1
  <2> HIDE DEF K
  <2>1. account \in Int /\ account + K \in Int /\ account <= account + K
    BY <1>1
  <2>2. /\ IsFiniteSet(account..(account + K))
        /\ Cardinality(account..(account + K)) = (account + K) - account + 1
    BY <2>1, FS_Interval
  <2> QED
    BY <1>1, <2>2
<1>3. SUFFICES ASSUME \A n \in Nonces : Direct!PendingAt(n) # {}
               PROVE  FALSE
  BY <1>1
<1> DEFINE f == [n \in Nonces |-> CHOOSE t \in Tasks : t \in Direct!PendingAt(n)]
<1>4. ASSUME NEW n \in Nonces
      PROVE  f[n] \in Tasks /\ nonce[f[n]] = n
  <2>1. \E t \in Tasks : t \in Direct!PendingAt(n)
    BY <1>3 DEF Direct!PendingAt
  <2>2. f[n] \in Tasks /\ f[n] \in Direct!PendingAt(n)
    BY <2>1
  <2> QED
    BY <2>2 DEF Direct!PendingAt
<1>5. f \in [Nonces -> Tasks]
  BY <1>4
<1>6. Cardinality(Tasks) < Cardinality(Nonces)
  BY <1>1, <1>2
<1>7. \E m, n \in Nonces : m # n /\ f[m] = f[n]
  <2> HIDE DEF f, Nonces
  <2> QED
    BY <1>1, <1>2, <1>5, <1>6, FS_PigeonHole
<1> QED
  BY <1>4, <1>7

\* The count of the pending block is a nonce that nobody uses.
LEMMA PendingCountIsFree ==
  ASSUME account \in Nat
  PROVE  /\ Direct!PendingCount \in Nat /\ Direct!PendingCount >= account
         /\ Direct!PendingAt(Direct!PendingCount) = {}
<1> DEFINE Nonces == account..(account + Cardinality(Tasks))
           FreeNonces == {n \in Nonces : Direct!PendingAt(n) = {}}
<1>1. FreeNonces # {} /\ FreeNonces \in SUBSET Nat /\ Cardinality(Tasks) \in Nat
  BY SomeNonceIsFree
<1>2. PICK n \in FreeNonces : \A m \in FreeNonces : n <= m
  BY <1>1, LeastNatural
<1>3. n \in Nonces /\ Direct!PendingAt(n) = {}
  BY <1>2
<1>4. \A m \in account..(n - 1) : Direct!PendingAt(m) # {}
  BY <1>1, <1>2, <1>3
<1>5. Direct!Cardinality(Tasks) = Cardinality(Tasks)
  BY DEF Direct!Cardinality, Cardinality
<1>6. \E k \in Nonces : /\ Direct!PendingAt(k) = {}
                        /\ \A m \in account..(k - 1) : Direct!PendingAt(m) # {}
  BY <1>3, <1>4
<1>7. Direct!PendingCount \in Nonces /\ Direct!PendingAt(Direct!PendingCount) = {}
  BY <1>5, <1>6 DEF Direct!PendingCount
<1> QED
  BY <1>1, <1>7

-----------------------------------------------------------------------------
LEMMA DirectInvInit == Direct!Init => DirectInv /\ InTurnInv
<1> SUFFICES ASSUME Direct!Init
             PROVE  DirectInv /\ InTurnInv
  OBVIOUS
<1>1. inTurn \in BOOLEAN
  BY Zenon DEF Direct!Init
<1>2. 0 \in 0..Polls
  BY ConstantsAssumption DEF ConstantsAssumption
<1>3. Direct!TypeOK
  BY <1>1, <1>2 DEF Direct!Init, Direct!TypeOK, Direct!Outcomes
<1> QED
  BY <1>3 DEF Direct!Init, DirectInv, CallsInv, InTurnInv, Active

\* The node takes t's transaction, which has not been sent before.
LEMMA NodeTakesStep ==
  ASSUME DirectInv, NEW t \in Tasks, Direct!NodeTakes(t), fate[t] = "unsent",
         directPc[t] \in {"send", "returned"}, t \notin directLate',
         directLate' \subseteq directLate,
         UNCHANGED <<inTurn, account, directPc, nonce, directWaits, directLeft, directOutcome>>
  PROVE  /\ DirectInv'
         /\ fate'[t] = "pending"
         /\ \A s \in Tasks \ {t} :
              fate'[s] = fate[s] \/ (fate[s] = "pending" /\ fate'[s] = "dropped")
<1> USE DEF DirectInv, Direct!TypeOK
<1>1. \A s \in Tasks :
        fate'[s] = IF s = t THEN "pending"
                   ELSE IF fate[s] = "pending" /\ nonce[s] = nonce[t] THEN "dropped"
                   ELSE fate[s]
  BY DEF Direct!NodeTakes, Direct!PendingAt
<1>2. Direct!TypeOK'
  <2>1. fate' \in [Tasks -> {"unsent", "pending", "landed", "reverted", "dropped"}]
    BY DEF Direct!NodeTakes
  <2>2. directLate' \subseteq Tasks
    OBVIOUS
  <2> QED
    BY <2>1, <2>2
<1>3. CallsInv'
  <2>1. nonce[t] >= account
    BY DEF Direct!NodeTakes
  <2> QED
    BY <1>1, <2>1 DEF CallsInv
<1> QED
  BY <1>1, <1>2, <1>3

\* A task ends, with a result; one whose send failed may leave it to arrive.
LEMMA DirectReturns ==
  ASSUME DirectInv, NEW t \in Tasks, NEW result \in Direct!Outcomes \ {"none"},
         Direct!Return(t, result), directPc[t] \notin {"idle", "returned"},
         \/ UNCHANGED directLate
         \/ fate[t] = "unsent" /\ directLate' = directLate \union {t},
         UNCHANGED <<inTurn, account, fate, nonce, directWaits, directLeft>>
  PROVE  DirectInv'
<1> USE DEF DirectInv, Direct!TypeOK, Direct!Return
<1>1. Direct!TypeOK'
  <2>1. directPc' \in [Tasks -> {"idle", "nonce", "prepare", "send", "poll", "returned"}]
    OBVIOUS
  <2>2. directOutcome' \in [Tasks -> Direct!Outcomes]
    OBVIOUS
  <2>3. directLate' \subseteq Tasks
    OBVIOUS
  <2> QED
    BY <2>1, <2>2, <2>3
<1>2. CallsInv'
  BY DEF CallsInv
<1> QED
  BY <1>1, <1>2

LEMMA DirectInvStep ==
  ASSUME DirectInv, [Direct!Next]_directVars
  PROVE  DirectInv'
<1> USE DEF Direct!chainVars
<1>1. CASE UNCHANGED directVars
  BY <1>1 DEF directVars, DirectInv, Direct!TypeOK, CallsInv
<1>2. ASSUME NEW t \in Tasks, Direct!Mine(t)
      PROVE  DirectInv'
  BY <1>2 DEF Direct!Mine, DirectInv, Direct!TypeOK, CallsInv
<1>3. ASSUME NEW t \in Tasks, Direct!Evict(t)
      PROVE  DirectInv'
  BY <1>3 DEF Direct!Evict, DirectInv, Direct!TypeOK, CallsInv
<1>4. ASSUME NEW t \in Tasks, Direct!LateArrival(t)
      PROVE  DirectInv'
  <2>1. fate[t] = "unsent" /\ directPc[t] = "returned"
    BY <1>4 DEF Direct!LateArrival, DirectInv, CallsInv
  <2> QED
    BY <1>4, <2>1, NodeTakesStep DEF Direct!LateArrival
<1>5. ASSUME NEW t \in Tasks, Direct!Arrives(t)
      PROVE  DirectInv'
  <2>1. t \notin directLate
    BY <1>5 DEF Direct!Arrives, DirectInv, CallsInv
  <2> QED
    BY <1>5, <2>1, NodeTakesStep DEF Direct!Arrives
<1>6. ASSUME NEW t \in Tasks, Direct!Start(t) \/ Direct!Prepare(t)
      PROVE  DirectInv'
  <2>1. \E next \in {"nonce", "send"} :
          /\ next = "nonce" => directPc[t] = "idle"
          /\ next = "send" => directPc[t] = "prepare"
          /\ directPc' = [directPc EXCEPT ![t] = next]
          /\ UNCHANGED <<inTurn, account, fate, directLate, nonce, directWaits, directLeft,
                         directOutcome>>
    BY <1>6 DEF Direct!Start, Direct!Prepare
  <2> QED
    BY <2>1 DEF DirectInv, Direct!TypeOK, CallsInv
<1>7. ASSUME NEW t \in Tasks, Direct!ReadNonce(t)
      PROVE  DirectInv'
  <2>1. Direct!PendingCount \in Nat
    BY PendingCountIsFree DEF DirectInv, Direct!TypeOK
  <2> QED
    BY <1>7, <2>1 DEF Direct!ReadNonce, DirectInv, Direct!TypeOK, CallsInv
<1>8. ASSUME NEW t \in Tasks, Direct!Sent(t)
      PROVE  DirectInv'
  <2>1. CASE directWaits[t]
    <3>1. Polls \in 0..Polls
      BY ConstantsAssumption DEF ConstantsAssumption
    <3> QED
      BY <1>8, <2>1, <3>1 DEF Direct!Sent, DirectInv, Direct!TypeOK, CallsInv
  <2>2. CASE ~directWaits[t]
    BY <1>8, <2>2, DirectReturns DEF Direct!Sent, Direct!Outcomes
  <2> QED
    BY <2>1, <2>2
<1>9. ASSUME NEW t \in Tasks, Direct!NoReceipt(t)
      PROVE  DirectInv'
  <2>1. directLeft[t] - 1 \in 0..Polls
    BY <1>9, ConstantsAssumption
       DEF Direct!NoReceipt, DirectInv, Direct!TypeOK, ConstantsAssumption
  <2> QED
    BY <1>9, <2>1 DEF Direct!NoReceipt, DirectInv, Direct!TypeOK, CallsInv
<1>10. ASSUME NEW t \in Tasks, Direct!Receipt(t)
       PROVE  DirectInv'
  BY <1>10, DirectReturns DEF Direct!Receipt, Direct!Outcomes
<1>11. ASSUME NEW t \in Tasks,
              \/ Direct!SendRefused(t) \/ Direct!WaitExpires(t) \/ Direct!PreparationFails(t)
              \/ Direct!SendFails(t) \/ Direct!ReceiptFails(t)
       PROVE  DirectInv'
  BY <1>11, DirectReturns
     DEF Direct!SendRefused, Direct!WaitExpires, Direct!PreparationFails, Direct!SendFails,
         Direct!ReceiptFails, Direct!Outcomes
<1> QED
  BY <1>1, <1>2, <1>3, <1>4, <1>5, <1>6, <1>7, <1>8, <1>9, <1>10, <1>11
     DEF Direct!Next, Direct!Chain, Direct!Client, Direct!Fails, Direct!Finished,
         Direct!Enough, Direct!vars, directVars

\* In turn, the nonce of the call under way stays free until it is sent: what is
\* mined next is pending, so not at that nonce, and nobody else sends.
LEMMA InTurnInvStep ==
  ASSUME DirectInv, InTurnInv, [Direct!Next]_directVars
  PROVE  InTurnInv'
<1> SUFFICES ASSUME inTurn, inTurn'
             PROVE  InTurnInv'
  <2>1. UNCHANGED inTurn
    BY DEF Direct!Next, Direct!Chain, Direct!Client, Direct!Fails, Direct!Finished,
         Direct!Enough, Direct!vars, Direct!chainVars, directVars, Direct!Start, Direct!Mine,
         Direct!Evict, Direct!LateArrival, Direct!ReadNonce, Direct!Prepare, Direct!Arrives,
         Direct!Sent, Direct!SendRefused, Direct!Receipt, Direct!NoReceipt,
         Direct!WaitExpires, Direct!PreparationFails, Direct!SendFails, Direct!ReceiptFails
  <2> QED
    BY <2>1 DEF InTurnInv
<1> USE DEF Direct!chainVars, Active
<1>0. /\ directLate = {}
      /\ \A s, t \in Tasks : Active(s) /\ Active(t) => s = t
      /\ \A t \in Tasks :
           /\ directPc[t] \in {"prepare", "send"} /\ fate[t] = "unsent" => NonceIsFree(t)
           /\ directOutcome[t] # "refused"
  BY DEF InTurnInv
<1>1. CASE UNCHANGED directVars
  BY <1>0, <1>1 DEF directVars, InTurnInv, NonceIsFree, Direct!PendingAt
<1>2. ASSUME NEW t \in Tasks, Direct!Mine(t) \/ Direct!Evict(t)
      PROVE  InTurnInv'
  <2>1. /\ fate[t] = "pending" /\ fate'[t] # "pending"
        /\ \A s \in Tasks \ {t} : fate'[s] = fate[s]
        /\ account' = account \/ (account' = account + 1 /\ nonce[t] = account)
        /\ fate'[t] # "unsent"
        /\ UNCHANGED <<directLate, directPc, nonce, directOutcome>>
    BY <1>2 DEF Direct!Mine, Direct!Evict, DirectInv, Direct!TypeOK
  <2>2. ASSUME NEW s \in Tasks, directPc[s] \in {"prepare", "send"}, fate'[s] = "unsent"
        PROVE  NonceIsFree(s)'
    <3>1. s # t /\ NonceIsFree(s)
      BY <1>0, <2>1, <2>2
    <3>2. nonce[t] # nonce[s]
      BY <2>1, <3>1 DEF NonceIsFree, Direct!PendingAt
    <3>3. nonce'[s] >= account'
      BY <2>1, <3>1, <3>2 DEF NonceIsFree, DirectInv, Direct!TypeOK
    <3>4. Direct!PendingAt(nonce[s])' = {}
      BY <2>1, <3>1 DEF NonceIsFree, Direct!PendingAt
    <3> QED
      BY <2>1, <3>3, <3>4 DEF NonceIsFree, Direct!PendingAt
  <2> QED
    BY <1>0, <2>1, <2>2 DEF InTurnInv
<1>3. ASSUME NEW t \in Tasks, Direct!Start(t)
      PROVE  InTurnInv'
  <2>1. /\ directPc' = [directPc EXCEPT ![t] = "nonce"]
        /\ \A s \in Tasks : s # t => ~Active(s)
        /\ UNCHANGED <<account, fate, directLate, nonce, directOutcome>>
    BY <1>3 DEF Direct!Start
  <2> QED
    BY <1>0, <2>1
       DEF InTurnInv, NonceIsFree, Direct!PendingAt, DirectInv, Direct!TypeOK
<1>4. ASSUME NEW t \in Tasks, Direct!ReadNonce(t)
      PROVE  InTurnInv'
  <2>1. /\ directPc[t] = "nonce" /\ fate[t] = "unsent"
        /\ directPc' = [directPc EXCEPT ![t] = "prepare"]
        /\ nonce' = [nonce EXCEPT ![t] = Direct!PendingCount]
        /\ UNCHANGED <<account, fate, directLate, directOutcome>>
    BY <1>4 DEF Direct!ReadNonce, DirectInv, CallsInv
  <2>2. /\ Direct!PendingCount \in Nat /\ Direct!PendingCount >= account
        /\ Direct!PendingAt(Direct!PendingCount) = {}
    BY PendingCountIsFree DEF DirectInv, Direct!TypeOK
  <2>3. nonce'[t] = Direct!PendingCount /\ \A s \in Tasks : s # t => nonce'[s] = nonce[s]
    BY <2>1 DEF DirectInv, Direct!TypeOK
  <2>4. NonceIsFree(t)'
    BY <2>1, <2>2, <2>3 DEF NonceIsFree, Direct!PendingAt
  <2>5. \A s \in Tasks : s # t => ~Active(s) /\ directPc'[s] = directPc[s]
    BY <1>0, <2>1 DEF DirectInv, Direct!TypeOK
  <2>6. directPc'[t] = "prepare"
    BY <2>1 DEF DirectInv, Direct!TypeOK
  <2> QED
    BY <1>0, <2>1, <2>4, <2>5, <2>6 DEF InTurnInv
<1>5. ASSUME NEW t \in Tasks, Direct!Arrives(t)
      PROVE  InTurnInv'
  <2>1. directPc[t] = "send" /\ \A s \in Tasks : s # t => ~Active(s)
    BY <1>0, <1>5 DEF Direct!Arrives
  <2>2. fate'[t] = "pending" /\ UNCHANGED <<directLate, directPc, directOutcome>>
    BY <1>5 DEF Direct!Arrives, Direct!NodeTakes
  <2> QED
    BY <1>0, <2>1, <2>2 DEF InTurnInv
<1>6. ASSUME NEW t \in Tasks,
             \/ Direct!Prepare(t) \/ Direct!Sent(t) \/ Direct!Receipt(t) \/ Direct!NoReceipt(t)
             \/ Direct!WaitExpires(t) \/ Direct!PreparationFails(t) \/ Direct!SendFails(t)
             \/ Direct!ReceiptFails(t)
      PROVE  InTurnInv'
  <2>1. /\ Active(t)
        /\ directPc'[t] = "send" => directPc[t] = "prepare"
        /\ directPc'[t] # "prepare"
        /\ \A s \in Tasks : s # t => directPc'[s] = directPc[s]
        /\ directOutcome'[t] # "refused"
        /\ \A s \in Tasks : s # t => directOutcome'[s] = directOutcome[s]
        /\ UNCHANGED <<account, fate, nonce>>
    BY <1>0, <1>6
       DEF Direct!Prepare, Direct!Sent, Direct!Receipt, Direct!NoReceipt, Direct!WaitExpires,
           Direct!PreparationFails, Direct!SendFails, Direct!ReceiptFails, Direct!Return,
           DirectInv, Direct!TypeOK
  <2>2. directLate' = {}
    BY <1>0, <1>6
       DEF Direct!Prepare, Direct!Sent, Direct!Receipt, Direct!NoReceipt, Direct!WaitExpires,
           Direct!PreparationFails, Direct!SendFails, Direct!ReceiptFails
  <2> QED
    BY <1>0, <2>1, <2>2 DEF InTurnInv, NonceIsFree, Direct!PendingAt
<1>7. ASSUME NEW t \in Tasks, Direct!SendRefused(t)
      PROVE  FALSE
  <2>1. NonceIsFree(t)
    BY <1>0, <1>7 DEF Direct!SendRefused
  <2> QED
    BY <1>7, <2>1 DEF Direct!SendRefused, NonceIsFree, DirectInv, Direct!TypeOK
<1>8. ASSUME NEW t \in Tasks, Direct!LateArrival(t)
      PROVE  FALSE
  BY <1>0, <1>8 DEF Direct!LateArrival
<1> QED
  BY <1>1, <1>2, <1>3, <1>4, <1>5, <1>6, <1>7, <1>8
     DEF Direct!Next, Direct!Chain, Direct!Client, Direct!Fails, Direct!Finished,
         Direct!Enough, Direct!vars, directVars

LEMMA DirectInvariance == Direct!Spec => [](DirectInv /\ InTurnInv)
<1>1. DirectInv /\ InTurnInv /\ [Direct!Next]_Direct!vars => (DirectInv /\ InTurnInv)'
  BY DirectInvStep, InTurnInvStep DEF Direct!vars, directVars
<1> QED
  BY <1>1, DirectInvInit, PTL DEF Direct!Spec

\* What one task has told its caller of its transaction.
LEMMA DirectAnswers ==
  ASSUME NEW t \in Tasks, directOutcome[t] = "none",
         \/ directOutcome'[t] \in {"none", "refused", "error"}
         \/ directOutcome'[t] = "submitted" /\ fate[t] # "unsent" /\ ~directWaits[t]
         \/ directOutcome'[t] = "confirmed" /\ fate[t] = "landed"
         \/ directOutcome'[t] = "reverted" /\ fate[t] = "reverted",
         fate'[t] = fate[t], directWaits' = directWaits
  PROVE  Direct!Submission(t)!Next \/ UNCHANGED Direct!Submission(t)!vars
BY DEF Direct!Answer, Direct!Submission!Next, Direct!Submission!Tell, Direct!Submission!vars

\* The chain takes each transaction at most once and settles it at most once.
LEMMA DirectSettles ==
  ASSUME NEW t \in Tasks, directOutcome'[t] = directOutcome[t],
         directWaits' = directWaits,
         \/ fate'[t] = fate[t]
         \/ fate[t] = "unsent" /\ fate'[t] = "pending"
         \/ fate[t] = "pending" /\ fate'[t] \in {"landed", "reverted", "dropped"}
  PROVE  Direct!Submission(t)!Next \/ UNCHANGED Direct!Submission(t)!vars
BY DEF Direct!Answer, Direct!Submission!Next, Direct!Submission!Broadcast,
       Direct!Submission!Settle, Direct!Submission!vars

LEMMA DirectSubmits ==
  ASSUME DirectInv, [Direct!Next]_directVars, NEW s \in Tasks
  PROVE  Direct!Submission(s)!Next \/ UNCHANGED Direct!Submission(s)!vars
<1> DEFINE Goal == Direct!Submission(s)!Next \/ UNCHANGED Direct!Submission(s)!vars
<1> USE DEF Direct!chainVars
<1>0. directWaits' = directWaits
  BY DEF Direct!Next, Direct!Start, Direct!Chain, Direct!Client, Direct!Fails,
         Direct!Finished, Direct!Enough, Direct!vars, directVars, Direct!Mine, Direct!Evict,
         Direct!LateArrival, Direct!ReadNonce, Direct!Prepare, Direct!Arrives, Direct!Sent,
         Direct!SendRefused, Direct!Receipt, Direct!NoReceipt, Direct!WaitExpires,
         Direct!PreparationFails, Direct!SendFails, Direct!ReceiptFails
<1>1. CASE UNCHANGED directVars
  <2>1. fate'[s] = fate[s] /\ directOutcome'[s] = directOutcome[s]
    BY <1>1 DEF directVars
  <2> QED
    BY <2>1, <1>0, DirectSettles
<1>2. ASSUME NEW t \in Tasks, Direct!Mine(t) \/ Direct!Evict(t)
      PROVE  Goal
  <2>1. /\ directOutcome'[s] = directOutcome[s]
        /\ \/ fate'[s] = fate[s]
           \/ fate[s] = "pending" /\ fate'[s] \in {"landed", "reverted", "dropped"}
    BY <1>2 DEF Direct!Mine, Direct!Evict, DirectInv, Direct!TypeOK
  <2> QED
    BY <2>1, <1>0, DirectSettles
<1>3. ASSUME NEW t \in Tasks, Direct!LateArrival(t) \/ Direct!Arrives(t)
      PROVE  Goal
  <2>1. /\ fate[t] = "unsent" /\ directOutcome'[s] = directOutcome[s]
        /\ Direct!NodeTakes(t)
    BY <1>3 DEF Direct!LateArrival, Direct!Arrives, DirectInv, CallsInv
  <2>2. \/ fate'[s] = fate[s]
        \/ fate[s] = "unsent" /\ fate'[s] = "pending"
        \/ fate[s] = "pending" /\ fate'[s] = "dropped"
    BY <2>1 DEF Direct!NodeTakes, Direct!PendingAt
  <2> QED
    BY <2>1, <2>2, <1>0, DirectSettles
<1>4. ASSUME NEW t \in Tasks,
             Direct!Start(t) \/ Direct!ReadNonce(t) \/ Direct!Prepare(t) \/ Direct!NoReceipt(t)
      PROVE  Goal
  <2>1. fate'[s] = fate[s] /\ directOutcome'[s] = directOutcome[s]
    BY <1>4 DEF Direct!Start, Direct!ReadNonce, Direct!Prepare, Direct!NoReceipt
  <2> QED
    BY <2>1, <1>0, DirectSettles
<1>5. ASSUME NEW t \in Tasks,
             \/ Direct!Sent(t) \/ Direct!SendRefused(t) \/ Direct!Receipt(t)
             \/ Direct!WaitExpires(t) \/ Direct!PreparationFails(t) \/ Direct!SendFails(t)
             \/ Direct!ReceiptFails(t)
      PROVE  Goal
  <2>1. /\ fate' = fate /\ directPc[t] # "returned"
        /\ \/ directOutcome' = directOutcome
           \/ \E result \in {"refused", "error", "submitted", "confirmed", "reverted"} :
                /\ directOutcome' = [directOutcome EXCEPT ![t] = result]
                /\ result = "submitted" => fate[t] # "unsent" /\ ~directWaits[t]
                /\ result = "confirmed" => fate[t] = "landed"
                /\ result = "reverted" => fate[t] = "reverted"
    BY <1>5
       DEF Direct!Sent, Direct!SendRefused, Direct!Receipt, Direct!WaitExpires,
           Direct!PreparationFails, Direct!SendFails, Direct!ReceiptFails, Direct!Return
  <2>2. directOutcome[t] = "none"
    BY <2>1 DEF DirectInv, CallsInv
  <2>3. CASE directOutcome'[s] = directOutcome[s]
    BY <2>1, <1>0, <2>3, DirectSettles
  <2>4. CASE directOutcome'[s] # directOutcome[s]
    <3>1. s = t
      BY <2>1, <2>4 DEF DirectInv, Direct!TypeOK
    <3>2. PICK result \in {"refused", "error", "submitted", "confirmed", "reverted"} :
            /\ directOutcome' = [directOutcome EXCEPT ![t] = result]
            /\ result = "submitted" => fate[t] # "unsent" /\ ~directWaits[t]
            /\ result = "confirmed" => fate[t] = "landed"
            /\ result = "reverted" => fate[t] = "reverted"
      BY <2>1, <2>4
    <3>3. directOutcome'[s] = result /\ fate'[s] = fate[s]
      BY <2>1, <3>1, <3>2 DEF DirectInv, Direct!TypeOK
    <3> QED
      BY <2>2, <3>1, <3>2, <3>3, <1>0, DirectAnswers
  <2> QED
    BY <2>3, <2>4
<1> QED
  BY <1>1, <1>2, <1>3, <1>4, <1>5
     DEF Direct!Next, Direct!Chain, Direct!Client, Direct!Fails, Direct!Finished,
         Direct!Enough, Direct!vars, directVars

LEMMA DirectImplementation == Direct!Spec => Direct!ImplementsSubmission
<1>1. Direct!Init => \A t \in Tasks : Direct!Submission(t)!Init
  BY DEF Direct!Init, Direct!Submission!Init, Direct!Answer
<1>2. DirectInv /\ [Direct!Next]_Direct!vars =>
        [\A t \in Tasks : Direct!Submission(t)!Next \/ UNCHANGED Direct!Submission(t)!vars]_Direct!vars
  BY DirectSubmits DEF Direct!vars, directVars
<1> QED
  BY <1>1, <1>2, DirectInvariance, PTL DEF Direct!Spec, Direct!ImplementsSubmission

-----------------------------------------------------------------------------
(* The routes together *)

\* A contract write takes one route and leaves the others alone: each is as if
\* it were by itself.
LEMMA RoutesAreIndependent == WriteSpec => Spec /\ Raw!Spec /\ Direct!Spec
<1>1. WriteInit => Init /\ Raw!Init /\ Direct!Init
  BY DEF WriteInit
<1>2. [WriteNext]_allVars => [Next]_vars /\ [Raw!Next]_Raw!vars /\ [Direct!Next]_Direct!vars
  <2> SUFFICES ASSUME [WriteNext]_allVars
               PROVE  [Next]_vars /\ [Raw!Next]_Raw!vars /\ [Direct!Next]_Direct!vars
    OBVIOUS
  <2>1. (Next \/ UNCHANGED vars) /\ (Raw!Next \/ UNCHANGED rawVars)
           /\ (Direct!Next \/ UNCHANGED directVars)
    BY DEF WriteNext, RelayerStep, RawStep, DirectStep, allVars
  <2> QED
    BY <2>1 DEF Raw!vars, rawVars, Direct!vars, directVars
<1> QED
  BY <1>1, <1>2, PTL DEF WriteSpec, Spec, Raw!Spec, Direct!Spec

\* The state of every route is well-formed, whatever the gateway answers.
THEOREM TypeCorrect == WriteSpec => []RoutesTypeOK
<1>1. CallInv /\ RawInv /\ DirectInv => RoutesTypeOK
  BY DEF CallInv, RawInv, DirectInv, RoutesTypeOK
<1> QED
  BY <1>1, RoutesAreIndependent, CallInvariance, RawInvariance, DirectInvariance, PTL

\* One create makes one relay at most, in all its attempts and whatever is lost
\* on the way (relayer.py:51).
THEOREM OneRelay == ASSUME "503" \notin GatewayErrors PROVE WriteSpec => []AtMostOneRelay
<1>1. IInv => AtMostOneRelay
  BY DEF IInv, TypeOK, PlaceInv, AtMostOneRelay
<1>2. Spec => []IInv
  BY Invariance
<1> QED
  BY <1>1, <1>2, RoutesAreIndependent, PTL

\* A create that gives up on a busy relayer has left nothing behind.
THEOREM BusyIsUnsent == ASSUME "503" \notin GatewayErrors PROVE WriteSpec => []BusyMeansUnsent
<1>1. IInv => BusyMeansUnsent
  BY DEF IInv, OutcomeInv, Unsent, BusyMeansUnsent
<1>2. Spec => []IInv
  BY Invariance
<1> QED
  BY <1>1, <1>2, RoutesAreIndependent, PTL

\* The relayer's route does what submitting a transaction promises: it is
\* broadcast once at most, and what the caller is told of it is so.
THEOREM RelayerImplements ==
  ASSUME "503" \notin GatewayErrors, "bare" \notin Receipts
  PROVE  WriteSpec => ImplementsSubmission
<1>1. Spec => ImplementsSubmission
  BY Implementation
<1> QED
  BY <1>1, RoutesAreIndependent, PTL

\* So do the other two, with no condition: however often the tx-builder is
\* posted to, and whatever other tasks send with the same key.
THEOREM OthersImplement == WriteSpec => OtherRoutesImplementSubmission
BY RoutesAreIndependent, RawImplementation, DirectImplementation, PTL
   DEF OtherRoutesImplementSubmission

\* Calls of the direct route that are made one after another are never refused
\* for their nonce, and no two of their transactions compete for one: what is
\* pending counts (rpc.py:49).
THEOREM NoCollision == WriteSpec => []SendsDoNotCollide
<1>1. DirectInv /\ InTurnInv => SendsDoNotCollide
  BY DEF DirectInv, CallsInv, InTurnInv, SendsDoNotCollide, Direct!SendsDoNotCollide
<1> QED
  BY <1>1, RoutesAreIndependent, DirectInvariance, PTL
=============================================================================
