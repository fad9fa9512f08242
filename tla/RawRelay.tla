------------------------------ MODULE RawRelay ------------------------------
(***************************************************************************)
(* A raw transaction, signed by the caller, through the tx-builder:        *)
(* ExecutionEngine.submit_via_txbuilder_relay (execution/engine.py), the   *)
(* calls of TxBuilderClient it makes and the retries of                    *)
(* HttpTransport.request, which repeat the POST too.                       *)
(*                                                                         *)
(* The tx-builder and the chain are external.  The transaction is one and  *)
(* the same in every POST; a repeated one may be accepted again or refused.*)
(***************************************************************************)
EXTENDS Integers

CONSTANTS
  Retries,  \* times the transport repeats a failed request
  Polls     \* status requests made before the call gives up waiting

VARIABLES
  tx,       \* the transaction on the chain (external)
  late,     \* a POST given up by the client may still arrive (external)
  pc,
  waits,    \* the wait argument
  tries,    \* attempt of the transport's request
  polled,   \* status requests made
  outcome

vars == <<tx, late, pc, waits, tries, polled, outcome>>

Outcomes == {"none", "submitted", "unconfirmed", "confirmed", "reverted", "api_error"}

TypeOK ==
  /\ tx \in {"unsent", "pending", "landed", "reverted", "dropped"}
  /\ late \in BOOLEAN
  /\ pc \in {"posting", "poll", "getting", "returned"}
  /\ waits \in BOOLEAN
  /\ tries \in 0..Retries
  /\ polled \in 0..Polls
  /\ outcome \in Outcomes

Init ==
  /\ tx = "unsent"
  /\ late = FALSE
  /\ pc = "posting"
  /\ waits \in BOOLEAN
  /\ tries = 0
  /\ polled = 0
  /\ outcome = "none"

Return(result) ==
  /\ pc' = "returned"
  /\ outcome' = result

-----------------------------------------------------------------------------
(* The chain *)

Settles ==
  /\ tx = "pending"
  /\ tx' \in {"landed", "reverted", "dropped"}
  /\ UNCHANGED <<late, pc, waits, tries, polled, outcome>>

\* A POST arrives, the one under way or one given up on; the tx-builder
\* broadcasts what it carries.
Arrives ==
  /\ pc = "posting" \/ late
  /\ tx = "unsent"
  /\ tx' = "pending"
  /\ UNCHANGED <<late, pc, waits, tries, polled, outcome>>

-----------------------------------------------------------------------------
(* The client *)

\* relay_raw answers with the hash of the transaction it broadcast.
Relayed ==
  /\ pc = "posting"
  /\ tx # "unsent"
  /\ IF waits
     THEN pc' = "poll" /\ UNCHANGED outcome
     ELSE Return("submitted")
  /\ UNCHANGED <<tx, late, waits, tries, polled>>

\* An error envelope, for a simulation that failed say; a repeated POST can
\* get one because the first has done its work.
Refused ==
  /\ pc = "posting"
  /\ Return("api_error")
  /\ UNCHANGED <<tx, late, waits, tries, polled>>

\* A network failure or a 502, 503 or 504, of a request that was handled or
\* not, is repeated.
RelayFails ==
  /\ pc = "posting"
  /\ late' = TRUE
  /\ IF tries < Retries
     THEN tries' = tries + 1 /\ UNCHANGED <<pc, outcome>>
     ELSE Return("api_error") /\ UNCHANGED tries
  /\ UNCHANGED <<tx, waits, polled>>

Ask ==
  /\ pc = "poll"
  /\ polled < Polls
  /\ polled' = polled + 1
  /\ tries' = 0
  /\ pc' = "getting"
  /\ UNCHANGED <<tx, late, waits, outcome>>

\* Mutant: the answer is not told from a revert.
StatusAnyOutcome ==
  /\ pc = "getting"
  /\ IF tx \in {"landed", "reverted"}
     THEN Return("confirmed")
     ELSE pc' = "poll" /\ UNCHANGED outcome
  /\ UNCHANGED <<tx, late, waits, tries, polled>>

StatusReply ==
  /\ pc = "getting"
  /\ CASE tx = "landed"   -> Return("confirmed")
       [] tx = "reverted" -> Return("reverted")
       [] OTHER           -> pc' = "poll" /\ UNCHANGED outcome
  /\ UNCHANGED <<tx, late, waits, tries, polled>>

\* As for the POST; an error envelope is an ApiError at once.
StatusFails ==
  /\ pc = "getting"
  /\ \/ tries < Retries /\ tries' = tries + 1 /\ UNCHANGED <<pc, outcome>>
     \/ Return("api_error") /\ UNCHANGED tries
  /\ UNCHANGED <<tx, late, waits, polled>>

\* The loop ends and the receipt of the POST is returned, like that of a
\* transaction that landed.
GivesUp ==
  /\ pc = "poll"
  /\ polled = Polls
  /\ Return("unconfirmed")
  /\ UNCHANGED <<tx, late, waits, tries, polled>>

Finished ==
  /\ pc = "returned"
  /\ UNCHANGED vars

Client ==
  \/ Relayed
  \/ Refused
  \/ RelayFails
  \/ Ask
  \/ StatusReply
  \/ StatusFails
  \/ GivesUp

Next == Settles \/ Arrives \/ Client \/ Finished

Spec == Init /\ [][Next]_vars

FairSpec == Spec /\ WF_vars(Client)

-----------------------------------------------------------------------------
(* Properties *)

Answer ==
  CASE outcome = "none"      -> "waiting"
    [] outcome \in {"submitted", "unconfirmed"} -> "submitted"
    [] outcome = "confirmed" -> "confirmed"
    [] outcome = "reverted"  -> "failed"
    [] OTHER                 -> "error"

Submission == INSTANCE TxSubmission WITH answer <- Answer

\* A receipt is of a transaction that was broadcast, once however often it was
\* posted; a status taken for "confirmed" or "reverted" is so.  Of a wait that
\* runs out, which submitting a transaction does not allow for, no more is said
\* than that its receipt is of a transaction that was broadcast.
WaitRanOut == GivesUp /\ tx # "unsent"
ImplementsSubmission ==
  /\ Submission!Init
  /\ [][Submission!Next \/ UNCHANGED Submission!vars \/ WaitRanOut]_vars

\* "the receipt confirms your transaction landed" (concepts.mdx:46), if the call
\* was asked to wait for it.  It does not: engine.py:299 returns the receipt of
\* the POST when the polling ends.
WaitedReceiptLanded ==
  waits /\ outcome \in {"confirmed", "unconfirmed"} => tx = "landed"

\* The call returns: neither the POST nor a status is repeated for ever.
CallReturns == <>(pc = "returned")
=============================================================================
