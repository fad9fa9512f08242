----------------------------- MODULE BlitzRelay -----------------------------
(***************************************************************************)
(* One smart-account transaction through the blitz relayer: the POST of    *)
(* RelayerClient.create (execution/relayer.py) and the polling of wait, as *)
(* ExecutionEngine.submit_passthrough calls them, with the retries that    *)
(* HttpTransport.request makes under them.                                 *)
(*                                                                         *)
(* The relayer and the network are external: a POST is taken, refused,     *)
(* answered 503 by a relayer whose wallets are busy, or fails on the way   *)
(* before or after the relayer took it.                                    *)
(***************************************************************************)
EXTENDS Integers, Sequences

CONSTANTS
  Attempts,      \* POSTs that create makes while the relayer is busy
  Retries,       \* times the transport repeats a failed GET
  Polls,         \* the timeout of wait, in poll intervals
  GatewayErrors, \* statuses a gateway may answer for a request it passed on
  Receipts       \* receipts a finalised relay is reported with

ASSUME ConstantsAssumption ==
  /\ Attempts \in Nat \ {0}
  /\ Retries \in Nat
  /\ Polls \in Nat
  /\ GatewayErrors \subseteq {"502", "503", "504"}
  /\ Receipts \subseteq {"status", "bare"}

VARIABLES
  \* the relayer and the network (external)
  relays,   \* the transactions of the relays it created
  post,     \* the POST under way, and the relay it made
  late,     \* POSTs given up by the client that may still arrive
  \* the client
  pc,
  waits,    \* the wait argument of submit_passthrough
  attempt,
  request,  \* the request id: the index of the relay
  tries,    \* attempt of the transport's request
  left,     \* poll intervals left before the deadline
  outcome

netVars == <<relays, post, late>>
clientVars == <<pc, waits, attempt, request, tries, left, outcome>>
vars == <<relays, post, late, pc, waits, attempt, request, tries, left, outcome>>

NoPost == [at |-> "none", relay |-> 0]
Fates == {"pending", "landed", "reverted", "dropped"}
Outcomes == {"none", "submitted", "confirmed", "reverted", "failed", "rejected",
             "busy", "api_error", "unknown_relay", "timeout"}

TypeOK ==
  /\ relays \in Seq(Fates)
  /\ post \in [at : {"none", "sent", "accepted", "busy", "rejected"}, relay : Nat]
  /\ late \in Nat
  /\ pc \in {"create", "posting", "poll", "getting", "returned"}
  /\ waits \in BOOLEAN
  /\ attempt \in 0..Attempts
  /\ request \in Nat
  /\ tries \in 0..Retries
  /\ left \in 0..Polls
  /\ outcome \in Outcomes

Init ==
  /\ relays = <<>>
  /\ post = NoPost
  /\ late = 0
  /\ pc = "create"
  /\ waits \in BOOLEAN
  /\ attempt = 0
  /\ request = 0
  /\ tries = 0
  /\ left = 0
  /\ outcome = "none"

Return(result) ==
  /\ pc' = "returned"
  /\ outcome' = result

-----------------------------------------------------------------------------
(* The relayer and the network *)

RelayerTakes ==
  /\ post.at = "sent"
  /\ relays' = Append(relays, "pending")
  /\ post' = [at |-> "accepted", relay |-> Len(relays) + 1]
  /\ UNCHANGED <<late, clientVars>>

RelayerDeclines(how) ==
  /\ post.at = "sent"
  /\ post' = [NoPost EXCEPT !.at = how]
  /\ UNCHANGED <<relays, late, clientVars>>

\* A gateway gives up on a request that has reached the relayer or still may.
GatewayAnswers(status) ==
  /\ post.at \in {"sent", "accepted"}
  /\ post' = [NoPost EXCEPT !.at = IF status = "503" THEN "busy" ELSE "rejected"]
  /\ late' = IF post.at = "sent" THEN late + 1 ELSE late
  /\ UNCHANGED <<relays, clientVars>>

LateArrival ==
  /\ late > 0
  /\ late' = late - 1
  /\ relays' \in {relays, Append(relays, "pending")}
  /\ UNCHANGED <<post, clientVars>>

Settles(i, fate) ==
  /\ relays[i] = "pending"
  /\ relays' = [relays EXCEPT ![i] = fate]
  /\ UNCHANGED <<post, late, clientVars>>

Network ==
  \/ RelayerTakes
  \/ \E how \in {"busy", "rejected"} : RelayerDeclines(how)
  \/ \E status \in GatewayErrors : GatewayAnswers(status)
  \/ LateArrival
  \/ \E i \in 1..Len(relays), fate \in Fates \ {"pending"} : Settles(i, fate)

-----------------------------------------------------------------------------
(* create *)

Post ==
  /\ pc = "create"
  /\ attempt < Attempts
  /\ post' = [NoPost EXCEPT !.at = "sent"]
  /\ pc' = "posting"
  /\ UNCHANGED <<relays, late, waits, attempt, request, tries, left, outcome>>

\* 503: every wallet is busy.  Sleep and post again.
PostBusy ==
  /\ pc = "posting"
  /\ post.at = "busy"
  /\ post' = NoPost
  /\ attempt' = attempt + 1
  /\ pc' = "create"
  /\ UNCHANGED <<relays, late, waits, request, tries, left, outcome>>

PostGivesUp ==
  /\ pc = "create"
  /\ attempt = Attempts
  /\ Return("busy")
  /\ UNCHANGED <<netVars, waits, attempt, request, tries, left>>

PostRejected ==
  /\ pc = "posting"
  /\ post.at = "rejected"
  /\ post' = NoPost
  /\ Return("rejected")
  /\ UNCHANGED <<relays, late, waits, attempt, request, tries, left>>

\* Mutant: the transport posts again after a network failure.
PostFailsThenRepeats ==
  /\ pc = "posting"
  /\ post' = NoPost
  /\ late' = IF post.at = "sent" THEN late + 1 ELSE late
  /\ IF attempt + 1 < Attempts
     THEN pc' = "create" /\ attempt' = attempt + 1 /\ UNCHANGED outcome
     ELSE Return("api_error") /\ UNCHANGED attempt
  /\ UNCHANGED <<relays, waits, request, tries, left>>

\* No answer: a network failure, which retries=0 does not repeat.
PostFails ==
  /\ pc = "posting"
  /\ post' = NoPost
  /\ late' = IF post.at = "sent" THEN late + 1 ELSE late
  /\ Return("api_error")
  /\ UNCHANGED <<relays, waits, attempt, request, tries, left>>

PostAccepted ==
  /\ pc = "posting"
  /\ post.at = "accepted"
  /\ request' = post.relay
  /\ post' = NoPost
  /\ IF waits
     THEN pc' = "poll" /\ left' = Polls /\ UNCHANGED outcome
     ELSE Return("submitted") /\ UNCHANGED left
  /\ UNCHANGED <<relays, late, waits, attempt, tries>>

-----------------------------------------------------------------------------
(* wait *)

Ask ==
  /\ pc = "poll"
  /\ left > 0
  /\ pc' = "getting"
  /\ tries' = 0
  /\ UNCHANGED <<netVars, waits, attempt, request, left, outcome>>

PollExpires ==
  /\ pc = "poll"
  /\ left = 0
  /\ Return("timeout")
  /\ UNCHANGED <<netVars, waits, attempt, request, tries, left>>

\* Mutant: the deadline is computed in the loop.
PauseAnew ==
  /\ pc' = "poll"
  /\ left' = Polls
  /\ UNCHANGED outcome

\* Not settled: sleep for a poll interval, at least.
Pause ==
  /\ pc' = "poll"
  /\ left' \in 0..(left - 1)
  /\ UNCHANGED outcome

\* Mutant: a finalised relay is a success.
ReadingOfState(fate, receipt) ==
  CASE fate = "pending" -> "none"
    [] fate = "dropped" -> "failed"
    [] OTHER            -> "confirmed"

\* _parse_status: a finalised relay whose receipt has no status has succeeded.
Reading(fate, receipt) ==
  CASE fate = "pending" -> "none"
    [] fate = "dropped" -> "failed"
    [] fate = "reverted" /\ receipt = "status" -> "reverted"
    [] OTHER            -> "confirmed"

StatusReply(receipt) ==
  /\ pc = "getting"
  /\ LET result == Reading(relays[request], receipt)
     IN  IF result = "none" THEN Pause ELSE Return(result) /\ UNCHANGED left
  /\ UNCHANGED <<netVars, waits, attempt, request, tries>>

\* An error status with a JSON body, which has no relay state in it, reads as
\* a relay that is not settled; the retryable ones only after the last try.
StatusUnreadable ==
  /\ pc = "getting"
  /\ Pause
  /\ UNCHANGED <<netVars, waits, attempt, request, tries>>

\* A network failure or a retryable status is repeated; after the last try,
\* and at once for an answer that is not JSON, an ApiError.
StatusFails ==
  /\ pc = "getting"
  /\ \/ tries < Retries /\ tries' = tries + 1 /\ UNCHANGED <<pc, outcome>>
     \/ Return("api_error") /\ UNCHANGED tries
  /\ UNCHANGED <<netVars, waits, attempt, request, left>>

\* 404
StatusUnknown ==
  /\ pc = "getting"
  /\ Return("unknown_relay")
  /\ UNCHANGED <<netVars, waits, attempt, request, tries, left>>

Finished ==
  /\ pc = "returned"
  /\ UNCHANGED vars

Client ==
  \/ Post
  \/ PostBusy
  \/ PostGivesUp
  \/ PostRejected
  \/ PostFails
  \/ PostAccepted
  \/ Ask
  \/ PollExpires
  \/ \E receipt \in Receipts : StatusReply(receipt)
  \/ StatusUnreadable
  \/ StatusFails
  \/ StatusUnknown

Next == Network \/ Client \/ Finished

Spec == Init /\ [][Next]_vars

\* The event loop runs, and a request that is not answered times out.
FairSpec == Spec /\ WF_vars(Client)

-----------------------------------------------------------------------------
(* Properties *)

\* One create makes one relay at most, in all its attempts and whatever is
\* lost on the way: "a blind re-POST after an ambiguous network failure could
\* double-broadcast" (relayer.py:51).  It rests on a 503 being the relayer's
\* own: "503" \notin GatewayErrors.
AtMostOneRelay == Len(relays) <= 1

\* When create gives up on a busy relayer the transaction was not taken and no
\* POST is left that could bring it there, so the caller may submit it anew.
BusyMeansUnsent == outcome = "busy" => relays = <<>> /\ late = 0

\* The transaction and the caller's answer, as TxSubmission has them; a
\* transaction broadcast twice is none of its states.
Tx ==
  CASE relays = <<>>    -> "unsent"
    [] Len(relays) = 1  -> relays[1]
    [] OTHER            -> "twice"

Answer ==
  CASE outcome = "none" -> "waiting"
    [] outcome \in {"submitted", "confirmed"} -> outcome
    [] outcome \in {"reverted", "failed"} -> "failed"
    [] OTHER -> "error"

Submission == INSTANCE TxSubmission WITH tx <- Tx, answer <- Answer

\* A relay reported as landed has landed, one reported as failed has not,
\* and a call that waits gets no receipt before.  It rests on the receipt of a
\* reverted one saying so: "bare" \notin Receipts.
ImplementsSubmission == Submission!Spec

\* submit_passthrough returns: the busy relayer is tried a bounded number of
\* times, the transport gives up, and the polling has a deadline.
CallReturns == <>(pc = "returned")
=============================================================================
