----------------------------- MODULE DirectSend -----------------------------
(***************************************************************************)
(* The direct route: ExecutionEngine.submit_direct (execution/engine.py)   *)
(* reads the account's nonce, prepares and signs a transaction, sends it   *)
(* through JsonRpcClient (execution/rpc.py) and waits for its receipt.     *)
(* Every step awaits, so the calls of several tasks over one key           *)
(* interleave between the nonce that is read and the one that is used.     *)
(*                                                                         *)
(* The node and the chain are external.  The node holds one pending        *)
(* transaction per nonce; another for the same nonce is refused or, for a  *)
(* higher fee, replaces it.                                                *)
(***************************************************************************)
EXTENDS Integers, FiniteSets

CONSTANTS
  Tasks,     \* the calls of submit_direct
  Together,  \* bound: calls made together
  Polls      \* the timeout of wait_for_receipt, in poll intervals

VARIABLES
  inTurn,   \* a call is made when those before have returned, and a send that
            \* failed at the client does not arrive after that
  \* the chain and the node (external)
  account,  \* the nonce of the account: transactions of it that are mined
  fate,     \* of each task's transaction
  late,     \* tasks whose send may still arrive
  \* the client
  pc,
  nonce,    \* the nonce a task has read
  waits,
  left,
  outcome

chainVars == <<inTurn, account, fate, late>>
vars == <<inTurn, account, fate, late, pc, nonce, waits, left, outcome>>

\* "error": an RpcError, or the ValueError of an answer that is not JSON.
Outcomes == {"none", "submitted", "confirmed", "reverted", "refused", "error"}

TypeOK ==
  /\ inTurn \in BOOLEAN
  /\ account \in Nat
  /\ fate \in [Tasks -> {"unsent", "pending", "landed", "reverted", "dropped"}]
  /\ late \subseteq Tasks
  /\ pc \in [Tasks -> {"idle", "nonce", "prepare", "send", "poll", "returned"}]
  /\ nonce \in [Tasks -> Nat]
  /\ waits \in [Tasks -> BOOLEAN]
  /\ left \in [Tasks -> 0..Polls]
  /\ outcome \in [Tasks -> Outcomes]

Init ==
  /\ inTurn \in BOOLEAN
  /\ account = 0
  /\ fate = [t \in Tasks |-> "unsent"]
  /\ late = {}
  /\ pc = [t \in Tasks |-> "idle"]
  /\ nonce = [t \in Tasks |-> 0]
  /\ waits \in [Tasks -> BOOLEAN]
  /\ left = [t \in Tasks |-> 0]
  /\ outcome = [t \in Tasks |-> "none"]

-----------------------------------------------------------------------------
(* The chain and the node *)

PendingAt(n) == {t \in Tasks : fate[t] = "pending" /\ nonce[t] = n}

\* eth_getTransactionCount of the pending block: pending transactions count
\* as far as they follow the mined ones without a gap.
PendingCount ==
  CHOOSE n \in account..(account + Cardinality(Tasks)) :
    /\ PendingAt(n) = {}
    /\ \A m \in account..(n - 1) : PendingAt(m) # {}

Mine(t) ==
  /\ fate[t] = "pending"
  /\ nonce[t] = account
  /\ account' = account + 1
  /\ \E f \in {"landed", "reverted"} : fate' = [fate EXCEPT ![t] = f]
  /\ UNCHANGED <<inTurn, late, pc, nonce, waits, left, outcome>>

\* The node forgets a pending transaction.
Evict(t) ==
  /\ fate[t] = "pending"
  /\ fate' = [fate EXCEPT ![t] = "dropped"]
  /\ UNCHANGED <<inTurn, account, late, pc, nonce, waits, left, outcome>>

\* The node takes t's transaction, in place of a pending one if there is one.
NodeTakes(t) ==
  /\ nonce[t] >= account
  /\ fate' = [s \in Tasks |->
                IF s = t THEN "pending"
                ELSE IF s \in PendingAt(nonce[t]) THEN "dropped"
                ELSE fate[s]]

Arrives(t) ==
  /\ pc[t] = "send"
  /\ fate[t] = "unsent"
  /\ NodeTakes(t)
  /\ UNCHANGED <<inTurn, account, late, pc, nonce, waits, left, outcome>>

\* A send that its client has given up.
LateArrival(t) ==
  /\ t \in late
  /\ late' = late \ {t}
  /\ NodeTakes(t)
  /\ UNCHANGED <<inTurn, account, pc, nonce, waits, left, outcome>>

-----------------------------------------------------------------------------
(* submit_direct *)

Return(t, result) ==
  /\ pc' = [pc EXCEPT ![t] = "returned"]
  /\ outcome' = [outcome EXCEPT ![t] = result]

Start(t) ==
  /\ pc[t] = "idle"
  /\ LET others == {s \in Tasks : pc[s] # "idle"}
     IN  IF inTurn
         THEN \A s \in others : pc[s] = "returned"
         ELSE Cardinality(others) < Together
  /\ pc' = [pc EXCEPT ![t] = "nonce"]
  /\ UNCHANGED <<chainVars, nonce, waits, left, outcome>>

\* Mutant: the nonce of the latest block.
ReadLatestNonce(t) ==
  /\ pc[t] = "nonce"
  /\ nonce' = [nonce EXCEPT ![t] = account]
  /\ pc' = [pc EXCEPT ![t] = "prepare"]
  /\ UNCHANGED <<chainVars, waits, left, outcome>>

ReadNonce(t) ==
  /\ pc[t] = "nonce"
  /\ nonce' = [nonce EXCEPT ![t] = PendingCount]
  /\ pc' = [pc EXCEPT ![t] = "prepare"]
  /\ UNCHANGED <<chainVars, waits, left, outcome>>

\* Gas, fees and chain id are fetched and the transaction is signed.
Prepare(t) ==
  /\ pc[t] = "prepare"
  /\ pc' = [pc EXCEPT ![t] = "send"]
  /\ UNCHANGED <<chainVars, nonce, waits, left, outcome>>

\* A request before the send fails.
PreparationFails(t) ==
  /\ pc[t] \in {"nonce", "prepare"}
  /\ Return(t, "error")
  /\ UNCHANGED <<chainVars, nonce, waits, left>>

\* eth_sendRawTransaction answers.
Sent(t) ==
  /\ pc[t] = "send"
  /\ fate[t] # "unsent"
  /\ IF waits[t]
     THEN /\ pc' = [pc EXCEPT ![t] = "poll"]
          /\ left' = [left EXCEPT ![t] = Polls]
          /\ UNCHANGED outcome
     ELSE Return(t, "submitted") /\ UNCHANGED left
  /\ UNCHANGED <<chainVars, nonce, waits>>

\* The nonce is used, or taken by a transaction that pays as much.
SendRefused(t) ==
  /\ pc[t] = "send"
  /\ fate[t] = "unsent"
  /\ nonce[t] < account \/ PendingAt(nonce[t]) # {}
  /\ Return(t, "refused")
  /\ UNCHANGED <<chainVars, nonce, waits, left>>

\* No answer, or none in JSON: the node has the transaction, never gets it,
\* or gets it later.
SendFails(t) ==
  /\ pc[t] = "send"
  /\ Return(t, "error")
  /\ late' \in {late} \union
       (IF ~inTurn /\ fate[t] = "unsent" THEN {late \union {t}} ELSE {})
  /\ UNCHANGED <<inTurn, account, fate, nonce, waits, left>>

-----------------------------------------------------------------------------
(* wait_for_receipt *)

Receipt(t) ==
  /\ pc[t] = "poll"
  /\ left[t] > 0
  /\ fate[t] \in {"landed", "reverted"}
  /\ Return(t, IF fate[t] = "landed" THEN "confirmed" ELSE "reverted")
  /\ UNCHANGED <<chainVars, nonce, waits, left>>

\* Mutant: the deadline is checked after the poll.
NoReceiptYet(t) ==
  /\ pc[t] = "poll"
  /\ fate[t] \notin {"landed", "reverted"}
  /\ left' = [left EXCEPT ![t] = @ - 1]
  /\ UNCHANGED <<chainVars, pc, nonce, waits, outcome>>

NoReceipt(t) ==
  /\ pc[t] = "poll"
  /\ left[t] > 0
  /\ fate[t] \notin {"landed", "reverted"}
  /\ left' = [left EXCEPT ![t] = @ - 1]
  /\ UNCHANGED <<chainVars, pc, nonce, waits, outcome>>

\* One request that fails ends the wait.
ReceiptFails(t) ==
  /\ pc[t] = "poll"
  /\ left[t] > 0
  /\ Return(t, "error")
  /\ UNCHANGED <<chainVars, nonce, waits, left>>

WaitExpires(t) ==
  /\ pc[t] = "poll"
  /\ left[t] = 0
  /\ Return(t, "error")
  /\ UNCHANGED <<chainVars, nonce, waits, left>>

Finished ==
  /\ \A t \in Tasks : pc[t] = "returned"
  /\ UNCHANGED vars

\* The bound on the calls made together is reached.
Enough ==
  /\ ~inTurn
  /\ Cardinality({t \in Tasks : pc[t] = "returned"}) = Together
  /\ UNCHANGED vars

Chain(t) == Mine(t) \/ Evict(t) \/ LateArrival(t)

Client(t) ==
  \/ ReadNonce(t)
  \/ Prepare(t)
  \/ Arrives(t)
  \/ Sent(t)
  \/ SendRefused(t)
  \/ Receipt(t)
  \/ NoReceipt(t)
  \/ WaitExpires(t)

Fails(t) == PreparationFails(t) \/ SendFails(t) \/ ReceiptFails(t)

Next ==
  \/ \E t \in Tasks : Start(t) \/ Chain(t) \/ Client(t) \/ Fails(t)
  \/ Finished
  \/ Enough

Spec == Init /\ [][Next]_vars

\* A call that can go on does.
FairSpec == Spec /\ \A t \in Tasks : WF_vars(Client(t))

-----------------------------------------------------------------------------
(* Properties *)

Answer(t) ==
  CASE outcome[t] = "none"     -> "waiting"
    [] outcome[t] = "reverted" -> "failed"
    [] outcome[t] \in {"submitted", "confirmed"} -> outcome[t]
    [] OTHER                   -> "error"

Submission(t) == INSTANCE TxSubmission WITH
  tx <- fate[t], waits <- waits[t], answer <- Answer(t)

\* Whatever other tasks do with the same key, a call reports as mined or
\* reverted only its own transaction, even when another took its nonce, and one
\* that waits gets no receipt before.
ImplementsSubmission ==
  /\ \A t \in Tasks : Submission(t)!Init
  /\ [][\A t \in Tasks : Submission(t)!Next \/ UNCHANGED Submission(t)!vars]_vars

\* A call that has started returns: the wait for the receipt has a deadline.
CallsReturn == \A t \in Tasks : pc[t] = "nonce" ~> pc[t] = "returned"

\* Calls made one after another do not get in each other's way, also when one
\* did not wait or gave up: the nonce counts what is pending
\* (get_transaction_count's "pending", rpc.py:49).
SendsDoNotCollide ==
  inTurn =>
  /\ \A t \in Tasks : outcome[t] # "refused"
  /\ \A s, t \in Tasks : s # t /\ fate[s] = "pending" /\ fate[t] = "pending"
       => nonce[s] # nonce[t]
=============================================================================
