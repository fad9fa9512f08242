---------------------------- MODULE TxSubmission ----------------------------
(***************************************************************************)
(* What submitting one transaction promises its caller, on every route     *)
(* that ends in a transaction of the caller's account: it is broadcast     *)
(* once at most, and what the caller is told about it is so.  An error may *)
(* leave its fate open.                                                    *)
(***************************************************************************)

VARIABLES
  tx,      \* the transaction
  waits,   \* whether the caller waits for its end
  answer   \* what the call has told its caller

vars == <<tx, waits, answer>>

TypeOK ==
  /\ tx \in {"unsent", "pending", "landed", "reverted", "dropped"}
  /\ waits \in BOOLEAN
  /\ answer \in {"waiting", "submitted", "confirmed", "failed", "error"}

Init ==
  /\ tx = "unsent"
  /\ waits \in BOOLEAN
  /\ answer = "waiting"

Broadcast ==
  /\ tx = "unsent"
  /\ tx' = "pending"
  /\ UNCHANGED <<waits, answer>>

Settle ==
  /\ tx = "pending"
  /\ tx' \in {"landed", "reverted", "dropped"}
  /\ UNCHANGED <<waits, answer>>

\* A receipt is of a transaction that was taken, if the caller does not wait, and
\* of one that has landed if it does.
Tell ==
  /\ answer = "waiting"
  /\ \/ answer' = "submitted" /\ tx # "unsent" /\ ~waits
     \/ answer' = "confirmed" /\ tx = "landed"
     \/ answer' = "failed"    /\ tx \in {"reverted", "dropped"}
     \/ answer' = "error"
  /\ UNCHANGED <<tx, waits>>

Next == Broadcast \/ Settle \/ Tell

Spec == Init /\ [][Next]_vars
=============================================================================
