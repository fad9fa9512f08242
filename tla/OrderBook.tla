----------------------------- MODULE OrderBook -----------------------------
(***************************************************************************)
(* What the calls on stored orders promise together: each signed order is  *)
(* placed once at most, a replacement takes the place of one live order in *)
(* the same step, a removed order does not come back, and a caller is told *)
(* of a placement or a removal only as it happens.                         *)
(***************************************************************************)
CONSTANT Intents    \* the signed orders

VARIABLES
  state,       \* of each signed order
  confirmed,   \* orders reported as placed
  withdrawn    \* orders reported as cancelled

vars == <<state, confirmed, withdrawn>>

Init ==
  /\ state = [i \in Intents |-> "unborn"]
  /\ confirmed = {}
  /\ withdrawn = {}

Place(i) ==
  /\ state[i] = "unborn"
  /\ \/ state' = [state EXCEPT ![i] = "live"]
     \/ \E j \in Intents : /\ state[j] = "live"
                           /\ state' = [state EXCEPT ![i] = "live", ![j] = "gone"]
  /\ confirmed' \in {confirmed, confirmed \cup {i}}
  /\ UNCHANGED withdrawn

Remove(i) ==
  /\ state[i] = "live"
  /\ state' = [state EXCEPT ![i] = "gone"]
  /\ withdrawn' \in {withdrawn, withdrawn \cup {i}}
  /\ UNCHANGED confirmed

Next == \E i \in Intents : Place(i) \/ Remove(i)

Spec == Init /\ [][Next]_vars
=============================================================================
