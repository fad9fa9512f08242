--------------------------- MODULE OrderSettlement ---------------------------
(***************************************************************************)
(* What settling one market order promises its caller.  The service owns   *)
(* a verdict on the order and decides it once; the caller asks for it and  *)
(* is told the verdict, or that it is not known yet, in which case it may  *)
(* ask again.  It is never told anything else, whatever happens to the     *)
(* connection, and what it was told is final.                              *)
(***************************************************************************)

VARIABLES
  verdict,  \* what the service made of the order
  answer    \* what the caller has been told

vars == <<verdict, answer>>

Final == {"executed", "canceled", "failed", "refused"}

TypeOK ==
  /\ verdict \in {"none", "pending"} \union Final
  /\ answer \in {"waiting", "unknown"} \union Final

Init ==
  /\ verdict = "none"
  /\ answer = "waiting"

\* The service takes the order on.
Take ==
  /\ verdict = "none"
  /\ verdict' = "pending"
  /\ UNCHANGED answer

\* The service decides; only an order it took can be filled or declined.
Decide ==
  /\ \/ verdict = "none" /\ verdict' = "refused"
     \/ verdict = "pending" /\ verdict' \in Final
  /\ UNCHANGED answer

\* The caller is told the verdict, which must exist, or that it is unknown.
Tell ==
  /\ answer = "waiting"
  /\ answer' \in (Final \intersect {verdict}) \union {"unknown"}
  /\ UNCHANGED verdict

AskAgain ==
  /\ answer = "unknown"
  /\ answer' = "waiting"
  /\ UNCHANGED verdict

Next == Take \/ Decide \/ Tell \/ AskAgain

Spec == Init /\ [][Next]_vars

\* A final answer is the service's verdict.
Agreement == answer \in Final => answer = verdict
=============================================================================
