----------------------------- MODULE GlobalTpSl -----------------------------
(***************************************************************************)
(* Updates of the on-chain take-profit and stop-loss of one position:      *)
(* TradeApi.update_tp_sl (trading/api.py) reads the position from          *)
(* /user-data, signs both levels, the one that is kept copied from what it *)
(* read, PUTs the intent and polls /user-data until the levels show.       *)
(*                                                                         *)
(* The core API and its operator are external: an accepted intent is       *)
(* executed later or never, in the order of acceptance or not, and once    *)
(* (its nonce is unordered and single-use); /user-data lags the chain.     *)
(***************************************************************************)
EXTENDS Integers, Sequences, FiniteSets

CONSTANTS
  MaxCalls,     \* bound: calls of update_tp_sl
  Callers,      \* kinds of callers considered
  TakeProfits,  \* levels they ask for; 0 clears
  StopLosses,
  MaxGain,      \* what a take-profit of 0 becomes on chain
  Retries,      \* times the transport repeats a failed PUT
  Polls         \* relay_poll_timeout_s, in poll intervals

ASSUME ConstantsAssumption ==
  /\ MaxCalls \in Nat
  /\ TakeProfits \subseteq Nat
  /\ StopLosses \subseteq Nat
  /\ MaxGain \in Nat \ {0}
  /\ Callers \subseteq {"careful", "in_turn", "careless"}
  /\ Retries \in Nat
  /\ Polls \in Nat

VARIABLES
  caller,    \* careful: each call waits, the next is made once its levels are
             \* visible; in_turn: once it has returned; careless: at any time,
             \* and the operator executes in any order
  \* the chain, the operator and the core API (external)
  position,  \* the levels on chain
  open,      \* the position is open
  shown,     \* the position as /user-data has it
  accepted,  \* the intents accepted, in that order
  fate,      \* of each call's intent
  late,      \* calls with a PUT given up that may still arrive
  \* the calls
  pc,
  ask,       \* take_profit and stop_loss, Keep for None
  waits,
  before,    \* the levels read
  signed,    \* the levels signed
  slShows,   \* sl_ok at the last poll
  tries,
  left,      \* poll intervals left before the deadline
  outcome

chainVars == <<caller, position, open, shown, accepted, fate, late>>
callVars == <<pc, ask, waits, before, signed, slShows, tries, left, outcome>>
vars == <<caller, position, open, shown, accepted, fate, late, pc, ask, waits,
          before, signed, slShows, tries, left, outcome>>

Calls == 1..MaxCalls
Keep == -1
Levels == [tp : Nat, sl : Nat]
\* Bound: all that a careless caller does is to clear the stop-loss.
CarelessAsks == {[tp |-> Keep, sl |-> 0]}
Asks == [tp : TakeProfits \union {Keep}, sl : StopLosses \union {Keep}]
Outcomes == {"none", "accepted", "visible", "assumed", "timeout", "api_error",
             "no_position"}

TypeOK ==
  /\ caller \in Callers
  /\ position \in Levels
  /\ open \in BOOLEAN
  /\ shown \in [levels : Levels, open : BOOLEAN]
  /\ accepted \in Seq(Calls)
  /\ fate \in [Calls -> {"unsent", "queued", "executed", "dropped"}]
  /\ late \subseteq Calls
  /\ pc \in [Calls -> {"idle", "fetch", "put", "poll", "returned"}]
  /\ ask \in [Calls -> Asks]
  /\ waits \in [Calls -> BOOLEAN]
  /\ before \in [Calls -> Levels]
  /\ signed \in [Calls -> Levels]
  /\ slShows \in [Calls -> BOOLEAN]
  /\ tries \in [Calls -> 0..Retries]
  /\ left \in [Calls -> 0..Polls]
  /\ outcome \in [Calls -> Outcomes]

Nothing == [tp |-> Keep, sl |-> Keep]

Init ==
  /\ caller \in Callers
  /\ position \in [tp : (TakeProfits \ {0}) \union {MaxGain}, sl : StopLosses]
  /\ open = TRUE
  /\ shown = [levels |-> position, open |-> TRUE]
  /\ accepted = <<>>
  /\ fate = [c \in Calls |-> "unsent"]
  /\ late = {}
  /\ pc = [c \in Calls |-> "idle"]
  /\ ask = [c \in Calls |-> Nothing]
  /\ waits = [c \in Calls |-> TRUE]
  /\ before = [c \in Calls |-> position]
  /\ signed = [c \in Calls |-> position]
  /\ slShows = [c \in Calls |-> FALSE]
  /\ tries = [c \in Calls |-> 0]
  /\ left = [c \in Calls |-> 0]
  /\ outcome = [c \in Calls |-> "none"]

-----------------------------------------------------------------------------
(* The chain, the operator and the core API *)

\* What executing an intent leaves: a position always has a take-profit.
Effect(levels) == [levels EXCEPT !.tp = IF @ = 0 THEN MaxGain ELSE @]

\* The core API verifies a PUT and accepts its intent.
Accepts(c) ==
  /\ pc[c] = "put" \/ c \in late
  /\ fate[c] = "unsent"
  /\ fate' = [fate EXCEPT ![c] = "queued"]
  /\ accepted' = Append(accepted, c)
  /\ UNCHANGED <<caller, position, open, shown, late, callVars>>

Ahead(d, c) ==
  \E i, j \in DOMAIN accepted : i < j /\ accepted[i] = d /\ accepted[j] = c

\* The intent is one the operator may take up: the first, unless the caller is
\* careless.
NextUp(c) ==
  /\ fate[c] = "queued"
  /\ caller # "careless" => \A d \in Calls : fate[d] = "queued" => ~Ahead(d, c)

Execute(c) ==
  /\ NextUp(c)
  /\ open
  /\ position' = Effect(signed[c])
  /\ fate' = [fate EXCEPT ![c] = "executed"]
  /\ UNCHANGED <<caller, open, shown, accepted, late, callVars>>

\* The intent reverts, expires, or finds the position closed.
Drop(c) ==
  /\ NextUp(c)
  /\ fate' = [fate EXCEPT ![c] = "dropped"]
  /\ UNCHANGED <<caller, position, open, shown, accepted, late, callVars>>

Close ==
  /\ open
  /\ open' = FALSE
  /\ UNCHANGED <<caller, position, shown, accepted, fate, late, callVars>>

Publish ==
  /\ shown' = [levels |-> position, open |-> open]
  /\ shown' # shown
  /\ UNCHANGED <<caller, position, open, accepted, fate, late, callVars>>

-----------------------------------------------------------------------------
(* update_tp_sl *)

Return(c, result) ==
  /\ pc' = [pc EXCEPT ![c] = "returned"]
  /\ outcome' = [outcome EXCEPT ![c] = result]

\* At least one level is asked for (NOTHING_TO_UPDATE otherwise).
Start(c, levels, waiting) ==
  /\ pc[c] = "idle"
  /\ levels # Nothing
  /\ \A d \in 1..(c - 1) :
       IF caller = "careless" THEN pc[d] # "idle" ELSE pc[d] = "returned"
  /\ caller = "careful" => waiting /\ \A d \in 1..(c - 1) : outcome[d] = "visible"
  /\ caller = "careless" => levels \in CarelessAsks
  /\ ask' = [ask EXCEPT ![c] = levels]
  /\ waits' = [waits EXCEPT ![c] = waiting]
  /\ pc' = [pc EXCEPT ![c] = "fetch"]
  /\ UNCHANGED <<chainVars, before, signed, slShows, tries, left, outcome>>

\* Mutant: a level that is not asked for is signed as 0.
MergedWithZero(levels, current) ==
  [tp |-> IF levels.tp = Keep THEN 0 ELSE levels.tp,
   sl |-> IF levels.sl = Keep THEN 0 ELSE levels.sl]

\* The levels signed: a level that is not asked for is copied (its scaling to
\* human units and back is exact).
Merged(levels, current) ==
  [tp |-> IF levels.tp = Keep THEN current.tp ELSE levels.tp,
   sl |-> IF levels.sl = Keep THEN current.sl ELSE levels.sl]

Fetch(c) ==
  /\ pc[c] = "fetch"
  /\ IF shown.open
     THEN /\ before' = [before EXCEPT ![c] = shown.levels]
          /\ signed' = [signed EXCEPT ![c] = Merged(ask[c], shown.levels)]
          /\ pc' = [pc EXCEPT ![c] = "put"]
          /\ UNCHANGED outcome
     ELSE Return(c, "no_position") /\ UNCHANGED <<before, signed>>
  /\ UNCHANGED <<chainVars, ask, waits, slShows, tries, left>>

PutAnswered(c) ==
  /\ pc[c] = "put"
  /\ fate[c] # "unsent"
  /\ IF waits[c]
     THEN /\ pc' = [pc EXCEPT ![c] = "poll"]
          /\ left' = [left EXCEPT ![c] = Polls]
          /\ UNCHANGED outcome
     ELSE Return(c, "accepted") /\ UNCHANGED left
  /\ UNCHANGED <<chainVars, ask, waits, before, signed, slShows, tries>>

\* No answer or a 502, 503 or 504: the PUT is repeated, whether the core API
\* has it or not.
PutRepeats(c) ==
  /\ pc[c] = "put"
  /\ tries[c] < Retries
  /\ tries' = [tries EXCEPT ![c] = @ + 1]
  /\ late' = late \union {c}
  /\ UNCHANGED <<caller, position, open, shown, accepted, fate, pc, ask, waits,
                 before, signed, slShows, left, outcome>>

\* The last try fails, or one is answered with an error: the intent is
\* refused, or was accepted at an earlier try.
PutFails(c) ==
  /\ pc[c] = "put"
  /\ late' \in {late, late \union {c}}
  /\ Return(c, "api_error")
  /\ UNCHANGED <<caller, position, open, shown, accepted, fate, ask, waits,
                 before, signed, slShows, tries, left>>

-----------------------------------------------------------------------------
(* _wait_for_tp_sl_change *)

\* Mutant: a take-profit of 0 always shows.
TpShowsWhenZero(c) == signed[c].tp \in {0, shown.levels.tp}

\* A take-profit of 0 shows as any change of it.
TpShows(c) ==
  \/ shown.levels.tp = signed[c].tp
  \/ signed[c].tp = 0 /\ shown.levels.tp # before[c].tp

SlShows(c) == shown.levels.sl = signed[c].sl

Poll(c) ==
  /\ pc[c] = "poll"
  /\ left[c] > 0
  /\ shown.open
  /\ slShows' = [slShows EXCEPT ![c] = SlShows(c)]
  /\ IF TpShows(c) /\ SlShows(c)
     THEN Return(c, "visible") /\ UNCHANGED left
     ELSE left' = [left EXCEPT ![c] = @ - 1] /\ UNCHANGED <<pc, outcome>>
  /\ UNCHANGED <<chainVars, ask, waits, before, signed, tries>>

\* The position has gone: the same error as when there was none to update.
PollFindsNone(c) ==
  /\ pc[c] = "poll"
  /\ left[c] > 0
  /\ ~shown.open
  /\ Return(c, "no_position")
  /\ UNCHANGED <<chainVars, ask, waits, before, signed, slShows, tries, left>>

\* A status request fails after the transport's retries.
RequestFails(c) ==
  /\ pc[c] = "fetch" \/ (pc[c] = "poll" /\ left[c] > 0)
  /\ Return(c, "api_error")
  /\ UNCHANGED <<chainVars, ask, waits, before, signed, slShows, tries, left>>

\* Mutant: the polling is started over.
PollStartsOver(c) ==
  /\ pc[c] = "poll"
  /\ left[c] = 0
  /\ left' = [left EXCEPT ![c] = Polls]
  /\ UNCHANGED <<chainVars, pc, ask, waits, before, signed, slShows, tries, outcome>>

\* With only a take-profit of 0 pending the update is taken for settled.
PollExpires(c) ==
  /\ pc[c] = "poll"
  /\ left[c] = 0
  /\ Return(c, IF slShows[c] /\ signed[c].tp = 0 THEN "assumed" ELSE "timeout")
  /\ UNCHANGED <<chainVars, ask, waits, before, signed, slShows, tries, left>>

Finished ==
  /\ \A c \in Calls : pc[c] = "returned"
  /\ UNCHANGED vars

\* A careful caller stops after a call that did not end visible.
Stopped ==
  /\ caller = "careful"
  /\ \A c \in Calls : pc[c] \in {"idle", "returned"}
  /\ \E c \in Calls : pc[c] = "returned" /\ outcome[c] # "visible"
  /\ UNCHANGED vars

Operator ==
  \/ \E c \in Calls : Accepts(c) \/ Execute(c) \/ Drop(c)
  \/ Close
  \/ Publish

Client(c) ==
  \/ Fetch(c)
  \/ PutAnswered(c)
  \/ PutFails(c)
  \/ Poll(c)
  \/ PollFindsNone(c)
  \/ PollExpires(c)

Caller(c) ==
  \/ \E levels \in Asks, waiting \in BOOLEAN : Start(c, levels, waiting)
  \/ Client(c)
  \/ PutRepeats(c)
  \/ RequestFails(c)

Next == Operator \/ (\E c \in Calls : Caller(c)) \/ Finished \/ Stopped

Spec == Init /\ [][Next]_vars

\* A call that can go on does; the HTTP client's timeout bounds every request.
FairSpec == Spec /\ \A c \in Calls : WF_vars(Client(c))

-----------------------------------------------------------------------------
(* Properties *)

KeepsUntouchedLeg(c) ==
  /\ ask[c].tp = Keep => position'.tp = position.tp
  /\ ask[c].sl = Keep => position'.sl = position.sl

\* "None keeps a leg unchanged (its current value is copied from the
\* position)" (api.py:561, tp-sl.mdx:30).
UntouchedLegKept == [][\A c \in Calls : Execute(c) => KeepsUntouchedLeg(c)]_vars

\* An update leaves the other leg as it is on chain when it is executed, for a
\* caller that goes on only once the levels before are visible: what it copies
\* from /user-data then has no older update still to come.
CarefulKeepsLegs ==
  [][\A c \in Calls : caller = "careful" /\ Execute(c) => KeepsUntouchedLeg(c)]_vars

\* After a careful call that ended with its levels visible, and until the next
\* one, the chain has those levels, although /user-data lags and an update that
\* changes nothing shows before it is executed.
VisibleIsOnChain ==
  \A c \in Calls :
    /\ caller = "careful"
    /\ outcome[c] = "visible"
    /\ \A d \in (c + 1)..MaxCalls : pc[d] = "idle"
    => position = Effect(signed[c])

\* A call returns, whether or not its update is ever executed: the PUT is
\* repeated a bounded number of times and the polling has a deadline.
CallsReturn == \A c \in Calls : pc[c] = "fetch" ~> pc[c] = "returned"
=============================================================================
