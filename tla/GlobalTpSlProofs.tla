-------------------------- MODULE GlobalTpSlProofs --------------------------
(***************************************************************************)
(* Theorems of GlobalTpSl, for any number of calls, levels, repeats and    *)
(* polls.                                                                  *)
(***************************************************************************)
EXTENDS GlobalTpSl, TLAPS

\* Whether the core API has the intent or may still come to have it.
Sent(c) == pc[c] = "put" \/ c \in late \/ fate[c] # "unsent"

Visible(c) == outcome[c] = "visible"

\* A position always has a take-profit, and so has all that was read of it.
LevelsInv ==
  /\ position.tp # 0
  /\ shown.levels.tp # 0
  /\ \A c \in Calls : before[c].tp # 0

ProgressInv ==
  \A c \in Calls :
    /\ Sent(c) => pc[c] \in {"put", "poll", "returned"}
    /\ Sent(c) => signed[c] = Merged(ask[c], before[c])
    /\ pc[c] = "poll" \/ Visible(c) => fate[c] # "unsent"
    /\ pc[c] # "returned" => outcome[c] = "none"

\* What was accepted is in the order of its acceptance.
AcceptedInv ==
  /\ \A i \in DOMAIN accepted : fate[accepted[i]] # "unsent"
  /\ \A c \in Calls : fate[c] # "unsent" => \E i \in DOMAIN accepted : accepted[i] = c

\* A careful caller's intents are accepted in the order of the calls, each made
\* when the levels of those before are visible.
TurnInv ==
  /\ \A c, d \in Calls : d < c /\ pc[c] # "idle" => Visible(d)
  /\ \A i, j \in DOMAIN accepted : i < j => accepted[i] < accepted[j]

\* What a call that reads the levels will find, and what one that is not yet
\* visible found: the chain's, until its own update is executed.
ReadInv ==
  /\ (\A c \in Calls : pc[c] = "idle" \/ Visible(c)) => shown.levels = position
  /\ \A c \in Calls :
       /\ pc[c] = "fetch" => shown.levels = position
       /\ Sent(c) /\ ~Visible(c) /\ fate[c] # "executed" =>
            position = before[c] /\ shown.levels = before[c]
       /\ ~Visible(c) /\ fate[c] = "executed" =>
            /\ position = Effect(signed[c])
            /\ shown.levels \in {before[c], position}

\* An update that was visible and is still to be executed changes nothing; when
\* a later one is executed there is none left.
QueuedInv ==
  \A c \in Calls :
    /\ fate[c] = "queued" /\ Visible(c) => position = Effect(signed[c])
    /\ ~Visible(c) /\ fate[c] = "executed" => \A d \in Calls : fate[d] # "queued"
    /\ Visible(c) /\ (\A d \in Calls : d > c => pc[d] = "idle") =>
         position = Effect(signed[c])

CarefulInv == caller = "careful" => TurnInv /\ ReadInv /\ QueuedInv

\* A step that changes nothing a careful caller's levels depend on.
Quiet ==
  /\ UNCHANGED <<position, before, signed, fate, accepted>>
  /\ shown'.levels = shown.levels
  /\ \A c \in Calls :
       /\ Visible(c)' <=> Visible(c)
       /\ Sent(c)' => Sent(c)
       /\ pc'[c] = "idle" <=> pc[c] = "idle"
       /\ pc'[c] = "fetch" => pc[c] = "fetch"

IInv == TypeOK /\ LevelsInv /\ ProgressInv /\ AcceptedInv /\ CarefulInv

-----------------------------------------------------------------------------
LEMMA TypeInit == Init => TypeOK
<1> SUFFICES ASSUME Init PROVE TypeOK
  OBVIOUS
<1> USE ConstantsAssumption DEF Init, ConstantsAssumption
<1>1. position \in Levels
  BY DEF Levels
<1>2. /\ accepted \in Seq(Calls)
      /\ fate \in [Calls -> {"unsent", "queued", "executed", "dropped"}]
      /\ late \subseteq Calls
      /\ pc \in [Calls -> {"idle", "fetch", "put", "poll", "returned"}]
  OBVIOUS
<1>3. Nothing \in Asks
  BY DEF Nothing, Asks
<1>4. /\ before \in [Calls -> Levels]
      /\ signed \in [Calls -> Levels]
      /\ shown \in [levels : Levels, open : BOOLEAN]
  BY <1>1
<1>5. /\ tries \in [Calls -> 0..Retries]
      /\ left \in [Calls -> 0..Polls]
      /\ outcome \in [Calls -> Outcomes]
  BY DEF Outcomes
<1> QED
  BY <1>1, <1>2, <1>3, <1>4, <1>5 DEF TypeOK

LEMMA TypeStep ==
  ASSUME TypeOK, [Next]_vars
  PROVE  TypeOK'
<1> USE ConstantsAssumption DEF TypeOK, ConstantsAssumption, chainVars, callVars
<1>1. ASSUME NEW c \in Calls, Accepts(c) PROVE TypeOK'
  <2>1. accepted' \in Seq(Calls)
    BY <1>1 DEF Accepts
  <2>2. fate' \in [Calls -> {"unsent", "queued", "executed", "dropped"}]
    BY <1>1 DEF Accepts
  <2> QED
    BY <1>1, <2>1, <2>2 DEF Accepts
<1>2. ASSUME NEW c \in Calls, Execute(c) PROVE TypeOK'
  BY <1>2 DEF Execute, Effect, NextUp, Levels
<1>3. ASSUME NEW c \in Calls, Drop(c) PROVE TypeOK'
  BY <1>3 DEF Drop
<1>4. CASE Close
  BY <1>4 DEF Close
<1>5. CASE Publish
  BY <1>5 DEF Publish
<1>6. ASSUME NEW c \in Calls, NEW levels \in Asks, NEW waiting \in BOOLEAN,
             Start(c, levels, waiting)
      PROVE  TypeOK'
  BY <1>6 DEF Start
<1>7. ASSUME NEW c \in Calls, Fetch(c) PROVE TypeOK'
  <2>1. Merged(ask[c], shown.levels) \in Levels
    BY DEF Merged, Asks, Levels, Keep
  <2>2. signed' \in [Calls -> Levels] /\ before' \in [Calls -> Levels]
    <3>1. shown.levels \in Levels
      OBVIOUS
    <3>2. \/ UNCHANGED <<before, signed>>
          \/ /\ before' = [before EXCEPT ![c] = shown.levels]
             /\ signed' = [signed EXCEPT ![c] = Merged(ask[c], shown.levels)]
      BY <1>7 DEF Fetch
    <3>3. CASE UNCHANGED <<before, signed>>
      BY <3>3
    <3>4. CASE /\ before' = [before EXCEPT ![c] = shown.levels]
               /\ signed' = [signed EXCEPT ![c] = Merged(ask[c], shown.levels)]
      <4>1. before' \in [Calls -> Levels]
        BY <3>1, <3>4
      <4>2. signed' \in [Calls -> Levels]
        BY <2>1, <3>4
      <4> QED
        BY <4>1, <4>2
    <3> QED
      BY <3>2, <3>3, <3>4
  <2> QED
    BY ZenonT(40), <1>7, <2>2 DEF Fetch, Return, Outcomes
<1>8. ASSUME NEW c \in Calls, PutAnswered(c) PROVE TypeOK'
  <2>1. left' \in [Calls -> 0..Polls]
    <3>1. left' = left \/ left' = [left EXCEPT ![c] = Polls]
      BY <1>8 DEF PutAnswered
    <3>2. Polls \in 0..Polls
      OBVIOUS
    <3> QED
      BY <3>1, <3>2
  <2> QED
    BY ZenonT(40), <1>8, <2>1 DEF PutAnswered, Return, Outcomes
<1>9. ASSUME NEW c \in Calls, PutRepeats(c) PROVE TypeOK'
  <2>1. tries' \in [Calls -> 0..Retries]
    BY <1>9 DEF PutRepeats
  <2> QED
    BY <1>9, <2>1 DEF PutRepeats
<1>10. ASSUME NEW c \in Calls, PutFails(c) PROVE TypeOK'
  BY <1>10 DEF PutFails, Return, Outcomes
<1>11. ASSUME NEW c \in Calls, Poll(c) PROVE TypeOK'
  <2>1. left' \in [Calls -> 0..Polls]
    <3>1. left' = left \/ left' = [left EXCEPT ![c] = left[c] - 1]
      BY <1>11 DEF Poll
    <3>2. left[c] > 0
      BY <1>11 DEF Poll
    <3>3. left[c] - 1 \in 0..Polls
      BY <3>2
    <3> QED
      BY <3>1, <3>3
  <2>2. slShows' \in [Calls -> BOOLEAN]
    BY <1>11 DEF Poll, SlShows
  <2> QED
    BY ZenonT(40), <1>11, <2>1, <2>2 DEF Poll, Return, Outcomes
<1>12. ASSUME NEW c \in Calls, PollFindsNone(c) PROVE TypeOK'
  BY <1>12 DEF PollFindsNone, Return, Outcomes
<1>13. ASSUME NEW c \in Calls, PollExpires(c) PROVE TypeOK'
  BY <1>13 DEF PollExpires, Return, Outcomes
<1>14. ASSUME NEW c \in Calls, RequestFails(c) PROVE TypeOK'
  BY <1>14 DEF RequestFails, Return, Outcomes
<1>15. CASE UNCHANGED vars \/ Finished \/ Stopped
  BY <1>15 DEF vars, Finished, Stopped
<1> QED
  BY SMTT(20), <1>1, <1>2, <1>3, <1>4, <1>5, <1>6, <1>7, <1>8, <1>9,
     <1>10, <1>11, <1>12, <1>13, <1>14, <1>15
     DEF Next, Operator, Caller, Client

LEMMA LevelsStep ==
  ASSUME TypeOK, LevelsInv, [Next]_vars
  PROVE  LevelsInv'
<1> USE ConstantsAssumption
       DEF LevelsInv, TypeOK, ConstantsAssumption, chainVars, callVars, Levels
<1>1. ASSUME NEW c \in Calls, Accepts(c) PROVE LevelsInv'
  BY <1>1 DEF Accepts
<1>2. ASSUME NEW c \in Calls, Execute(c) PROVE LevelsInv'
  BY <1>2 DEF Execute, Effect
<1>3. ASSUME NEW c \in Calls, Drop(c) PROVE LevelsInv'
  BY <1>3 DEF Drop
<1>4. CASE Close
  BY <1>4 DEF Close
<1>5. CASE Publish
  BY <1>5 DEF Publish
<1>6. ASSUME NEW c \in Calls, NEW levels \in Asks, NEW waiting \in BOOLEAN,
             Start(c, levels, waiting)
      PROVE  LevelsInv'
  BY <1>6 DEF Start
<1>7. ASSUME NEW c \in Calls, Fetch(c) PROVE LevelsInv'
  BY ZenonT(40), <1>7 DEF Fetch, Return
<1>8. ASSUME NEW c \in Calls, PutAnswered(c) PROVE LevelsInv'
  BY <1>8 DEF PutAnswered, Return, Outcomes
<1>9. ASSUME NEW c \in Calls, PutRepeats(c) PROVE LevelsInv'
  BY <1>9 DEF PutRepeats
<1>10. ASSUME NEW c \in Calls, PutFails(c) PROVE LevelsInv'
  BY <1>10 DEF PutFails, Return, Outcomes
<1>11. ASSUME NEW c \in Calls, Poll(c) PROVE LevelsInv'
  BY <1>11 DEF Poll, Return, Outcomes
<1>12. ASSUME NEW c \in Calls, PollFindsNone(c) PROVE LevelsInv'
  BY <1>12 DEF PollFindsNone, Return, Outcomes
<1>13. ASSUME NEW c \in Calls, PollExpires(c) PROVE LevelsInv'
  BY <1>13 DEF PollExpires, Return, Outcomes
<1>14. ASSUME NEW c \in Calls, RequestFails(c) PROVE LevelsInv'
  BY <1>14 DEF RequestFails, Return, Outcomes
<1>15. CASE UNCHANGED vars \/ Finished \/ Stopped
  BY <1>15 DEF vars, Finished, Stopped
<1> QED
  BY <1>1, <1>2, <1>3, <1>4, <1>5, <1>6, <1>7, <1>8, <1>9,
     <1>10, <1>11, <1>12, <1>13, <1>14, <1>15
     DEF Next, Operator, Caller, Client

LEMMA ProgressStep ==
  ASSUME TypeOK, ProgressInv, [Next]_vars
  PROVE  ProgressInv'
<1> USE DEF ProgressInv, Sent, Visible, TypeOK, chainVars, callVars
<1>1. ASSUME NEW c \in Calls, Accepts(c) PROVE ProgressInv'
  BY <1>1 DEF Accepts
<1>2. ASSUME NEW c \in Calls, Execute(c) PROVE ProgressInv'
  BY <1>2 DEF Execute, NextUp
<1>3. ASSUME NEW c \in Calls, Drop(c) PROVE ProgressInv'
  BY <1>3 DEF Drop, NextUp
<1>4. CASE Close
  BY <1>4 DEF Close
<1>5. CASE Publish
  BY <1>5 DEF Publish
<1>6. ASSUME NEW c \in Calls, NEW levels \in Asks, NEW waiting \in BOOLEAN,
             Start(c, levels, waiting)
      PROVE  ProgressInv'
  BY <1>6 DEF Start
<1>7. ASSUME NEW c \in Calls, Fetch(c) PROVE ProgressInv'
  BY <1>7 DEF Fetch, Return
<1>8. ASSUME NEW c \in Calls, PutAnswered(c) PROVE ProgressInv'
  BY <1>8 DEF PutAnswered, Return, Outcomes
<1>9. ASSUME NEW c \in Calls, PutRepeats(c) PROVE ProgressInv'
  BY <1>9 DEF PutRepeats
<1>10. ASSUME NEW c \in Calls, PutFails(c) PROVE ProgressInv'
  BY <1>10 DEF PutFails, Return, Outcomes
<1>11. ASSUME NEW c \in Calls, Poll(c) PROVE ProgressInv'
  BY <1>11 DEF Poll, Return, Outcomes
<1>12. ASSUME NEW c \in Calls, PollFindsNone(c) PROVE ProgressInv'
  BY <1>12 DEF PollFindsNone, Return, Outcomes
<1>13. ASSUME NEW c \in Calls, PollExpires(c) PROVE ProgressInv'
  BY <1>13 DEF PollExpires, Return, Outcomes
<1>14. ASSUME NEW c \in Calls, RequestFails(c) PROVE ProgressInv'
  BY <1>14 DEF RequestFails, Return, Outcomes
<1>15. CASE UNCHANGED vars \/ Finished \/ Stopped
  BY <1>15 DEF vars, Finished, Stopped
<1> QED
  BY <1>1, <1>2, <1>3, <1>4, <1>5, <1>6, <1>7, <1>8, <1>9,
     <1>10, <1>11, <1>12, <1>13, <1>14, <1>15
     DEF Next, Operator, Caller, Client

LEMMA AcceptedStep ==
  ASSUME TypeOK, AcceptedInv, [Next]_vars
  PROVE  AcceptedInv'
<1> USE DEF AcceptedInv, TypeOK, chainVars, callVars
<1>1. ASSUME NEW c \in Calls, Accepts(c) PROVE AcceptedInv'
  <2>1. accepted' = Append(accepted, c) /\ c \in Calls /\ accepted \in Seq(Calls)
    BY <1>1 DEF Accepts
  <2>2. /\ DOMAIN accepted' = 1..(Len(accepted) + 1)
        /\ \A i \in DOMAIN accepted : accepted'[i] = accepted[i]
        /\ accepted'[Len(accepted) + 1] = c
        /\ DOMAIN accepted = 1..Len(accepted) /\ Len(accepted) \in Nat
    BY <2>1
  <2>3. fate' = [fate EXCEPT ![c] = "queued"]
    BY <1>1 DEF Accepts
  <2>4. \A i \in DOMAIN accepted' : fate'[accepted'[i]] # "unsent"
    BY <2>1, <2>2, <2>3
  <2>5. ASSUME NEW d \in Calls, fate'[d] # "unsent"
        PROVE  \E i \in DOMAIN accepted' : accepted'[i] = d
    <3>1. CASE d = c
      <4>1. Len(accepted) + 1 \in DOMAIN accepted'
        BY <2>2
      <4> QED
        BY <2>2, <3>1, <4>1
    <3>2. CASE d # c
      <4>1. PICK i \in DOMAIN accepted : accepted[i] = d
        BY <2>3, <2>5, <3>2
      <4>2. i \in DOMAIN accepted' /\ accepted'[i] = d
        BY <2>2, <4>1
      <4> QED
        BY <4>2
    <3> QED
      BY <3>1, <3>2
  <2> QED
    BY <2>4, <2>5
<1>2. ASSUME NEW c \in Calls, Execute(c) PROVE AcceptedInv'
  BY <1>2 DEF Execute, NextUp
<1>3. ASSUME NEW c \in Calls, Drop(c) PROVE AcceptedInv'
  BY <1>3 DEF Drop, NextUp
<1>4. CASE Close
  BY <1>4 DEF Close
<1>5. CASE Publish
  BY <1>5 DEF Publish
<1>6. ASSUME NEW c \in Calls, NEW levels \in Asks, NEW waiting \in BOOLEAN,
             Start(c, levels, waiting)
      PROVE  AcceptedInv'
  BY <1>6 DEF Start
<1>7. ASSUME NEW c \in Calls, Fetch(c) PROVE AcceptedInv'
  BY <1>7 DEF Fetch, Return
<1>8. ASSUME NEW c \in Calls, PutAnswered(c) PROVE AcceptedInv'
  BY <1>8 DEF PutAnswered, Return, Outcomes
<1>9. ASSUME NEW c \in Calls, PutRepeats(c) PROVE AcceptedInv'
  BY <1>9 DEF PutRepeats
<1>10. ASSUME NEW c \in Calls, PutFails(c) PROVE AcceptedInv'
  BY <1>10 DEF PutFails, Return, Outcomes
<1>11. ASSUME NEW c \in Calls, Poll(c) PROVE AcceptedInv'
  BY <1>11 DEF Poll, Return, Outcomes
<1>12. ASSUME NEW c \in Calls, PollFindsNone(c) PROVE AcceptedInv'
  BY <1>12 DEF PollFindsNone, Return, Outcomes
<1>13. ASSUME NEW c \in Calls, PollExpires(c) PROVE AcceptedInv'
  BY <1>13 DEF PollExpires, Return, Outcomes
<1>14. ASSUME NEW c \in Calls, RequestFails(c) PROVE AcceptedInv'
  BY <1>14 DEF RequestFails, Return, Outcomes
<1>15. CASE UNCHANGED vars \/ Finished \/ Stopped
  BY <1>15 DEF vars, Finished, Stopped
<1> QED
  BY <1>1, <1>2, <1>3, <1>4, <1>5, <1>6, <1>7, <1>8, <1>9,
     <1>10, <1>11, <1>12, <1>13, <1>14, <1>15
     DEF Next, Operator, Caller, Client

LEMMA QuietStep ==
  ASSUME TurnInv, ReadInv, QueuedInv, Quiet
  PROVE  TurnInv' /\ ReadInv' /\ QueuedInv'
<1> USE DEF Quiet
<1>1. TurnInv'
  BY DEF TurnInv, Visible
<1>2. ReadInv'
  <2>1. (\A c \in Calls : pc'[c] = "idle" \/ Visible(c)') => shown'.levels = position'
    BY DEF ReadInv
  <2>2. ASSUME NEW c \in Calls
        PROVE  /\ pc'[c] = "fetch" => shown'.levels = position'
               /\ Sent(c)' /\ ~Visible(c)' /\ fate'[c] # "executed" =>
                    position' = before'[c] /\ shown'.levels = before'[c]
               /\ ~Visible(c)' /\ fate'[c] = "executed" =>
                    /\ position' = Effect(signed'[c])
                    /\ shown'.levels \in {before'[c], position'}
    BY DEF ReadInv
  <2> QED
    BY <2>1, <2>2 DEF ReadInv, Effect
<1>3. QueuedInv'
  BY DEF QueuedInv, Effect
<1> QED
  BY <1>1, <1>2, <1>3

\* One call at most is under way or has failed.
LEMMA OneCurrent ==
  ASSUME TurnInv, NEW c \in Calls, NEW d \in Calls,
         pc[c] # "idle", ~Visible(c), pc[d] # "idle", ~Visible(d)
  PROVE  c = d
BY DEF TurnInv, Calls

LEMMA AcceptsStep ==
  ASSUME TypeOK, ProgressInv, AcceptedInv, TurnInv, ReadInv, QueuedInv,
         NEW c \in Calls, Accepts(c)
  PROVE  TurnInv' /\ ReadInv' /\ QueuedInv'
<1>1. /\ accepted' = Append(accepted, c)
      /\ accepted \in Seq(Calls)
      /\ fate' = [fate EXCEPT ![c] = "queued"]
      /\ fate[c] = "unsent"
      /\ UNCHANGED <<position, before, signed, shown, late, pc, outcome>>
      /\ Sent(c)
  BY DEF Accepts, TypeOK, chainVars, callVars, Sent
<1>2. /\ DOMAIN accepted' = 1..(Len(accepted) + 1)
      /\ \A i \in DOMAIN accepted : accepted'[i] = accepted[i] /\ accepted[i] \in Calls
      /\ accepted'[Len(accepted) + 1] = c
      /\ DOMAIN accepted = 1..Len(accepted)
      /\ Len(accepted) \in Nat
  BY <1>1
<1>3. pc[c] # "idle" /\ ~Visible(c)
  BY <1>1 DEF ProgressInv
<1>4. \A d \in Calls : fate'[d] = IF d = c THEN "queued" ELSE fate[d]
  BY <1>1 DEF TypeOK
<1>5. TurnInv'
  <2>1. ASSUME NEW i \in DOMAIN accepted PROVE accepted[i] < c
    <3>1. accepted[i] \in Calls /\ fate[accepted[i]] # "unsent"
      BY <1>2, <2>1 DEF AcceptedInv
    <3>2. pc[accepted[i]] # "idle" /\ accepted[i] # c
      BY <1>1, <3>1 DEF ProgressInv, Sent
    <3>3. ~(c < accepted[i])
      BY <1>3, <3>1, <3>2 DEF TurnInv
    <3> QED
      BY <3>1, <3>2, <3>3 DEF Calls
  <2>2. ASSUME NEW i \in DOMAIN accepted', NEW j \in DOMAIN accepted', i < j
        PROVE  accepted'[i] < accepted'[j]
    <3>1. i \in DOMAIN accepted
      BY <1>2, <2>2
    <3>2. CASE j \in DOMAIN accepted
      BY <1>2, <2>2, <3>1, <3>2 DEF TurnInv
    <3>3. CASE j \notin DOMAIN accepted
      <4>1. j = Len(accepted) + 1
        BY <1>2, <3>3
      <4> QED
        BY <1>2, <2>1, <3>1, <4>1
    <3> QED
      BY <3>2, <3>3
  <2>3. \A d, e \in Calls : e < d /\ pc'[d] # "idle" => Visible(e)'
    BY <1>1 DEF TurnInv, Visible
  <2> QED
    BY <2>2, <2>3 DEF TurnInv
<1>6. \A d \in Calls : (Visible(d)' <=> Visible(d)) /\ (Sent(d)' => Sent(d))
  BY <1>1, <1>4 DEF Visible, Sent
<1>7. ReadInv'
  <2>1. (\A d \in Calls : pc'[d] = "idle" \/ Visible(d)') => shown'.levels = position'
    BY <1>1, <1>6 DEF ReadInv
  <2>2. ASSUME NEW d \in Calls
        PROVE  /\ pc'[d] = "fetch" => shown'.levels = position'
               /\ Sent(d)' /\ ~Visible(d)' /\ fate'[d] # "executed" =>
                    position' = before'[d] /\ shown'.levels = before'[d]
               /\ ~Visible(d)' /\ fate'[d] = "executed" =>
                    /\ position' = Effect(signed'[d])
                    /\ shown'.levels \in {before'[d], position'}
    BY <1>1, <1>4, <1>6 DEF ReadInv
  <2> QED
    BY <2>1, <2>2 DEF ReadInv, Effect
<1>8. QueuedInv'
  <2>1. ASSUME NEW d \in Calls, ~Visible(d)' /\ fate'[d] = "executed" PROVE FALSE
    <3>1. d # c /\ fate[d] = "executed" /\ ~Visible(d)
      BY <1>4, <1>6, <2>1
    <3>2. pc[d] # "idle"
      BY <3>1 DEF ProgressInv, Sent
    <3> QED
      BY <1>3, <3>1, <3>2, OneCurrent
  <2>2. ASSUME NEW d \in Calls
        PROVE  /\ fate'[d] = "queued" /\ Visible(d)' => position' = Effect(signed'[d])
               /\ Visible(d)' /\ (\A e \in Calls : e > d => pc'[e] = "idle") =>
                    position' = Effect(signed'[d])
    BY <1>1, <1>3, <1>4, <1>6 DEF QueuedInv
  <2> QED
    BY <2>1, <2>2 DEF QueuedInv, Effect
<1> QED
  BY <1>5, <1>7, <1>8

LEMMA ExecuteStep ==
  ASSUME caller = "careful", TypeOK, ProgressInv, AcceptedInv, TurnInv, ReadInv,
         QueuedInv, NEW c \in Calls, Execute(c)
  PROVE  TurnInv' /\ ReadInv' /\ QueuedInv'
<1>1. /\ position' = Effect(signed[c])
      /\ fate' = [fate EXCEPT ![c] = "executed"]
      /\ fate[c] = "queued"
      /\ \A d \in Calls : fate[d] = "queued" => ~Ahead(d, c)
      /\ UNCHANGED <<before, signed, shown, accepted, late, pc, outcome>>
  BY DEF Execute, NextUp, chainVars, callVars
<1>2. \A d \in Calls : fate'[d] = IF d = c THEN "executed" ELSE fate[d]
  BY <1>1 DEF TypeOK
<1>3. /\ Sent(c)
      /\ \A d \in Calls : (Visible(d)' <=> Visible(d)) /\ (Sent(d)' => Sent(d))
  BY <1>1, <1>2 DEF Visible, Sent
<1>4. TurnInv'
  BY <1>1 DEF TurnInv, Visible
<1>5. CASE Visible(c)
  <2>1. position' = position
    BY <1>1, <1>5 DEF QueuedInv
  <2>2. (\A d \in Calls : pc'[d] = "idle" \/ Visible(d)') => shown'.levels = position'
    BY <1>1, <1>3, <2>1 DEF ReadInv
  <2>3. ASSUME NEW d \in Calls
        PROVE  /\ pc'[d] = "fetch" => shown'.levels = position'
               /\ Sent(d)' /\ ~Visible(d)' /\ fate'[d] # "executed" =>
                    position' = before'[d] /\ shown'.levels = before'[d]
               /\ ~Visible(d)' /\ fate'[d] = "executed" =>
                    /\ position' = Effect(signed'[d])
                    /\ shown'.levels \in {before'[d], position'}
    BY <1>1, <1>2, <1>3, <1>5, <2>1 DEF ReadInv
  <2>4. ASSUME NEW d \in Calls
        PROVE  /\ fate'[d] = "queued" /\ Visible(d)' => position' = Effect(signed'[d])
               /\ ~Visible(d)' /\ fate'[d] = "executed" =>
                    \A e \in Calls : fate'[e] # "queued"
               /\ Visible(d)' /\ (\A e \in Calls : e > d => pc'[e] = "idle") =>
                    position' = Effect(signed'[d])
    BY <1>1, <1>2, <1>3, <1>5, <2>1 DEF QueuedInv
  <2> QED
    BY <1>4, <2>2, <2>3, <2>4 DEF ReadInv, QueuedInv, Effect
<1>6. CASE ~Visible(c)
  <2>1. pc[c] \in {"put", "poll", "returned"}
    BY <1>3 DEF ProgressInv
  <2>2. shown.levels = before[c]
    BY <1>1, <1>3, <1>6 DEF ReadInv
  <2>3. ASSUME NEW d \in Calls, d # c, pc[d] # "idle" PROVE Visible(d) /\ d < c
    <3>1. Visible(d)
      BY <1>6, <2>1, <2>3, OneCurrent
    <3>2. ~(c < d)
      BY <1>6, <2>3 DEF TurnInv
    <3> QED
      BY <2>3, <3>1, <3>2 DEF Calls
  <2>4. ASSUME NEW d \in Calls, fate'[d] = "queued" PROVE FALSE
    <3>1. d # c /\ fate[d] = "queued"
      BY <1>2, <2>4
    <3>2. d < c
      BY <2>3, <3>1 DEF ProgressInv, Sent
    <3>3. PICK i \in DOMAIN accepted : accepted[i] = d
      BY <3>1 DEF AcceptedInv
    <3>4. PICK j \in DOMAIN accepted : accepted[j] = c
      BY <1>1 DEF AcceptedInv
    <3>5. i < j
      <4>1. i \in Nat /\ j \in Nat
        BY SMTT(20) DEF TypeOK
      <4>2. ~(j < i) /\ i # j
        BY <3>2, <3>3, <3>4 DEF TurnInv, Calls
      <4> QED
        BY <4>1, <4>2
    <3>6. Ahead(d, c)
      BY <3>3, <3>4, <3>5 DEF Ahead
    <3> QED
      BY <1>1, <3>1, <3>6
  <2>5. ASSUME NEW d \in Calls, Visible(d)'
        PROVE  ~(\A e \in Calls : e > d => pc'[e] = "idle")
    <3>1. Visible(d) /\ d # c
      BY <1>3, <1>6, <2>5
    <3>2. pc[d] # "idle"
      BY <3>1 DEF ProgressInv, Visible
    <3>3. d < c
      BY <2>3, <3>1, <3>2
    <3> QED
      BY <1>1, <2>1, <3>3 DEF Calls
  <2>6. QueuedInv'
    BY <2>4, <2>5 DEF QueuedInv
  <2>7. ASSUME NEW d \in Calls
        PROVE  /\ pc'[d] # "fetch"
               /\ Sent(d)' /\ ~Visible(d)' => d = c
               /\ fate'[d] = "executed" /\ ~Visible(d)' => d = c
    <3>1. pc[d] # "idle" /\ ~Visible(d) => d = c
      BY <2>3
    <3>2. pc[d] # "fetch"
      <4>1. Visible(d) => pc[d] = "returned"
        BY DEF ProgressInv, Visible
      <4> QED
        BY <2>1, <3>1, <4>1
    <3>3. Sent(d) => pc[d] # "idle"
      BY DEF ProgressInv
    <3>4. fate[d] = "executed" => Sent(d)
      BY DEF Sent
    <3> QED
      BY <1>1, <1>2, <1>3, <3>1, <3>2, <3>3, <3>4
  <2>8. ~(\A d \in Calls : pc'[d] = "idle" \/ Visible(d)')
    BY <1>1, <1>3, <1>6, <2>1
  <2>9. ReadInv'
    BY <1>1, <1>2, <2>2, <2>7, <2>8 DEF ReadInv, Effect
  <2> QED
    BY <1>4, <2>6, <2>9
<1> QED
  BY <1>5, <1>6

LEMMA DropStep ==
  ASSUME TypeOK, TurnInv, ReadInv, QueuedInv, NEW c \in Calls, Drop(c)
  PROVE  TurnInv' /\ ReadInv' /\ QueuedInv'
<1>1. /\ fate' = [fate EXCEPT ![c] = "dropped"]
      /\ fate[c] = "queued"
      /\ UNCHANGED <<position, before, signed, shown, accepted, late, pc, outcome>>
  BY DEF Drop, NextUp, chainVars, callVars
<1>2. \A d \in Calls : fate'[d] = IF d = c THEN "dropped" ELSE fate[d]
  BY <1>1 DEF TypeOK
<1>3. \A d \in Calls : (Visible(d)' <=> Visible(d)) /\ (Sent(d)' => Sent(d))
  BY <1>1, <1>2 DEF Visible, Sent
<1>4. TurnInv'
  BY <1>1 DEF TurnInv, Visible
<1>5. (\A d \in Calls : pc'[d] = "idle" \/ Visible(d)') => shown'.levels = position'
  BY <1>1, <1>3 DEF ReadInv
<1>6. ASSUME NEW d \in Calls
      PROVE  /\ pc'[d] = "fetch" => shown'.levels = position'
             /\ Sent(d)' /\ ~Visible(d)' /\ fate'[d] # "executed" =>
                  position' = before'[d] /\ shown'.levels = before'[d]
             /\ ~Visible(d)' /\ fate'[d] = "executed" =>
                  /\ position' = Effect(signed'[d])
                  /\ shown'.levels \in {before'[d], position'}
  BY <1>1, <1>2, <1>3 DEF ReadInv
<1>7. ASSUME NEW d \in Calls
      PROVE  /\ fate'[d] = "queued" /\ Visible(d)' => position' = Effect(signed'[d])
             /\ ~Visible(d)' /\ fate'[d] = "executed" =>
                  \A e \in Calls : fate'[e] # "queued"
             /\ Visible(d)' /\ (\A e \in Calls : e > d => pc'[e] = "idle") =>
                  position' = Effect(signed'[d])
  BY <1>1, <1>2, <1>3 DEF QueuedInv
<1> QED
  BY <1>4, <1>5, <1>6, <1>7 DEF ReadInv, QueuedInv, Effect

LEMMA PublishStep ==
  ASSUME TypeOK, TurnInv, ReadInv, QueuedInv, Publish
  PROVE  TurnInv' /\ ReadInv' /\ QueuedInv'
<1>1. /\ shown'.levels = position
      /\ UNCHANGED <<position, before, signed, fate, accepted, late, pc, outcome>>
  BY DEF Publish, chainVars, callVars
<1>2. \A d \in Calls : (Visible(d)' <=> Visible(d)) /\ (Sent(d)' <=> Sent(d))
  BY <1>1 DEF Visible, Sent
<1>3. TurnInv'
  BY <1>1 DEF TurnInv, Visible
<1>4. ASSUME NEW d \in Calls
      PROVE  /\ Sent(d)' /\ ~Visible(d)' /\ fate'[d] # "executed" =>
                  position' = before'[d] /\ shown'.levels = before'[d]
             /\ ~Visible(d)' /\ fate'[d] = "executed" =>
                  position' = Effect(signed'[d]) /\ shown'.levels = position'
  BY <1>1, <1>2 DEF ReadInv
<1>5. QueuedInv'
  BY <1>1, <1>2 DEF QueuedInv, Effect
<1> QED
  BY <1>1, <1>3, <1>4, <1>5 DEF ReadInv, Effect

LEMMA StartStep ==
  ASSUME caller = "careful", TypeOK, ProgressInv, TurnInv, ReadInv, QueuedInv,
         NEW c \in Calls, NEW levels \in Asks, NEW waiting \in BOOLEAN,
         Start(c, levels, waiting)
  PROVE  TurnInv' /\ ReadInv' /\ QueuedInv'
<1>1. /\ pc[c] = "idle"
      /\ pc' = [pc EXCEPT ![c] = "fetch"]
      /\ \A d \in 1..(c - 1) : Visible(d)
      /\ UNCHANGED <<position, before, signed, shown, fate, accepted, late, outcome>>
  BY DEF Start, chainVars, Visible
<1>2. \A d \in Calls : pc'[d] = IF d = c THEN "fetch" ELSE pc[d]
  BY <1>1 DEF TypeOK
<1>3. /\ ~Visible(c)
      /\ fate[c] = "unsent"
      /\ ~Sent(c)'
  BY <1>1, <1>2 DEF ProgressInv, Visible, Sent
<1>4. \A d \in Calls : (Visible(d)' <=> Visible(d)) /\ (Sent(d)' => Sent(d))
  BY <1>1, <1>2 DEF Visible, Sent
<1>5. \A d \in Calls : d < c => Visible(d)
  BY <1>1 DEF Calls
<1>6. \A d \in Calls : pc[d] = "idle" \/ Visible(d)
  <2> TAKE d \in Calls
  <2>1. CASE d < c
    BY <1>5, <2>1
  <2>2. CASE d = c
    BY <1>1, <2>2
  <2>3. CASE d > c
    BY <1>3, <2>3 DEF TurnInv
  <2> QED
    BY <2>1, <2>2, <2>3 DEF Calls
<1>7. shown.levels = position
  BY <1>6 DEF ReadInv
<1>8. TurnInv'
  <2>1. ASSUME NEW d \in Calls, NEW e \in Calls, e < d, pc'[d] # "idle"
        PROVE  Visible(e)'
    BY <1>2, <1>4, <1>5, <2>1 DEF TurnInv
  <2> QED
    BY <1>1, <2>1 DEF TurnInv
<1>9. ASSUME NEW d \in Calls
      PROVE  /\ Sent(d)' /\ ~Visible(d)' /\ fate'[d] # "executed" =>
                  position' = before'[d] /\ shown'.levels = before'[d]
             /\ ~Visible(d)' /\ fate'[d] = "executed" =>
                  /\ position' = Effect(signed'[d])
                  /\ shown'.levels \in {before'[d], position'}
  BY <1>1, <1>4 DEF ReadInv
<1>10. ASSUME NEW d \in Calls
       PROVE  /\ fate'[d] = "queued" /\ Visible(d)' => position' = Effect(signed'[d])
              /\ ~Visible(d)' /\ fate'[d] = "executed" =>
                   \A e \in Calls : fate'[e] # "queued"
  BY <1>1, <1>4 DEF QueuedInv
<1>11. ASSUME NEW d \in Calls, Visible(d)',
              \A e \in Calls : e > d => pc'[e] = "idle"
       PROVE  position' = Effect(signed'[d])
  <2>1. \A e \in Calls : e > d => pc[e] = "idle"
    BY <1>2, <1>11
  <2> QED
    BY <1>1, <1>4, <1>11, <2>1 DEF QueuedInv
<1>12. QueuedInv'
  BY <1>10, <1>11 DEF QueuedInv, Effect
<1> QED
  BY <1>1, <1>7, <1>8, <1>9, <1>12 DEF ReadInv, Effect

LEMMA FetchStep ==
  ASSUME TypeOK, ProgressInv, TurnInv, ReadInv, QueuedInv, NEW c \in Calls, Fetch(c)
  PROVE  TurnInv' /\ ReadInv' /\ QueuedInv'
<1>1. CASE shown.open
  <2>1. /\ pc[c] = "fetch"
        /\ before' = [before EXCEPT ![c] = shown.levels]
        /\ signed' = [signed EXCEPT ![c] = Merged(ask[c], shown.levels)]
        /\ pc' = [pc EXCEPT ![c] = "put"]
        /\ UNCHANGED <<position, shown, fate, accepted, late, outcome>>
    BY <1>1 DEF Fetch, chainVars
  <2>2. /\ pc'[c] = "put" /\ before'[c] = shown.levels
        /\ \A d \in Calls : d # c => /\ pc'[d] = pc[d]
                                     /\ before'[d] = before[d]
                                     /\ signed'[d] = signed[d]
    BY <2>1 DEF TypeOK
  <2>3. fate[c] = "unsent" /\ ~Visible(c)
    BY <2>1 DEF ProgressInv, Sent, Visible
  <2>4. \A d \in Calls : /\ Visible(d)' <=> Visible(d)
                         /\ d # c => (Sent(d)' => Sent(d))
                         /\ pc'[d] = "idle" <=> pc[d] = "idle"
    BY <2>1, <2>2 DEF Visible, Sent
  <2>5. shown.levels = position
    BY <2>1 DEF ReadInv
  <2>6. TurnInv'
    BY <2>1, <2>4 DEF TurnInv
  <2>7. ASSUME NEW d \in Calls
        PROVE  /\ Sent(d)' /\ ~Visible(d)' /\ fate'[d] # "executed" =>
                    position' = before'[d] /\ shown'.levels = before'[d]
               /\ ~Visible(d)' /\ fate'[d] = "executed" =>
                    /\ position' = Effect(signed'[d])
                    /\ shown'.levels \in {before'[d], position'}
    <3>1. CASE d = c
      BY <2>1, <2>2, <2>3, <2>5, <3>1
    <3>2. CASE d # c
      BY <2>1, <2>2, <2>4, <3>2 DEF ReadInv
    <3> QED
      BY <3>1, <3>2
  <2>8. ASSUME NEW d \in Calls
        PROVE  /\ fate'[d] = "queued" /\ Visible(d)' => position' = Effect(signed'[d])
               /\ ~Visible(d)' /\ fate'[d] = "executed" =>
                    \A e \in Calls : fate'[e] # "queued"
               /\ Visible(d)' /\ (\A e \in Calls : e > d => pc'[e] = "idle") =>
                    position' = Effect(signed'[d])
    <3>1. CASE d = c
      BY <2>1, <2>3, <2>4, <3>1
    <3>2. CASE d # c
      BY <2>1, <2>2, <2>4, <3>2 DEF QueuedInv
    <3> QED
      BY <3>1, <3>2
  <2>9. QueuedInv'
    BY <2>8 DEF QueuedInv, Effect
  <2> QED
    BY <2>1, <2>5, <2>6, <2>7, <2>9 DEF ReadInv, Effect
<1>2. CASE ~shown.open
  <2>1. /\ pc[c] = "fetch"
        /\ pc' = [pc EXCEPT ![c] = "returned"]
        /\ outcome' = [outcome EXCEPT ![c] = "no_position"]
        /\ UNCHANGED <<position, before, signed, fate, accepted, shown, late>>
    BY <1>2 DEF Fetch, Return, chainVars
  <2>2. Quiet
    BY <2>1 DEF Quiet, TypeOK, ProgressInv, Visible, Sent
  <2> QED
    BY <2>2, QuietStep
<1> QED
  BY <1>1, <1>2

LEMMA VisibleStep ==
  ASSUME TypeOK, LevelsInv, ProgressInv, TurnInv, ReadInv, QueuedInv,
         NEW c \in Calls, Poll(c), TpShows(c) /\ SlShows(c)
  PROVE  TurnInv' /\ ReadInv' /\ QueuedInv'
<1>1. /\ pc[c] = "poll"
      /\ pc' = [pc EXCEPT ![c] = "returned"]
      /\ outcome' = [outcome EXCEPT ![c] = "visible"]
      /\ UNCHANGED <<position, before, signed, shown, fate, accepted, late>>
  BY DEF Poll, Return, chainVars
<1>2. \A d \in Calls : /\ pc'[d] = IF d = c THEN "returned" ELSE pc[d]
                       /\ outcome'[d] = IF d = c THEN "visible" ELSE outcome[d]
  BY <1>1 DEF TypeOK
<1>3. Sent(c) /\ ~Visible(c)
  BY <1>1 DEF ProgressInv, Sent, Visible
<1>4. position = Effect(signed[c]) /\ shown.levels = position
  <2>1. /\ position \in Levels /\ shown.levels \in Levels
        /\ signed[c] \in Levels /\ before[c] \in Levels
    BY DEF TypeOK
  <2>2. shown.levels = before[c] => /\ shown.levels = signed[c]
                                    /\ Effect(signed[c]) = signed[c]
    <3>1. shown.levels = before[c] => /\ shown.levels.tp = signed[c].tp
                                      /\ shown.levels.sl = signed[c].sl
      BY DEF TpShows, SlShows
    <3>2. shown.levels = before[c] => shown.levels = signed[c]
      BY <2>1, <3>1 DEF Levels
    <3>3. signed[c].tp # 0 => Effect(signed[c]) = signed[c]
      BY <2>1 DEF Effect, Levels
    <3> QED
      BY <3>2, <3>3 DEF LevelsInv
  <2>3. CASE fate[c] # "executed"
    BY <1>3, <2>2, <2>3 DEF ReadInv
  <2>4. CASE fate[c] = "executed"
    BY <1>3, <2>2, <2>4 DEF ReadInv
  <2> QED
    BY <2>3, <2>4
<1>5. \A d \in Calls : /\ d # c => (Visible(d)' <=> Visible(d))
                       /\ Visible(c)'
                       /\ Sent(d)' => Sent(d)
                       /\ pc'[d] = "idle" <=> pc[d] = "idle"
                       /\ pc'[d] # "idle" \/ d # c
  BY <1>1, <1>2 DEF Visible, Sent
<1>6. TurnInv'
  BY <1>1, <1>5 DEF TurnInv
<1>7. ASSUME NEW d \in Calls
      PROVE  /\ Sent(d)' /\ ~Visible(d)' /\ fate'[d] # "executed" =>
                  position' = before'[d] /\ shown'.levels = before'[d]
             /\ ~Visible(d)' /\ fate'[d] = "executed" =>
                  /\ position' = Effect(signed'[d])
                  /\ shown'.levels \in {before'[d], position'}
  BY <1>1, <1>5 DEF ReadInv
<1>8. ASSUME NEW d \in Calls
      PROVE  /\ fate'[d] = "queued" /\ Visible(d)' => position' = Effect(signed'[d])
             /\ ~Visible(d)' /\ fate'[d] = "executed" =>
                  \A e \in Calls : fate'[e] # "queued"
             /\ Visible(d)' /\ (\A e \in Calls : e > d => pc'[e] = "idle") =>
                  position' = Effect(signed'[d])
  <2>1. CASE d = c
    BY <1>1, <1>4, <1>5, <2>1
  <2>2. CASE d # c
    BY <1>1, <1>5, <2>2 DEF QueuedInv
  <2> QED
    BY <2>1, <2>2
<1>9. QueuedInv'
  BY <1>8 DEF QueuedInv, Effect
<1> QED
  BY <1>1, <1>4, <1>6, <1>7, <1>9 DEF ReadInv, Effect

LEMMA CarefulStep ==
  ASSUME IInv, [Next]_vars
  PROVE  CarefulInv'
<1>1. caller' = caller
  BY DEF Next, Operator, Caller, Client, Accepts, Execute, Drop, Close, Publish,
         Start, Fetch, PutAnswered, PutRepeats, PutFails, Poll, PollFindsNone,
         PollExpires, RequestFails, Finished, Stopped, vars, chainVars
<1> SUFFICES ASSUME caller = "careful" PROVE TurnInv' /\ ReadInv' /\ QueuedInv'
  BY <1>1 DEF CarefulInv
<1> USE DEF IInv, CarefulInv
<1>2. ASSUME NEW c \in Calls, Accepts(c) PROVE TurnInv' /\ ReadInv' /\ QueuedInv'
  BY <1>2, AcceptsStep
<1>3. ASSUME NEW c \in Calls, Execute(c) PROVE TurnInv' /\ ReadInv' /\ QueuedInv'
  BY <1>3, ExecuteStep
<1>4. ASSUME NEW c \in Calls, Drop(c) PROVE TurnInv' /\ ReadInv' /\ QueuedInv'
  BY <1>4, DropStep
<1>5. CASE Publish
  BY <1>5, PublishStep
<1>6. ASSUME NEW c \in Calls, NEW levels \in Asks, NEW waiting \in BOOLEAN,
             Start(c, levels, waiting)
      PROVE  TurnInv' /\ ReadInv' /\ QueuedInv'
  BY <1>6, StartStep
<1>7. ASSUME NEW c \in Calls, Fetch(c) PROVE TurnInv' /\ ReadInv' /\ QueuedInv'
  BY <1>7, FetchStep
<1>8. ASSUME NEW c \in Calls, Poll(c) PROVE TurnInv' /\ ReadInv' /\ QueuedInv'
  <2>1. CASE TpShows(c) /\ SlShows(c)
    BY <1>8, <2>1, VisibleStep
  <2>2. CASE ~(TpShows(c) /\ SlShows(c))
    <3>1. UNCHANGED <<position, before, signed, fate, accepted, shown, late, pc, outcome>>
      BY <1>8, <2>2 DEF Poll, chainVars
    <3>2. Quiet
      BY <3>1 DEF Quiet, Visible, Sent
    <3> QED
      BY <3>2, QuietStep
  <2> QED
    BY <2>1, <2>2
<1>9. ASSUME NEW c \in Calls, PutAnswered(c) PROVE TurnInv' /\ ReadInv' /\ QueuedInv'
  <2>1. /\ pc[c] = "put" /\ fate[c] # "unsent"
        /\ \/ pc' = [pc EXCEPT ![c] = "poll"] /\ outcome' = outcome
           \/ /\ pc' = [pc EXCEPT ![c] = "returned"]
              /\ outcome' = [outcome EXCEPT ![c] = "accepted"]
        /\ UNCHANGED <<position, before, signed, fate, accepted, shown, late>>
    BY <1>9 DEF PutAnswered, Return, chainVars
  <2>2. Quiet
    BY <2>1 DEF Quiet, TypeOK, ProgressInv, Visible, Sent
  <2> QED
    BY <2>2, QuietStep
<1>10. ASSUME NEW c \in Calls, PutRepeats(c) PROVE TurnInv' /\ ReadInv' /\ QueuedInv'
  <2>1. Quiet
    BY <1>10 DEF PutRepeats, Quiet, Visible, Sent
  <2> QED
    BY <2>1, QuietStep
<1>11. ASSUME NEW c \in Calls, PutFails(c) PROVE TurnInv' /\ ReadInv' /\ QueuedInv'
  <2>1. /\ pc[c] = "put"
        /\ late' \in {late, late \union {c}}
        /\ pc' = [pc EXCEPT ![c] = "returned"]
        /\ outcome' = [outcome EXCEPT ![c] = "api_error"]
        /\ UNCHANGED <<position, before, signed, fate, accepted, shown>>
    BY <1>11 DEF PutFails, Return
  <2>2. Quiet
    BY <2>1 DEF Quiet, TypeOK, ProgressInv, Visible, Sent
  <2> QED
    BY <2>2, QuietStep
<1>12. ASSUME NEW c \in Calls, PollFindsNone(c) \/ PollExpires(c) \/ RequestFails(c)
       PROVE  TurnInv' /\ ReadInv' /\ QueuedInv'
  <2>1. PICK result \in {"no_position", "assumed", "timeout", "api_error"} :
          /\ pc[c] \in {"fetch", "poll"}
          /\ pc' = [pc EXCEPT ![c] = "returned"]
          /\ outcome' = [outcome EXCEPT ![c] = result]
          /\ UNCHANGED <<position, before, signed, fate, accepted, shown, late>>
    BY <1>12 DEF PollFindsNone, PollExpires, RequestFails, Return, chainVars
  <2>2. Quiet
    BY <2>1 DEF Quiet, TypeOK, ProgressInv, Visible, Sent
  <2> QED
    BY <2>2, QuietStep
<1>13. CASE Close \/ UNCHANGED vars \/ Finished \/ Stopped
  <2>1. UNCHANGED <<position, before, signed, fate, accepted, shown, late, pc, outcome>>
    BY <1>13 DEF Close, Finished, Stopped, vars, callVars
  <2>2. Quiet
    BY <2>1 DEF Quiet, Visible, Sent
  <2> QED
    BY <2>2, QuietStep
<1> QED
  BY <1>2, <1>3, <1>4, <1>5, <1>6, <1>7, <1>8, <1>9,
     <1>10, <1>11, <1>12, <1>13
     DEF Next, Operator, Caller, Client

-----------------------------------------------------------------------------
LEMMA InvInit == Init => IInv
<1> SUFFICES ASSUME Init PROVE IInv
  OBVIOUS
<1>1. TypeOK
  BY TypeInit
<1>2. LevelsInv
  BY ConstantsAssumption DEF Init, LevelsInv, ConstantsAssumption
<1>3. ProgressInv /\ AcceptedInv
  BY DEF Init, ProgressInv, AcceptedInv, Sent, Visible
<1>4. TurnInv /\ ReadInv /\ QueuedInv
  BY DEF Init, TurnInv, ReadInv, QueuedInv, Sent, Visible
<1> QED
  BY <1>1, <1>2, <1>3, <1>4 DEF IInv, CarefulInv

LEMMA InvStep == IInv /\ [Next]_vars => IInv'
<1> SUFFICES ASSUME IInv, [Next]_vars PROVE IInv'
  OBVIOUS
<1>1. TypeOK' /\ LevelsInv' /\ ProgressInv' /\ AcceptedInv'
  BY TypeStep, LevelsStep, ProgressStep, AcceptedStep DEF IInv
<1> QED
  BY <1>1, CarefulStep DEF IInv

\* Every value the calls, the chain and the core API hold is one they can have.
THEOREM TypeCorrect == Spec => []TypeOK
<1>1. IInv => TypeOK
  BY DEF IInv
<1> QED
  BY <1>1, InvInit, InvStep, PTL DEF Spec

\* A careful call that ended with its levels visible names what is on chain
\* until the next one, whatever update is still queued (_wait_for_tp_sl_change).
THEOREM VisibleLevels == Spec => []VisibleIsOnChain
<1>1. IInv => VisibleIsOnChain
  <2> SUFFICES ASSUME IInv, NEW c \in Calls, caller = "careful",
                      outcome[c] = "visible",
                      \A d \in (c + 1)..MaxCalls : pc[d] = "idle"
               PROVE  position = Effect(signed[c])
    BY DEF VisibleIsOnChain
  <2>1. \A d \in Calls : d > c => pc[d] = "idle"
    BY ConstantsAssumption DEF Calls, ConstantsAssumption
  <2> QED
    BY <2>1 DEF IInv, CarefulInv, QueuedInv, Visible
<1> QED
  BY <1>1, InvInit, InvStep, PTL DEF Spec

\* An update of a careful caller leaves the leg it does not name as the chain
\* has it: what it copied is still there when it is executed.
THEOREM LegsKept == Spec => CarefulKeepsLegs
<1>1. ASSUME IInv, NEW c \in Calls, caller = "careful", Execute(c)
      PROVE  KeepsUntouchedLeg(c)
  <2> USE <1>1 DEF IInv, CarefulInv
  <2>1. position' = Effect(signed[c]) /\ fate[c] = "queued"
    BY DEF Execute, NextUp
  <2>2. CASE Visible(c)
    BY <2>1, <2>2 DEF QueuedInv, KeepsUntouchedLeg
  <2>3. CASE ~Visible(c)
    <3>1. Sent(c)
      BY <2>1 DEF Sent
    <3>2. position = before[c] /\ signed[c] = Merged(ask[c], before[c])
      BY <2>1, <2>3, <3>1 DEF ReadInv, ProgressInv
    <3>3. position.tp # 0 /\ position \in Levels
      BY DEF LevelsInv, TypeOK
    <3> QED
      BY <2>1, <3>2, <3>3 DEF KeepsUntouchedLeg, Merged, Effect, Levels
  <2> QED
    BY <2>2, <2>3
<1>2. IInv /\ [Next]_vars =>
        [\A c \in Calls : caller = "careful" /\ Execute(c) => KeepsUntouchedLeg(c)]_vars
  BY <1>1
<1> QED
  BY <1>2, InvInit, InvStep, PTL DEF Spec, CarefulKeepsLegs
=============================================================================
