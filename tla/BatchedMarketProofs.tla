------------------------- MODULE BatchedMarketProofs -------------------------
(***************************************************************************)
(* Theorems about BatchedMarket.                                           *)
(*                                                                         *)
(* The inductive invariant ties the three places an event can be in, the   *)
(* wire, the last status response and the hook, to the log: what the hook  *)
(* has been given, what it is looking at and what is still to be read      *)
(* follow one another in the log without gap or overlap, and the journal   *)
(* is the part the hook has recorded.                                      *)
(***************************************************************************)
EXTENDS BatchedMarket, TLAPS

InStream == pc \in {"connecting", "reading", "stream_hook"}
InWait == pc \in {"poll", "replay", "replay_hook"}
InHook == pc \in {"stream_hook", "replay_hook"}

\* The seq of the first event the call has not been given yet.
Upcoming == IF InHook /\ cur.seq # NoSeq THEN due + 1 ELSE due

\* Under log l and request state r: what the service persisted under its seq,
\* or an Error of the connection; only a refused request was never queued.
Genuine(ev, l, r) ==
  /\ ev.seq # NoSeq => ev.seq < Len(l) /\ ev.kind = l[ev.seq + 1]
  /\ ev.seq = NoSeq => ev.kind \in {"StreamTimeout", "ErrorTimedOut", "EnqueueFailed"}
  /\ ev.kind = "EnqueueFailed" => r = "refused"

LogInv ==
  /\ srv \in {"idle", "posted"} => log = <<>>
  /\ srv \in {"queued", "done"} => Len(log) > 0
  /\ srv = "refused" => Len(log) <= 1
  /\ Len(log) > 0 => log[1] = "Accepted"
  /\ srv = "done" => log[Len(log)] \in Verdicts
  /\ \A i \in 1..Len(log) : log[i] \in Verdicts => srv = "done" /\ i = Len(log)

\* What is on the wire is what comes next, up to the end of the log while the
\* response is open; a closed one may end with an Error of the connection.
WireInv ==
  /\ \A i \in 1..Len(wire) :
       /\ Genuine(wire[i], log, srv)
       /\ \/ wire[i].seq = Upcoming + i - 1
          \/ /\ wire[i].seq = NoSeq
             /\ i = Len(wire)
             /\ stream # "open"
             /\ Upcoming + i > 1
  /\ stream = "open" => Upcoming + Len(wire) = Len(log)

StreamInv ==
  /\ ~InStream => stream = "none" /\ wire = <<>>
  /\ stream = "open" => srv \in {"queued", "done"}
  /\ pc = "connecting" => due = 0 /\ events = <<>> /\ ~trk
  /\ pc = "idle" => srv = "idle" /\ due = 0 /\ events = <<>> /\ ~trk
  /\ pc \in {"reading", "stream_hook"} => (trk <=> due > 0)
  /\ pc = "stream_hook" /\ cur.seq = NoSeq =>
       /\ wire = <<>>
       /\ stream # "open"
       /\ due > 0

HookInv ==
  InHook => /\ Genuine(cur, log, srv)
            /\ cur.seq # NoSeq => cur.seq = due

EventsInv ==
  InStream =>
    /\ \A i \in 1..Len(events) : events[i].seq < Upcoming
    /\ Upcoming > 0 => \E i \in 1..Len(events) : events[i].seq = Upcoming - 1

WaitInv ==
  /\ InWait => seen = due - 1
  /\ pc = "replay_hook" => cur.seq # NoSeq
  /\ pc \in {"replay", "replay_hook"} =>
       \A i \in 1..Len(replay) :
         /\ Genuine(replay[i], log, srv)
         /\ replay[i].seq = Upcoming + i - 1

AnswerInv ==
  /\ pc # "returned" => outcome = "none"
  /\ pc = "returned" => outcome # "none"

\* Nothing is recorded that the hook was not given, and nothing given is left
\* out while a call of a hook without connection faults is under way.
JournalInv ==
  /\ due <= Len(log)
  /\ \A i \in 1..Len(journal) : journal[i] < due
  /\ \A i, j \in 1..Len(journal) : i < j => journal[i] < journal[j]
  /\ "http" \notin faults =>
       /\ \A i \in 1..Len(journal) : journal[i] = i - 1
       /\ pc # "returned" => Len(journal) = due

IInv ==
  /\ TypeOK
  /\ LogInv
  /\ WireInv
  /\ StreamInv
  /\ HookInv
  /\ EventsInv
  /\ WaitInv
  /\ AnswerInv
  /\ JournalInv
  /\ VerdictAgreement
  /\ SettledJourneyComplete

-----------------------------------------------------------------------------
LEMMA LastSeqIs ==
  ASSUME NEW evs \in Seq(Event), NEW n \in Nat \union {NoSeq},
         \A i \in 1..Len(evs) : evs[i].seq <= n,
         n = NoSeq \/ \E i \in 1..Len(evs) : evs[i].seq = n
  PROVE  LastSeq(evs) = n
<1> DEFINE seqs == {NoSeq} \union {evs[i].seq : i \in 1..Len(evs)}
<1>1. n \in seqs
  OBVIOUS
<1>2. seqs \subseteq Int
  <2>1. \A i \in 1..Len(evs) : evs[i] \in Event
    OBVIOUS
  <2> QED
    BY <2>1 DEF Event, NoSeq
<1>3. \A s \in seqs : s <= n
  BY DEF NoSeq
<1>4. \A m \in seqs : (\A s \in seqs : s <= m) => m = n
  BY <1>1, <1>2, <1>3
<1>5. QED
  BY <1>1, <1>3, <1>4 DEF LastSeq

\* Where the records and names of the model belong.
LEMMA Types ==
  /\ \A k \in Kinds, n \in Nat \union {NoSeq} : [kind |-> k, seq |-> n] \in Event
  /\ \A ev \in Event : ev.kind \in Kinds /\ ev.seq \in Nat \union {NoSeq}
  /\ Noise \union Verdicts \union {"Accepted", "Initiated"} = Persisted
  /\ Persisted \union {"StreamTimeout", "ErrorTimedOut", "EnqueueFailed"} = Kinds
  /\ Unsettled \union {"rejected", "none"} \subseteq Outcomes
  /\ {"api_error", "timeout", "hook_error", "crashed", "accepted"} \subseteq Unsettled
  /\ \A k : Settled(k) \in {"executed", "canceled", "failed"}
  /\ {"executed", "canceled", "failed"} \subseteq Outcomes
<1>1. \A k : Settled(k) \in {"executed", "canceled", "failed"}
  BY DEF Settled
<1> QED
  BY <1>1 DEF Event, Kinds, Persisted, Noise, Verdicts, Outcomes, Unsettled, Definite

LEMMA FallBackSeq ==
  ASSUME TypeOK, EventsInv, InStream
  PROVE  LastSeq(events) = Upcoming - 1
<1>1. Upcoming \in Nat
  BY DEF TypeOK, Upcoming
<1>2. \A i \in 1..Len(events) : events[i].seq \in Int
  BY Types DEF TypeOK, NoSeq
<1>3. /\ events \in Seq(Event) /\ Upcoming - 1 \in Nat \union {NoSeq}
      /\ \A i \in 1..Len(events) : events[i].seq <= Upcoming - 1
  BY <1>1, <1>2 DEF TypeOK, EventsInv, NoSeq
<1>4. Upcoming - 1 = NoSeq \/ \E i \in 1..Len(events) : events[i].seq = Upcoming - 1
  BY <1>1 DEF EventsInv, NoSeq
<1> QED
  BY <1>3, <1>4, LastSeqIs

\* What the status endpoint answers: the log from the seq asked for on.
LEMMA EventsAfterIs ==
  ASSUME TypeOK, NEW n \in 0..Len(log)
  PROVE  /\ EventsAfter(n - 1) \in Seq(Event)
         /\ Len(EventsAfter(n - 1)) = Len(log) - n
         /\ \A i \in 1..(Len(log) - n) :
              EventsAfter(n - 1)[i] = [kind |-> log[n + i], seq |-> n + i - 1]
<1> DEFINE m == Len(log) - n
           reply == [i \in 1..m |-> [kind |-> log[n + i], seq |-> n + i - 1]]
<1>1. m \in Nat
  BY DEF TypeOK
<1>2. EventsAfter(n - 1) = reply
  BY <1>1 DEF TypeOK, EventsAfter
<1>3. \A i \in 1..m : reply[i] \in Event
  BY <1>1, Types DEF TypeOK
<1>4. reply \in Seq(Event) /\ Len(reply) = m
  BY <1>1, <1>3
<1> QED
  BY <1>1, <1>2, <1>4

LEMMA TypeStep ==
  ASSUME IInv, Next
  PROVE  TypeOK'
<1> USE ConstantsAssumption, Types DEF TypeOK, NoSeq, vars, serverVars, netVars, callVars, callerVars
<1>0. InStream => LastSeq(events) \in Nat \union {NoSeq}
  BY FallBackSeq DEF IInv, Upcoming
<1>1. ASSUME ServerAccepts PROVE TypeOK'
  <2>1. <<"Accepted">> \in Seq(Persisted)
    OBVIOUS
  <2>2. <<[kind |-> "Accepted", seq |-> 0]>> \in Seq(Event)
    OBVIOUS
  <2> QED
    BY <1>1, <2>1, <2>2 DEF ServerAccepts, IInv
<1>2. ASSUME ServerRefuses PROVE TypeOK'
  BY <1>2 DEF ServerRefuses, IInv
<1>3. ASSUME ServerEnqueueFails PROVE TypeOK'
  <2>1. [kind |-> "EnqueueFailed", seq |-> NoSeq] \in Event
    OBVIOUS
  <2> QED
    BY <1>3, <2>1 DEF ServerEnqueueFails, IInv, Send
<1>4. ASSUME NEW k \in Noise, ServerReports(k) PROVE TypeOK'
  BY <1>4 DEF ServerReports, IInv, Persist, Send
<1>5. ASSUME ServerInitiates PROVE TypeOK'
  <2>1. [kind |-> "Initiated", seq |-> Len(log)] \in Event /\ "Initiated" \in Persisted
    BY DEF IInv
  <2>2. wire' \in Seq(Event) /\ log' \in Seq(Persisted)
    BY <1>5, <2>1 DEF ServerInitiates, IInv, Persist, Send
  <2> QED
    BY <1>5, <2>2 DEF ServerInitiates, IInv, Persist
<1>6. ASSUME NEW k \in Verdicts, ServerSettles(k) PROVE TypeOK'
  BY <1>6 DEF ServerSettles, IInv, Persist, Send
<1>7. ASSUME NEW k \in {"StreamTimeout", "ErrorTimedOut"}, StreamExpires(k) PROVE TypeOK'
  <2>1. [kind |-> k, seq |-> NoSeq] \in Event
    OBVIOUS
  <2> QED
    BY <1>7, <2>1 DEF StreamExpires, IInv, Send
<1>8. ASSUME StreamCloses PROVE TypeOK'
  BY <1>8 DEF StreamCloses, IInv
<1>9. ASSUME StreamBreaks PROVE TypeOK'
  BY <1>9 DEF StreamBreaks, IInv
<1>10. ASSUME Submit PROVE TypeOK'
  BY <1>10 DEF Submit, IInv
<1>11. ASSUME StreamOpened PROVE TypeOK'
  BY <1>11 DEF StreamOpened, IInv
<1>12. ASSUME PostFails PROVE TypeOK'
  BY <1>12 DEF PostFails, IInv, LeaveStream, Return
<1>13. ASSUME ReadEvent PROVE TypeOK'
  BY <1>13 DEF ReadEvent, IInv, Observe
<1>14. ASSUME StreamOver PROVE TypeOK'
  <2>1. CASE trk
    BY <1>14, <1>0, <2>1 DEF StreamOver, IInv, InStream, LoseStream, FallBack, LeaveStream
  <2>2. CASE ~trk
    BY <1>14, <2>2 DEF StreamOver, IInv, LoseStream, LeaveStream, Return
  <2> QED
    BY <2>1, <2>2
<1>15. ASSUME OnAccepted PROVE TypeOK'
  <2>1. journal' \in Seq(Nat) /\ ticket' \in BOOLEAN
    BY <1>15 DEF OnAccepted, InStreamHook, HookCalled, Journaled, IInv
  <2> QED
    <3>1. CASE waiting
      BY <1>15, <2>1, <3>1 DEF OnAccepted, InStreamHook, HookCalled, Journaled, IInv
    <3>2. CASE ~waiting
      BY <1>15, <2>1, <3>2 DEF OnAccepted, InStreamHook, HookCalled, Journaled, LeaveStream, Return, IInv
    <3> QED
      BY <3>1, <3>2
<1>16. ASSUME OnProgress PROVE TypeOK'
  BY <1>16 DEF OnProgress, IInv, InStreamHook, HookCalled, Journaled, Event
<1>17. ASSUME OnStreamTimeout PROVE TypeOK'
  <2>1. journal' \in Seq(Nat) /\ ticket' \in BOOLEAN
    BY <1>17 DEF OnStreamTimeout, InStreamHook, HookCalled, Journaled, IInv
  <2> QED
    BY <1>17, <1>0, <2>1 DEF OnStreamTimeout, InStreamHook, HookCalled, Journaled, InStream, FallBack, LeaveStream, IInv
<1>18. ASSUME OnRejected PROVE TypeOK'
  BY <1>18 DEF OnRejected, IInv, InStreamHook, HookCalled, Journaled, LeaveStream, Return, Event
<1>19. ASSUME OnTerminal PROVE TypeOK'
  <2>1. journal' \in Seq(Nat) /\ ticket' \in BOOLEAN
    BY <1>19 DEF OnTerminal, InStreamHook, HookCalled, Journaled, IInv
  <2>2. outcome' \in Outcomes
    BY <1>19, Types DEF OnTerminal, Return
  <2> QED
    BY <1>19, <2>1, <2>2 DEF OnTerminal, InStreamHook, HookCalled, Journaled, LeaveStream, Return, IInv
<1>20. ASSUME PollReply PROVE TypeOK'
  <2>1. seen + 1 \in 0..Len(log) /\ seen = (seen + 1) - 1
    BY <1>20 DEF IInv, PollReply, WaitInv, InWait, JournalInv
  <2>2. EventsAfter(seen) \in Seq(Event)
    BY <2>1, EventsAfterIs DEF IInv
  <2> QED
    BY <1>20, <2>2 DEF PollReply, IInv
<1>21. ASSUME PollFails PROVE TypeOK'
  BY <1>21 DEF PollFails, IInv, Return
<1>22. ASSUME PollExpires PROVE TypeOK'
  BY <1>22 DEF PollExpires, IInv, Return
<1>23. ASSUME ReplayEvent PROVE TypeOK'
  BY <1>23 DEF ReplayEvent, IInv, Observe
<1>24. ASSUME Sleep PROVE TypeOK'
  BY <1>24 DEF Sleep, IInv
<1>25. ASSUME OnReplayed PROVE TypeOK'
  <2>1. journal' \in Seq(Nat) /\ ticket' \in BOOLEAN /\ due' \in Nat
    BY <1>25 DEF OnReplayed, InReplayHook, HookCalled, Journaled, IInv
  <2>2. seen' \in Nat \union {NoSeq} /\ outcome' \in Outcomes /\ pc' \in {"replay", "returned"}
    BY <1>25 DEF OnReplayed, InReplayHook, Return, IInv
  <2> QED
    BY <1>25, <2>1, <2>2 DEF OnReplayed, InReplayHook, HookCalled, IInv
<1>26. ASSUME NEW f \in faults, StreamHookRaises(f) PROVE TypeOK'
  <2>1. journal' \in Seq(Nat) /\ ticket' \in BOOLEAN /\ due' \in Nat
    <3>1. due' \in Nat
      BY <1>26 DEF StreamHookRaises, InStreamHook, HookCalled, IInv
    <3>2. ASSUME Journaled PROVE journal' \in Seq(Nat) /\ ticket' \in BOOLEAN
      BY <3>2 DEF Journaled, IInv
    <3> QED
      BY <1>26, <3>1, <3>2 DEF StreamHookRaises, PerhapsJournaled, IInv
  <2>2. CASE f = "http" /\ trk
    BY <1>26, <1>0, <2>1, <2>2 DEF StreamHookRaises, InStreamHook, HookCalled, InStream,
       LoseStream, FallBack, LeaveStream, IInv
  <2>3. CASE f = "http" /\ ~trk
    BY <1>26, <2>1, <2>3 DEF StreamHookRaises, InStreamHook, HookCalled, LoseStream,
       LeaveStream, Return, IInv
  <2>4. CASE f # "http"
    BY <1>26, <2>1, <2>4 DEF StreamHookRaises, InStreamHook, HookCalled, LeaveStream,
       Return, IInv
  <2> QED
    BY <2>2, <2>3, <2>4
<1>27. ASSUME NEW f \in faults, ReplayHookRaises(f) PROVE TypeOK'
  <2>1. journal' \in Seq(Nat) /\ ticket' \in BOOLEAN
    <3>1. ASSUME Journaled PROVE journal' \in Seq(Nat) /\ ticket' \in BOOLEAN
      BY <3>1 DEF Journaled, IInv
    <3> QED
      BY <1>27, <3>1 DEF ReplayHookRaises, PerhapsJournaled, IInv
  <2>2. due' \in Nat
    BY <1>27 DEF ReplayHookRaises, InReplayHook, HookCalled, IInv
  <2> QED
    BY <1>27, <2>1, <2>2 DEF ReplayHookRaises, InReplayHook, HookCalled, Return, IInv
<1>28. ASSUME Crash PROVE TypeOK'
  BY <1>28 DEF Crash, IInv, LeaveStream, Return
<1>29. ASSUME NEW b \in BOOLEAN, Resume(b) PROVE TypeOK'
  <2>1. journal' \in Seq(Nat)
    BY <1>29 DEF Resume, IInv
  <2>2. journal' # <<>> => journal'[Len(journal')] \in Nat
    BY <2>1
  <2>3. seen' \in Nat \union {NoSeq} /\ due' \in Nat
    BY <1>29, <2>2 DEF Resume
  <2> QED
    BY <1>29, <2>1, <2>3 DEF Resume, IInv
<1>30. ASSUME Finished PROVE TypeOK'
  BY <1>30 DEF Finished, IInv
<1> QED
  BY <1>1, <1>2, <1>3, <1>4, <1>5, <1>6, <1>7, <1>8, <1>9, <1>10, <1>11, <1>12, <1>13, <1>14, <1>15, <1>16, <1>17, <1>18, <1>19, <1>20, <1>21, <1>22, <1>23, <1>24, <1>25, <1>26, <1>27, <1>28, <1>29, <1>30 DEF Next, Server, StreamEnds, Client, Caller

-----------------------------------------------------------------------------
\* The log only grows, and a refused request stays refused.
Grows ==
  /\ Len(log) <= Len(log')
  /\ \A i \in 1..Len(log) : log'[i] = log[i]
  /\ srv = "refused" => srv' = "refused"

\* Only the service's steps and the submission touch the service.
LEMMA ServerFrame ==
  ASSUME Next
  PROVE  Server \/ Submit \/ UNCHANGED serverVars
BY DEF vars, serverVars, netVars, callVars, callerVars, Next, StreamEnds, Client,
   Caller, StreamExpires, StreamCloses, StreamBreaks, StreamOpened, PostFails,
   ReadEvent, StreamOver, OnAccepted, OnProgress, OnStreamTimeout, OnRejected,
   OnTerminal, PollReply, PollFails, PollExpires, ReplayEvent, Sleep, OnReplayed,
   StreamHookRaises, ReplayHookRaises, Crash, Resume, Finished, InStreamHook,
   InReplayHook

\* What the service's steps do to the log.
LEMMA ServerSteps ==
  ASSUME Server
  PROVE  \/ ServerAccepts
         \/ ServerRefuses
         \/ ServerEnqueueFails
         \/ /\ srv = "queued"
            /\ \/ \E k \in Noise \union {"Initiated"} : Persist(k) /\ srv' = "queued"
               \/ \E k \in Verdicts : Persist(k) /\ srv' = "done"
            /\ UNCHANGED <<callVars, callerVars>>
BY DEF Server, ServerReports, ServerInitiates, ServerSettles

LEMMA LogGrows ==
  ASSUME IInv, Next
  PROVE  Grows
<1> USE DEF Grows, TypeOK, IInv
<1>1. CASE ServerAccepts
  BY <1>1 DEF ServerAccepts, LogInv
<1>2. ASSUME NEW k \in Persisted, srv = "queued", Persist(k)
      PROVE  Grows
  BY <1>2 DEF Persist
<1>3. CASE ServerRefuses \/ ServerEnqueueFails
  BY <1>3 DEF ServerRefuses, ServerEnqueueFails
<1>4. CASE Submit
  BY <1>4 DEF Submit, StreamInv
<1>5. CASE UNCHANGED serverVars
  BY <1>5 DEF serverVars
<1> QED
  BY <1>1, <1>2, <1>3, <1>4, <1>5, ServerFrame, ServerSteps, Types

LEMMA GenuineStays ==
  ASSUME TypeOK, Grows, NEW ev \in Event, Genuine(ev, log, srv)
  PROVE  Genuine(ev, log', srv')
<1>1. ev.seq \in Nat \union {NoSeq}
  BY Types
<1>2. CASE ev.seq = NoSeq
  BY <1>2 DEF Genuine, Grows
<1>3. CASE ev.seq \in Nat /\ ev.seq # NoSeq
  <2>1. ev.seq + 1 \in 1..Len(log)
    BY <1>3 DEF Genuine, TypeOK
  <2>2. ev.seq < Len(log')
    BY <1>3, <2>1 DEF Grows, TypeOK
  <2> QED
    BY <1>3, <2>1, <2>2 DEF Genuine, Grows, TypeOK
<1> QED
  BY <1>1, <1>2, <1>3

LEMMA LogStep ==
  ASSUME IInv, Next
  PROVE  LogInv'
<1>i. TypeOK /\ LogInv /\ StreamInv
  BY DEF IInv
<1>1. CASE ServerAccepts
  BY <1>1 DEF ServerAccepts, LogInv, Verdicts
<1>2. CASE ServerRefuses \/ ServerEnqueueFails
  BY <1>2, <1>i DEF ServerRefuses, ServerEnqueueFails, LogInv, TypeOK
<1>3. ASSUME NEW k \in Noise \union {"Initiated"}, srv = "queued", Persist(k), srv' = "queued"
      PROVE  LogInv'
  BY <1>3, <1>i DEF Persist, LogInv, TypeOK, Verdicts, Noise
<1>4. ASSUME NEW k \in Verdicts, srv = "queued", Persist(k), srv' = "done"
      PROVE  LogInv'
  BY <1>4, <1>i DEF Persist, LogInv, TypeOK, Verdicts
<1>5. CASE Submit
  BY <1>5, <1>i DEF Submit, StreamInv, LogInv
<1>6. CASE UNCHANGED serverVars
  BY <1>6, <1>i DEF serverVars, LogInv
<1> QED
  BY <1>1, <1>2, <1>3, <1>4, <1>5, <1>6, ServerFrame, ServerSteps

\* Facts about sequences, in the form the steps below use them.
LEMMA TailIs ==
  ASSUME NEW S, NEW s \in Seq(S), s # <<>>
  PROVE  /\ Len(s) > 0 /\ Head(s) = s[1]
         /\ Len(Tail(s)) = Len(s) - 1
         /\ \A i \in 1..Len(Tail(s)) : i + 1 \in 1..Len(s) /\ Tail(s)[i] = s[i + 1]
OBVIOUS

LEMMA AppendIs ==
  ASSUME NEW S, NEW s \in Seq(S), NEW e
  PROVE  /\ Len(Append(s, e)) = Len(s) + 1
         /\ Append(s, e)[Len(s) + 1] = e
         /\ \A i \in 1..Len(s) : Append(s, e)[i] = s[i]
         /\ \A i \in 1..(Len(s) + 1) : i \in 1..Len(s) \/ i = Len(s) + 1
OBVIOUS

\* What every step below may use.
LEMMA StepFacts ==
  ASSUME IInv, Next
  PROVE  /\ TypeOK /\ TypeOK'
         /\ LogInv /\ WireInv /\ StreamInv /\ HookInv /\ EventsInv /\ WaitInv
         /\ JournalInv
         /\ \A ev \in Event : Genuine(ev, log, srv) => Genuine(ev, log', srv')
         /\ Upcoming \in Nat
<1>1. TypeOK /\ LogInv /\ WireInv /\ StreamInv /\ HookInv /\ EventsInv /\ WaitInv
      /\ JournalInv
  BY DEF IInv
<1>2. TypeOK'
  BY <1>1, TypeStep
<1>3. \A ev \in Event : Genuine(ev, log, srv) => Genuine(ev, log', srv')
  BY <1>1, LogGrows, GenuineStays
<1>4. Upcoming \in Nat
  BY <1>1 DEF Upcoming, TypeOK
<1> QED
  BY <1>1, <1>2, <1>3, <1>4

\* The types of what the steps move about.
LEMMA StateFacts ==
  ASSUME IInv
  PROVE  /\ wire \in Seq(Event) /\ events \in Seq(Event) /\ replay \in Seq(Event)
         /\ log \in Seq(Persisted) /\ due \in Nat /\ cur \in Event
         /\ journal \in Seq(Nat) /\ Len(journal) \in Nat
         /\ Len(wire) \in Nat /\ Len(events) \in Nat /\ Len(replay) \in Nat
         /\ Len(log) \in Nat /\ trk \in BOOLEAN
BY DEF IInv, TypeOK

\* An event sent on the wire keeps it in step with the log.
LEMMA SendStep ==
  ASSUME IInv, Next, NEW ev \in Event,
         Send(ev), Genuine(ev, log', srv'), UNCHANGED <<callVars, callerVars>>,
         \/ /\ ev.seq = Len(log) /\ Len(log') = Len(log) + 1
            /\ UNCHANGED stream
         \/ /\ ev.seq = NoSeq /\ log' = log /\ Len(log) > 0
            /\ stream' = IF stream = "open" THEN "closed" ELSE stream
  PROVE  WireInv'
<1>1. wire \in Seq(Event) /\ Len(wire) \in Nat /\ log \in Seq(Persisted) /\ Len(log) \in Nat
  BY StateFacts
<1>2. Upcoming' = Upcoming /\ Upcoming \in Nat
  BY StepFacts DEF Upcoming, InHook, callVars, callerVars
<1>3. \A i \in 1..Len(wire) : Genuine(wire[i], log', srv')
  BY StepFacts, <1>1 DEF WireInv
<1>4. CASE stream = "open"
  <2>1. wire' = Append(wire, ev)
    BY <1>4 DEF Send
  <2>2. Upcoming + Len(wire) = Len(log)
    BY <1>4, StepFacts DEF WireInv
  <2>3. \A i \in 1..Len(wire) : wire'[i] = wire[i] /\ wire[i].seq = Upcoming + i - 1
    BY <1>1, <1>4, <2>1, AppendIs, StepFacts DEF WireInv
  <2>4. wire'[Len(wire) + 1] = ev /\ Len(wire') = Len(wire) + 1
    BY <1>1, <2>1, AppendIs
  <2>5. \A i \in 1..Len(wire') : i \in 1..Len(wire) \/ i = Len(wire')
    BY <1>1, <2>4
  <2> QED
    BY <1>1, <1>2, <1>3, <1>4, <2>2, <2>3, <2>4, <2>5 DEF WireInv, NoSeq
<1>5. CASE stream # "open"
  BY <1>1, <1>2, <1>3, <1>5, StepFacts DEF WireInv, Send
<1> QED
  BY <1>4, <1>5

LEMMA WireStep ==
  ASSUME IInv, Next
  PROVE  WireInv'
<1>0. /\ wire \in Seq(Event) /\ cur \in Event /\ log \in Seq(Persisted) /\ due \in Nat
      /\ Len(wire) \in Nat /\ Len(log) \in Nat
  BY StateFacts
<1> USE DEF NoSeq, vars, serverVars, netVars, callVars, callerVars
<1>a. \A i \in 1..Len(wire) : Genuine(wire[i], log', srv')
  <2>1. \A i \in 1..Len(wire) : wire[i] \in Event
    BY <1>0
  <2>2. \A i \in 1..Len(wire) : Genuine(wire[i], log, srv)
    BY StepFacts DEF WireInv
  <2> QED
    BY <2>1, <2>2, StepFacts
<1>w. \A i \in 1..Len(wire) :
        \/ wire[i].seq = Upcoming + i - 1
        \/ wire[i].seq = NoSeq /\ i = Len(wire) /\ stream # "open" /\ Upcoming + i > 1
  BY StepFacts DEF WireInv
<1>o. stream = "open" => Upcoming + Len(wire) = Len(log)
  BY StepFacts DEF WireInv
<1>1. CASE ServerAccepts
  <2>1. CASE pc = "connecting"
    <3>1. wire' = <<[kind |-> "Accepted", seq |-> 0]>> /\ log' = <<"Accepted">>
      BY <1>1, <2>1 DEF ServerAccepts
    <3>2. Upcoming' = 0
      BY <1>1, <2>1, StepFacts DEF Upcoming, InHook, ServerAccepts, StreamInv
    <3>3. Genuine(wire'[1], log', srv')
      BY <3>1 DEF Genuine
    <3> QED
      BY <3>1, <3>2, <3>3 DEF WireInv
  <2>2. CASE pc # "connecting"
    <3>1. UNCHANGED <<wire, stream, pc, cur, due>> /\ stream # "open"
      BY <1>1, <2>2, StepFacts DEF ServerAccepts, StreamInv
    <3> QED
      BY <1>a, <1>w, <1>o, <3>1 DEF WireInv, Upcoming, InHook
  <2> QED
    BY <2>1, <2>2
<1>2. CASE ServerRefuses \/ StreamCloses \/ StreamBreaks
  <2>1. UNCHANGED <<log, pc, cur, due>> /\ (stream' = "open" => stream = "open")
    BY <1>2 DEF ServerRefuses, StreamCloses, StreamBreaks
  <2>2. wire' = wire \/ (wire' = <<>> /\ stream' # "open")
    BY <1>2 DEF ServerRefuses, StreamCloses, StreamBreaks
  <2> QED
    BY <1>0, <1>a, <1>w, <1>o, <2>1, <2>2, SMTT(20) DEF WireInv, Upcoming, InHook
<1>3. CASE ServerEnqueueFails
  <2> DEFINE ev == [kind |-> "EnqueueFailed", seq |-> NoSeq]
  <2>1. ev \in Event /\ Genuine(ev, log', srv')
    BY <1>3, Types DEF ServerEnqueueFails, Genuine
  <2> QED
    BY <1>3, <2>1, SendStep DEF ServerEnqueueFails
<1>4. ASSUME NEW k \in Persisted, Persist(k), UNCHANGED <<callVars, callerVars>>
      PROVE  WireInv'
  <2> DEFINE ev == [kind |-> k, seq |-> Len(log)]
  <2>1. log' = Append(log, k) /\ Len(log') = Len(log) + 1 /\ log'[Len(log) + 1] = k
    BY <1>0, <1>4, AppendIs DEF Persist
  <2>2. ev \in Event /\ Genuine(ev, log', srv')
    <3>1. ev.kind = k /\ ev.seq = Len(log) /\ ev.seq # NoSeq /\ k # "EnqueueFailed"
      BY <1>0, <1>4 DEF Persisted, Noise, Verdicts
    <3>2. ev \in Event
      BY <1>0, Types
    <3> QED
      BY <1>0, <2>1, <3>1, <3>2 DEF Genuine
  <2> QED
    BY <1>4, <2>1, <2>2, SendStep DEF Persist
<1>5. ASSUME NEW k \in {"StreamTimeout", "ErrorTimedOut"}, StreamExpires(k)
      PROVE  WireInv'
  <2> DEFINE ev == [kind |-> k, seq |-> NoSeq]
  <2>1. ev \in Event /\ Genuine(ev, log', srv')
    BY <1>5, Types DEF StreamExpires, Genuine
  <2>2. Len(log) > 0
    BY <1>5, StepFacts DEF StreamExpires, StreamInv, LogInv
  <2> QED
    BY <1>5, <2>1, <2>2, SendStep DEF StreamExpires
<1>6. CASE ReadEvent
  <2>1. /\ cur' = wire[1] /\ wire' = Tail(wire) /\ Len(wire) > 0
        /\ UNCHANGED <<log, srv, due, stream>>
        /\ Len(wire') = Len(wire) - 1
        /\ \A i \in 1..Len(wire') : i + 1 \in 1..Len(wire) /\ wire'[i] = wire[i + 1]
    BY <1>0, <1>6, TailIs DEF ReadEvent, Observe
  <2>2. /\ Upcoming = due /\ due \in Nat /\ Len(wire) \in Nat /\ Len(log) \in Nat
        /\ Upcoming' = IF cur'.seq # NoSeq THEN Upcoming + 1 ELSE Upcoming
    BY <1>0, <1>6 DEF ReadEvent, Observe, Upcoming, InHook
  <2>3. \A i \in 1..Len(wire') : Genuine(wire'[i], log', srv')
    BY <1>a, <2>1
  <2>4. CASE cur'.seq # NoSeq
    <3>1. Upcoming' = Upcoming + 1 /\ Upcoming' \in Nat
      BY <2>2, <2>4
    <3>2. ASSUME NEW i \in 1..Len(wire')
          PROVE  \/ wire'[i].seq = Upcoming' + i - 1
                 \/ /\ wire'[i].seq = NoSeq /\ i = Len(wire') /\ stream' # "open"
                    /\ Upcoming' + i > 1
      <4>1. i + 1 \in 1..Len(wire) /\ wire'[i] = wire[i + 1]
        BY <2>1
      <4>2. \/ wire[i + 1].seq = Upcoming + (i + 1) - 1
            \/ wire[i + 1].seq = NoSeq /\ i + 1 = Len(wire) /\ stream # "open"
        BY <1>w, <4>1
      <4> QED
        BY <1>0, <2>1, <2>2, <3>1, <4>1, <4>2
    <3>3. stream' = "open" => Upcoming' + Len(wire') = Len(log')
      <4>1. log' = log /\ stream' = stream /\ Len(wire') = Len(wire) - 1
        BY <2>1
      <4> QED
        BY <1>o, <2>2, <3>1, <4>1
    <3> QED
      BY <2>3, <3>2, <3>3 DEF WireInv
  <2>5. CASE cur'.seq = NoSeq
    <3>1. 1 \in 1..Len(wire) /\ wire[1].seq = NoSeq
      BY <1>0, <2>1, <2>5
    <3>2. \/ wire[1].seq = Upcoming + 1 - 1
          \/ 1 = Len(wire) /\ stream # "open"
      BY <1>w, <3>1
    <3>3. Len(wire) = 1 /\ stream # "open"
      BY <2>2, <3>1, <3>2
    <3> QED
      BY <1>0, <2>1, <3>3 DEF WireInv
  <2> QED
    BY <2>4, <2>5
<1>7. CASE wire' = <<>> /\ stream' = "none"
  BY <1>7 DEF WireInv
<1>8. ASSUME InStreamHook, UNCHANGED netVars, pc' = "reading"
      PROVE  WireInv'
  <2>1. Upcoming' = Upcoming /\ UNCHANGED <<wire, stream, log, srv>>
    BY <1>0, <1>8, StepFacts DEF InStreamHook, HookCalled, HookInv, Upcoming, InHook
  <2> QED
    BY <1>a, <1>w, <1>o, <2>1 DEF WireInv
<1>9. CASE UNCHANGED <<serverVars, netVars, cur, due>> /\ InHook' = InHook
  BY <1>a, <1>w, <1>o, <1>9 DEF WireInv, Upcoming
<1>10. CASE ~InStream /\ UNCHANGED netVars
  BY <1>10, StepFacts DEF StreamInv, WireInv
<1> QED
  BY <1>1, <1>2, <1>3, <1>4, <1>5, <1>6, <1>7, <1>8, <1>9, <1>10, ServerSteps, Types
     DEF Next, StreamEnds, Client, Caller, Submit, StreamOpened, PostFails, StreamOver,
     OnAccepted, OnProgress, OnStreamTimeout, OnRejected, OnTerminal, PollReply, PollFails,
     PollExpires, ReplayEvent, Sleep, OnReplayed, StreamHookRaises, ReplayHookRaises, Crash,
     Resume, Finished, LoseStream, FallBack, LeaveStream, InReplayHook, InStream, InHook

LEMMA StreamStep ==
  ASSUME IInv, Next
  PROVE  StreamInv'
<1> USE DEF NoSeq, vars, serverVars, netVars, callVars, callerVars
<1>0. /\ StreamInv /\ HookInv /\ LogInv /\ trk \in BOOLEAN
      /\ wire \in Seq(Event) /\ log \in Seq(Persisted) /\ due \in Nat
      /\ Len(wire) \in Nat /\ cur \in Event
  BY StateFacts, StepFacts
<1>1. CASE Server \/ StreamEnds
  <2>1. \/ UNCHANGED stream
        \/ stream' \in {"closed", "broken"} /\ stream = "open" /\ InStream
        \/ stream' = "broken" /\ stream = "closed" /\ InStream
        \/ stream' = "open" /\ srv' = "queued" /\ pc = "connecting"
    BY <1>0, <1>1 DEF Server, StreamEnds, ServerAccepts, ServerRefuses, ServerEnqueueFails,
       ServerReports, ServerInitiates, ServerSettles, StreamExpires, StreamCloses, StreamBreaks,
       Persist, StreamInv
  <2>2. UNCHANGED <<pc, trk, cur, events, due>> /\ (pc = "idle" => srv' = srv)
    BY <1>0, <1>1 DEF Server, StreamEnds, ServerAccepts, ServerRefuses, ServerEnqueueFails,
       ServerReports, ServerInitiates, ServerSettles, StreamExpires, StreamCloses, StreamBreaks,
       StreamInv
  <2>3. stream = "open" /\ stream' = "open" => srv' \in {"queued", "done"}
    BY <1>0, <1>1 DEF Server, StreamEnds, ServerAccepts, ServerRefuses, ServerEnqueueFails,
       ServerReports, ServerInitiates, ServerSettles, StreamExpires, StreamCloses, StreamBreaks,
       StreamInv
  <2>4. stream # "open" /\ wire = <<>> /\ pc # "connecting" => wire' = <<>>
    BY <1>0, <1>1 DEF Server, StreamEnds, ServerAccepts, ServerRefuses, ServerEnqueueFails,
       ServerReports, ServerInitiates, ServerSettles, StreamExpires, StreamCloses, StreamBreaks,
       Persist, Send
  <2> QED
    BY <1>0, <2>1, <2>2, <2>3, <2>4 DEF StreamInv, InStream
<1>2. CASE Submit \/ StreamOpened \/ PostFails
  BY <1>0, <1>2 DEF Submit, StreamOpened, PostFails, LeaveStream, Return, StreamInv, InStream
<1>3. CASE ReadEvent
  <2>1. /\ cur' = wire[1] /\ wire' = Tail(wire) /\ 1 \in 1..Len(wire)
        /\ Len(wire') = Len(wire) - 1 /\ pc = "reading" /\ pc' = "stream_hook"
        /\ UNCHANGED <<srv, stream, trk, due>>
    BY <1>0, <1>3, TailIs DEF ReadEvent, Observe
  <2>2. CASE cur'.seq = NoSeq
    <3>1. /\ Upcoming = due
          /\ \/ wire[1].seq = Upcoming + 1 - 1
             \/ 1 = Len(wire) /\ stream # "open" /\ Upcoming + 1 > 1
      BY <2>1, StepFacts DEF WireInv, Upcoming, InHook
    <3>2. 1 = Len(wire) /\ stream # "open" /\ due > 0
      BY <1>0, <2>1, <2>2, <3>1
    <3> QED
      BY <1>0, <2>1, <3>2, SMTT(20) DEF StreamInv, InStream
  <2> QED
    BY <1>0, <2>1, <2>2 DEF StreamInv, InStream
<1>4. CASE OnAccepted
  <2>1. cur.seq # NoSeq /\ cur.seq = due
    BY <1>0, <1>4 DEF OnAccepted, InStreamHook, HookInv, InHook, Genuine
  <2>2. due' > 0 /\ trk'
    BY <1>0, <1>4, <2>1 DEF OnAccepted, InStreamHook, HookCalled
  <2> QED
    BY <1>0, <1>4, <2>2 DEF OnAccepted, InStreamHook, LeaveStream, Return, StreamInv, InStream
<1>5. CASE OnProgress
  <2>1. cur.seq # NoSeq /\ cur.seq = due /\ Genuine(cur, log, srv)
    BY <1>0, <1>5 DEF OnProgress, InStreamHook, HookInv, InHook, Genuine, Terminal, TerminalFailure
  <2>2. due' = due + 1
    BY <1>0, <1>5, <2>1 DEF OnProgress, InStreamHook, HookCalled
  <2>3. due > 0
    BY <1>0, <1>5, <2>1 DEF OnProgress, Genuine, LogInv
  <2> QED
    BY <1>0, <1>5, <2>2, <2>3 DEF OnProgress, InStreamHook, StreamInv, InStream
<1>6. CASE /\ wire' = <<>> /\ stream' = "none" /\ pc' \in {"poll", "returned"}
  BY <1>6 DEF StreamInv, InStream
<1>7. CASE /\ UNCHANGED netVars
           /\ pc \in {"poll", "replay", "replay_hook", "returned"}
           /\ pc' \in {"poll", "replay", "replay_hook", "returned"}
  BY <1>0, <1>7 DEF StreamInv, InStream
<1>8. CASE Finished
  BY <1>0, <1>8 DEF Finished, StreamInv, InStream
<1> QED
  BY <1>1, <1>2, <1>3, <1>4, <1>5, <1>6, <1>7, <1>8
     DEF Next, Client, Caller, StreamOver, OnStreamTimeout, OnRejected, OnTerminal,
         PollReply, PollFails, PollExpires, ReplayEvent, Sleep, OnReplayed, StreamHookRaises,
         ReplayHookRaises, Crash, Resume, LoseStream, FallBack, LeaveStream, Return, Observe,
         InReplayHook

LEMMA HookStep ==
  ASSUME IInv, Next
  PROVE  HookInv'
<1> USE DEF NoSeq, vars, serverVars, netVars, callVars, callerVars
<1>0. cur \in Event /\ wire \in Seq(Event) /\ replay \in Seq(Event) /\ due \in Nat
  BY StepFacts DEF TypeOK
<1>1. CASE ReadEvent
  <2>1. 1 \in 1..Len(wire) /\ cur' = wire[1] /\ wire[1] \in Event
    BY <1>0, <1>1 DEF ReadEvent, Observe
  <2>2. Genuine(cur', log', srv')
    BY <2>1, StepFacts DEF WireInv
  <2>3. cur'.seq # NoSeq => cur'.seq = due'
    BY <1>0, <1>1, <2>1, StepFacts DEF ReadEvent, WireInv, Upcoming, InHook
  <2> QED
    BY <2>2, <2>3 DEF HookInv
<1>2. CASE ReplayEvent
  <2>1. 1 \in 1..Len(replay) /\ cur' = replay[1] /\ replay[1] \in Event
    BY <1>0, <1>2 DEF ReplayEvent, Observe
  <2>2. Genuine(cur', log', srv')
    BY <1>2, <2>1, StepFacts DEF ReplayEvent, WaitInv
  <2>3. cur'.seq = due'
    BY <1>0, <1>2, <2>1, StepFacts DEF ReplayEvent, WaitInv, Upcoming, InHook
  <2> QED
    BY <2>2, <2>3 DEF HookInv
<1>3. CASE UNCHANGED <<pc, cur, due>>
  BY <1>0, <1>3, StepFacts DEF HookInv, InHook
<1>4. CASE pc' \notin {"stream_hook", "replay_hook"}
  BY <1>4 DEF HookInv, InHook
<1> QED
  BY <1>1, <1>2, <1>3, <1>4
     DEF Next, Server, StreamEnds, Client, Caller, ServerAccepts, ServerRefuses,
         ServerEnqueueFails, ServerReports, ServerInitiates, ServerSettles, StreamExpires,
         StreamCloses, StreamBreaks, Submit, StreamOpened, PostFails, StreamOver, OnAccepted,
         OnProgress, OnStreamTimeout, OnRejected, OnTerminal, PollReply, PollFails, PollExpires,
         Sleep, OnReplayed, StreamHookRaises, ReplayHookRaises, Crash, Resume, Finished,
         LoseStream, FallBack, Return, InReplayHook

LEMMA EventsStep ==
  ASSUME IInv, Next
  PROVE  EventsInv'
<1> USE DEF NoSeq, vars, serverVars, netVars, callVars, callerVars
<1>0. /\ cur \in Event /\ wire \in Seq(Event) /\ events \in Seq(Event) /\ due \in Nat
      /\ Len(events) \in Nat
  BY StateFacts
<1>1. CASE ReadEvent
  <2>1. /\ 1 \in 1..Len(wire) /\ cur' = wire[1] /\ events' = Append(events, wire[1])
        /\ pc = "reading" /\ pc' = "stream_hook" /\ UNCHANGED due
        /\ wire[1] \in Event
    BY <1>0, <1>1 DEF ReadEvent, Observe
  <2>2. /\ Len(events') = Len(events) + 1 /\ events'[Len(events) + 1] = wire[1]
        /\ \A i \in 1..Len(events) : events'[i] = events[i]
        /\ \A i \in 1..Len(events') : i \in 1..Len(events) \/ i = Len(events) + 1
    BY <1>0, <2>1, AppendIs
  <2>3. /\ Upcoming = due
        /\ Upcoming' = IF wire[1].seq # NoSeq THEN Upcoming + 1 ELSE Upcoming
    BY <2>1 DEF Upcoming, InHook
  <2>4. wire[1].seq = Upcoming \/ wire[1].seq = NoSeq
    BY <1>0, <2>1, <2>3, StepFacts DEF WireInv
  <2>5. /\ \A i \in 1..Len(events) : events[i].seq < Upcoming /\ events[i].seq \in Int
        /\ Upcoming > 0 => \E i \in 1..Len(events) : events[i].seq = Upcoming - 1
    <3>1. EventsInv /\ InStream
      BY <2>1, StepFacts DEF InStream
    <3>2. \A i \in 1..Len(events) : events[i] \in Event
      BY <1>0
    <3> QED
      BY <3>1, <3>2, Types DEF EventsInv
  <2>6. \A i \in 1..Len(events') : events'[i].seq < Upcoming'
    <3>1. Upcoming \in Nat /\ Upcoming' \in Nat
      BY <1>0, <2>3
    <3>2. Upcoming <= Upcoming' /\ wire[1].seq < Upcoming'
      BY <2>3, <2>4, <3>1
    <3>3. \A i \in 1..Len(events) : events'[i].seq < Upcoming'
      BY <2>2, <2>5, <3>1, <3>2
    <3> QED
      BY <2>2, <3>2, <3>3
  <2>7. Upcoming' > 0 => \E i \in 1..Len(events') : events'[i].seq = Upcoming' - 1
    <3>1. CASE wire[1].seq = NoSeq
      BY <1>0, <2>2, <2>3, <2>5, <3>1
    <3>2. CASE wire[1].seq # NoSeq
      <4>1. Len(events) + 1 \in 1..Len(events') /\ events'[Len(events) + 1].seq = Upcoming' - 1
        BY <1>0, <2>2, <2>3, <2>4, <3>2
      <4> QED
        BY <4>1
    <3> QED
      BY <3>1, <3>2
  <2> QED
    BY <2>6, <2>7 DEF EventsInv
<1>2. ASSUME InStreamHook, pc' = "reading"
      PROVE  EventsInv'
  <2>1. Upcoming' = Upcoming /\ UNCHANGED events
    BY <1>0, <1>2, StepFacts DEF InStreamHook, HookCalled, HookInv, Upcoming, InHook
  <2> QED
    BY <1>2, <2>1, StepFacts DEF EventsInv, InStream, InStreamHook
<1>3. CASE Submit
  BY <1>3, StepFacts DEF Submit, StreamInv, EventsInv, Upcoming, InHook
<1>4. CASE /\ UNCHANGED <<events, cur, due>>
           /\ pc' = pc \/ (pc = "connecting" /\ pc' = "reading")
  BY <1>0, <1>4, StepFacts DEF EventsInv, Upcoming, InHook, InStream
<1>5. CASE pc' \notin {"connecting", "reading", "stream_hook"}
  BY <1>5 DEF EventsInv, InStream
<1> QED
  BY <1>1, <1>2, <1>3, <1>4, <1>5
     DEF Next, Server, StreamEnds, Client, Caller, ServerAccepts, ServerRefuses,
         ServerEnqueueFails, ServerReports, ServerInitiates, ServerSettles, StreamExpires,
         StreamCloses, StreamBreaks, StreamOpened, PostFails, StreamOver, OnAccepted,
         OnProgress, OnStreamTimeout, OnRejected, OnTerminal, PollReply, PollFails, PollExpires,
         ReplayEvent, Sleep, OnReplayed, StreamHookRaises, ReplayHookRaises, Crash, Resume,
         Finished, LoseStream, FallBack, Observe, Return, InReplayHook

\* The fall back to polling asks for what follows the last event delivered.
LEMMA FallBackStep ==
  ASSUME IInv, Next, FallBack, UNCHANGED <<cur, replay>>,
         \/ pc = "reading" /\ UNCHANGED due
         \/ pc = "stream_hook" /\ HookCalled
  PROVE  WaitInv'
<1>1. LastSeq(events) = Upcoming - 1
  BY StepFacts, FallBackSeq DEF InStream
<1>2. due \in Nat /\ (cur.seq # NoSeq => cur.seq \in Nat)
  BY StepFacts DEF TypeOK, Event
<1>3. Upcoming = due'
  BY <1>2, StepFacts DEF Upcoming, InHook, HookCalled, HookInv
<1> QED
  BY <1>1, <1>3 DEF FallBack, WaitInv, InWait

LEMMA WaitStep ==
  ASSUME IInv, Next
  PROVE  WaitInv'
<1> USE DEF NoSeq, vars, serverVars, netVars, callVars, callerVars
<1>0. /\ cur \in Event /\ replay \in Seq(Event) /\ due \in Nat /\ log \in Seq(Persisted)
      /\ Len(replay) \in Nat /\ Len(log) \in Nat
  BY StateFacts
<1>a. pc \in {"replay", "replay_hook"} =>
        \A i \in 1..Len(replay) :
          Genuine(replay[i], log', srv') /\ replay[i].seq = Upcoming + i - 1
  <2>1. \A i \in 1..Len(replay) : replay[i] \in Event
    BY <1>0
  <2> QED
    BY <2>1, StepFacts DEF WaitInv
<1>1. CASE PollReply
  <2>1. /\ pc = "poll" /\ pc' = "replay" /\ replay' = EventsAfter(seen)
        /\ UNCHANGED <<log, srv, due, seen>>
    BY <1>1 DEF PollReply
  <2>2. seen = due - 1 /\ due \in 0..Len(log)
    BY <1>0, <2>1, StepFacts DEF WaitInv, InWait, JournalInv
  <2>3. /\ Len(replay') = Len(log) - due
        /\ \A i \in 1..(Len(log) - due) :
             replay'[i] = [kind |-> log[due + i], seq |-> due + i - 1]
    BY <2>1, <2>2, EventsAfterIs, StepFacts
  <2>4. Upcoming' = due
    BY <2>1 DEF Upcoming, InHook
  <2>5. ASSUME NEW i \in 1..Len(replay')
        PROVE  Genuine(replay'[i], log', srv') /\ replay'[i].seq = Upcoming' + i - 1
    <3>0. i \in 1..(Len(log) - due)
      BY <2>3
    <3>a. replay'[i] = [kind |-> log[due + i], seq |-> due + i - 1]
      BY <2>3, <3>0
    <3>1. /\ replay'[i].seq = due + i - 1
          /\ replay'[i].kind = log[due + i]
      BY <3>a
    <3>2. due + i \in 1..Len(log) /\ due + i - 1 \in Nat
      BY <1>0, <2>2, <3>0
    <3>3. log[due + i] # "EnqueueFailed"
      BY <1>0, <3>2, SMTT(20) DEF Persisted, Noise, Verdicts
    <3> QED
      BY <1>0, <2>1, <2>4, <3>1, <3>2, <3>3, SMTT(20) DEF Genuine
  <2> QED
    BY <2>1, <2>2, <2>5 DEF WaitInv, InWait
<1>2. CASE ReplayEvent
  <2>1. /\ pc = "replay" /\ pc' = "replay_hook" /\ cur' = replay[1] /\ replay' = Tail(replay)
        /\ 1 \in 1..Len(replay) /\ UNCHANGED <<log, srv, due, seen>>
        /\ Len(replay') = Len(replay) - 1
        /\ \A i \in 1..Len(replay') : i + 1 \in 1..Len(replay) /\ replay'[i] = replay[i + 1]
    BY <1>0, <1>2, TailIs DEF ReplayEvent, Observe
  <2>2. Upcoming = due /\ seen = due - 1 /\ cur'.seq = due
    BY <1>0, <1>a, <2>1, StepFacts DEF Upcoming, InHook, WaitInv, InWait
  <2>3. Upcoming' = Upcoming + 1
    BY <1>0, <2>1, <2>2 DEF Upcoming, InHook
  <2>4. ASSUME NEW i \in 1..Len(replay')
        PROVE  Genuine(replay'[i], log', srv') /\ replay'[i].seq = Upcoming' + i - 1
    <3>1. i + 1 \in 1..Len(replay) /\ replay'[i] = replay[i + 1]
      BY <2>1
    <3>2. Genuine(replay[i + 1], log', srv') /\ replay[i + 1].seq = Upcoming + (i + 1) - 1
      BY <1>a, <2>1, <3>1
    <3> QED
      BY <1>0, <2>2, <2>3, <3>1, <3>2
  <2>5. seen' = due' - 1
    BY <2>1, <2>2
  <2>6. pc' = "replay_hook"
    BY <2>1
  <2> QED
    BY <1>0, <2>1, <2>2, <2>4, <2>5, <2>6 DEF WaitInv, InWait
<1>3. CASE OnReplayed
  <2>1. /\ pc = "replay_hook" /\ pc' \in {"replay", "returned"} /\ seen' = cur.seq
        /\ cur.seq = due /\ due' = due + 1
        /\ UNCHANGED <<log, srv, replay>>
    BY <1>0, <1>3, StepFacts DEF OnReplayed, InReplayHook, HookCalled, Return, HookInv, InHook,
       WaitInv
  <2>2. pc' = "replay" => Upcoming' = Upcoming
    BY <1>0, <2>1 DEF Upcoming, InHook
  <2> QED
    BY <1>0, <1>a, <2>1, <2>2 DEF WaitInv, InWait
<1>4. CASE Sleep
  BY <1>4, StepFacts DEF Sleep, WaitInv, InWait
<1>5. CASE \E b \in BOOLEAN : Resume(b)
  <2>1. pc' = "poll" /\ due' = seen' + 1 /\ seen' \in Nat \union {NoSeq}
    BY <1>5, StepFacts DEF Resume, TypeOK
  <2>2. \A n \in Nat \union {NoSeq} : n = (n + 1) - 1
    OBVIOUS
  <2>3. seen' = due' - 1
    BY <2>1, <2>2
  <2> QED
    BY <2>1, <2>3 DEF WaitInv, InWait
<1>6. CASE StreamOver \/ OnStreamTimeout \/ \E f \in faults : StreamHookRaises(f)
  <2>1. \/ /\ FallBack /\ UNCHANGED <<cur, replay>>
           /\ \/ pc = "reading" /\ UNCHANGED due
              \/ pc = "stream_hook" /\ HookCalled
        \/ pc' = "returned"
    BY <1>6 DEF StreamOver, OnStreamTimeout, StreamHookRaises, InStreamHook, LoseStream, Return
  <2> QED
    BY <2>1, FallBackStep DEF WaitInv, InWait
<1>7. CASE UNCHANGED <<pc, cur, replay, due, seen>>
  <2>1. Upcoming' = Upcoming
    BY <1>7 DEF Upcoming, InHook
  <2> QED
    BY <1>a, <1>7, <2>1, StepFacts DEF WaitInv, InWait
<1>8. CASE pc' \in {"idle", "connecting", "reading", "stream_hook", "returned"}
  BY <1>8 DEF WaitInv, InWait
<1> QED
  BY <1>1, <1>2, <1>3, <1>4, <1>5, <1>6, <1>7, <1>8
     DEF Next, Server, StreamEnds, Client, Caller, ServerAccepts, ServerRefuses,
         ServerEnqueueFails, ServerReports, ServerInitiates, ServerSettles, StreamExpires,
         StreamCloses, StreamBreaks, Submit, StreamOpened, PostFails, ReadEvent, OnAccepted,
         OnProgress, OnRejected, OnTerminal, PollFails, PollExpires, ReplayHookRaises, Crash,
         Finished, Observe, Return

LEMMA AnswerStep ==
  ASSUME IInv, Next
  PROVE  AnswerInv'
<1> USE DEF vars, serverVars, netVars, callVars, callerVars
<1>0. AnswerInv
  BY DEF IInv
<1>1. CASE UNCHANGED <<pc, outcome>>
  BY <1>0, <1>1 DEF AnswerInv
<1>2. CASE pc' = "returned" /\ outcome' \in Outcomes \ {"none"}
  BY <1>2 DEF AnswerInv
<1>3. CASE pc' # "returned" /\ (outcome' = "none" \/ (pc # "returned" /\ UNCHANGED outcome))
  BY <1>0, <1>3 DEF AnswerInv
<1> QED
  BY <1>1, <1>2, <1>3, Types
     DEF Next, Server, StreamEnds, Client, Caller, ServerAccepts, ServerRefuses,
         ServerEnqueueFails, ServerReports, ServerInitiates, ServerSettles, StreamExpires,
         StreamCloses, StreamBreaks, Submit, StreamOpened, PostFails, ReadEvent, StreamOver,
         OnAccepted, OnProgress, OnStreamTimeout, OnRejected, OnTerminal, PollReply, PollFails,
         PollExpires, ReplayEvent, Sleep, OnReplayed, StreamHookRaises, ReplayHookRaises, Crash,
         Resume, Finished, LoseStream, FallBack, Observe, Return, InStreamHook, InReplayHook,
         Outcomes, Definite, Unsettled

\* The steps between the calls of the hook leave what it has been given and
\* recorded as it is.
LEMMA HookFrame ==
  ASSUME Next
  PROVE  \/ /\ UNCHANGED <<due, journal, faults>>
            /\ pc = "returned" => pc' = "returned"
         \/ InHook /\ HookCalled /\ UNCHANGED serverVars /\ Journaled
         \/ InHook /\ HookCalled /\ UNCHANGED serverVars /\ PerhapsJournaled /\ pc' = "returned"
         \/ /\ InHook /\ HookCalled /\ UNCHANGED serverVars /\ PerhapsJournaled
            /\ "http" \in faults
         \/ \E b \in BOOLEAN : Resume(b)
BY DEF vars, serverVars, netVars, callVars, callerVars,
       Next, Server, StreamEnds, Client, Caller, ServerAccepts, ServerRefuses,
       ServerEnqueueFails, ServerReports, ServerInitiates, ServerSettles, StreamExpires,
       StreamCloses, StreamBreaks, Submit, StreamOpened, PostFails, ReadEvent, StreamOver,
       OnAccepted, OnProgress, OnStreamTimeout, OnRejected, OnTerminal, PollReply, PollFails,
       PollExpires, ReplayEvent, Sleep, OnReplayed, StreamHookRaises, ReplayHookRaises, Crash,
       Finished, InStreamHook, InReplayHook, InHook, Return

LEMMA JournalStep ==
  ASSUME IInv, Next
  PROVE  JournalInv'
<1> USE DEF NoSeq
<1>0. /\ JournalInv /\ cur \in Event /\ journal \in Seq(Nat) /\ due \in Nat
      /\ Len(journal) \in Nat /\ Len(log) \in Nat /\ Len(log') \in Nat
      /\ Len(log) <= Len(log')
  <2>1. JournalInv /\ TypeOK'
    BY StepFacts
  <2>2. Len(log') \in Nat
    BY <2>1 DEF TypeOK
  <2> QED
    BY <2>1, <2>2, StateFacts, LogGrows DEF Grows
<1>1. CASE UNCHANGED <<due, journal, faults>> /\ (pc = "returned" => pc' = "returned")
  BY <1>0, <1>1 DEF JournalInv
<1>2. ASSUME InHook, HookCalled, UNCHANGED serverVars,
             \/ Journaled
             \/ /\ UNCHANGED <<journal, ticket>>
                /\ pc' = "returned" \/ "http" \in faults
      PROVE  JournalInv'
  <2>1. /\ pc # "returned" /\ UNCHANGED faults /\ Len(log') = Len(log)
        /\ cur.seq # NoSeq => cur.seq = due /\ due < Len(log)
        /\ due' = IF cur.seq = NoSeq THEN due ELSE due + 1
    BY <1>2, StepFacts DEF InHook, HookInv, Genuine, HookCalled, serverVars
  <2>2. CASE cur.seq = NoSeq \/ UNCHANGED journal
    <3>1. UNCHANGED journal /\ due <= due' /\ due' <= Len(log')
      BY <1>0, <1>2, <2>1, <2>2 DEF Journaled, JournalInv
    <3>2. cur.seq = NoSeq => due' = due
      BY <2>1
    <3>3. cur.seq # NoSeq /\ UNCHANGED journal => pc' = "returned" \/ "http" \in faults
      <4>1. SUFFICES ASSUME cur.seq # NoSeq, UNCHANGED journal, Journaled
                     PROVE  FALSE
        BY <1>2
      <4>2. journal' = Append(journal, cur.seq)
        BY <4>1 DEF Journaled
      <4> QED
        BY <1>0, <4>1, <4>2, AppendIs
    <3> QED
      BY <1>0, <2>1, <3>1, <3>2, <3>3 DEF JournalInv
  <2>3. CASE cur.seq # NoSeq /\ Journaled
    <3>1. journal' = Append(journal, due) /\ due' = due + 1 /\ due < Len(log)
      BY <2>1, <2>3 DEF Journaled
    <3>2. /\ Len(journal') = Len(journal) + 1 /\ journal'[Len(journal) + 1] = due
          /\ \A i \in 1..Len(journal) : journal'[i] = journal[i]
          /\ \A i \in 1..(Len(journal) + 1) : i \in 1..Len(journal) \/ i = Len(journal) + 1
      BY <1>0, <3>1, AppendIs
    <3>3. \A i \in 1..Len(journal') : journal'[i] < due'
      BY <1>0, <3>1, <3>2 DEF JournalInv
    <3>4. \A i, j \in 1..Len(journal') : i < j => journal'[i] < journal'[j]
      BY <1>0, <3>1, <3>2 DEF JournalInv
    <3> QED
      BY <1>0, <2>1, <3>1, <3>2, <3>3, <3>4 DEF JournalInv
  <2> QED
    BY <1>2, <2>2, <2>3
<1>3. ASSUME NEW b \in BOOLEAN, Resume(b)
      PROVE  JournalInv'
  <2>1. /\ journal' = <<>> \/ journal' = journal
        /\ due' = IF journal' = <<>> THEN 0 ELSE journal'[Len(journal')] + 1
        /\ UNCHANGED <<log, faults>>
    BY <1>3 DEF Resume, serverVars
  <2>2. CASE journal' = <<>>
    BY <1>0, <2>1, <2>2 DEF JournalInv
  <2>3. CASE journal' = journal /\ journal # <<>>
    <3>1. /\ Len(journal) \in 1..Len(journal) /\ due' = journal[Len(journal)] + 1
          /\ \A i \in 1..Len(journal) : journal[i] \in Nat
      BY <1>0, <2>1, <2>3
    <3>2. due' <= due
      BY <1>0, <3>1 DEF JournalInv
    <3>3. \A i \in 1..Len(journal) : journal[i] < due'
      BY <1>0, <3>1 DEF JournalInv
    <3> QED
      BY <1>0, <2>1, <2>3, <3>1, <3>2, <3>3 DEF JournalInv
  <2> QED
    BY <2>1, <2>2, <2>3
<1> QED
  BY <1>1, <1>2, <1>3, HookFrame DEF PerhapsJournaled

\* A terminal event that has a seq is the last of the log.
LEMMA TerminalIsLast ==
  ASSUME TypeOK, LogInv, HookInv, InHook, cur.seq # NoSeq, cur.kind \in Terminal
  PROVE  /\ srv = "done"
         /\ cur.seq = due /\ due + 1 = Len(log)
         /\ cur.kind = log[Len(log)] /\ cur.kind \in Verdicts
         /\ Settled(cur.kind) = Verdict
<1>1. cur.seq \in Nat /\ cur.seq < Len(log) /\ cur.kind = log[cur.seq + 1] /\ cur.seq = due
  BY Types DEF HookInv, Genuine, TypeOK
<1>2. cur.seq + 1 \in 1..Len(log) /\ log[cur.seq + 1] \in Persisted
  BY <1>1 DEF TypeOK
<1>3. cur.kind \in Verdicts
  BY <1>1, <1>2 DEF Persisted, Noise, Verdicts, Terminal, TerminalSuccess, TerminalFailure
<1>4. srv = "done" /\ cur.seq + 1 = Len(log)
  BY <1>1, <1>2, <1>3 DEF LogInv
<1>5. Settled(cur.kind) = Verdict
  BY <1>1, <1>3, <1>4 DEF Settled, Verdict, Verdicts, TerminalSuccess
<1> QED
  BY <1>1, <1>3, <1>4, <1>5

\* The steps that answer for the order, and what is known when they do.
LEMMA SettlingStep ==
  ASSUME IInv, Next, outcome' # outcome, outcome' \in Definite
  PROVE  /\ Answer' = Verdict'
         /\ outcome' # "rejected" =>
              /\ due' = Len(log') /\ log'[Len(log')] \in Verdicts
              /\ "http" \notin faults' => Len(journal') = Len(log')
<1> USE DEF NoSeq, vars, serverVars, netVars, callVars, callerVars
<1>0. cur \in Event /\ due \in Nat /\ journal \in Seq(Nat)
  BY StepFacts DEF TypeOK
<1>1. ASSUME InHook, HookCalled, Journaled, UNCHANGED serverVars, cur.seq # NoSeq, cur.kind \in Terminal,
             Return(Settled(cur.kind))
      PROVE  /\ Answer' = Verdict'
             /\ due' = Len(log') /\ log'[Len(log')] \in Verdicts
             /\ "http" \notin faults' => Len(journal') = Len(log')
  <2>1. /\ srv = "done" /\ due + 1 = Len(log) /\ log[Len(log)] \in Verdicts
        /\ Settled(cur.kind) = Verdict
    BY <1>1, TerminalIsLast, StepFacts
  <2>2. Verdict' = Verdict
    BY <1>1 DEF Verdict
  <2>3. outcome' = Settled(cur.kind) /\ Settled(cur.kind) \in {"executed", "canceled", "failed"}
    BY <1>1, Types DEF Return
  <2>4. Answer' = outcome'
    BY <2>3 DEF Answer, Unsettled
  <2>5. due' = Len(log')
    BY <1>0, <1>1, <2>1, StepFacts DEF HookCalled, HookInv
  <2>6. "http" \notin faults' => Len(journal') = Len(log')
    <3>1. SUFFICES ASSUME "http" \notin faults' PROVE Len(journal') = Len(log')
      OBVIOUS
    <3>2. Len(journal) = due
      BY <1>1, <3>1, StepFacts DEF HookCalled, JournalInv, InHook
    <3>3. journal' = Append(journal, cur.seq)
      BY <1>1 DEF Journaled
    <3> QED
      BY <1>0, <1>1, <2>1, <3>2, <3>3, AppendIs
  <2> QED
    BY <1>1, <2>1, <2>2, <2>3, <2>4, <2>5, <2>6
<1>2. CASE OnTerminal
  <2>1. cur.seq # NoSeq
    BY <1>2, StepFacts DEF OnTerminal, InStreamHook, HookInv, InHook, Genuine, Rejected
  <2> QED
    BY <1>1, <1>2, <2>1 DEF OnTerminal, InStreamHook, InHook
<1>3. CASE OnReplayed
  <2>1. cur.seq # NoSeq
    BY <1>3, StepFacts DEF OnReplayed, InReplayHook, WaitInv
  <2> QED
    BY <1>1, <1>3, <2>1 DEF OnReplayed, InReplayHook, InHook
<1>4. CASE OnRejected
  <2>1. cur.kind = "EnqueueFailed"
    <3>1. cur.seq = NoSeq => trk
      BY <1>4, StepFacts DEF OnRejected, InStreamHook, StreamInv
    <3>2. Genuine(cur, log, srv)
      BY <1>4, StepFacts DEF OnRejected, InStreamHook, HookInv, InHook
    <3> QED
      BY <1>4, <3>1, <3>2 DEF OnRejected, Rejected, FallsBack, StreamTimedOut, Genuine
  <2>2. srv' = "refused" /\ outcome' = "rejected"
    BY <1>4, <2>1, StepFacts
       DEF OnRejected, InStreamHook, Return, HookInv, InHook, Genuine
  <2> QED
    BY <2>2 DEF Verdict, Answer, Unsettled
<1> QED
  BY <1>2, <1>3, <1>4
     DEF Next, Server, StreamEnds, Client, Caller, ServerAccepts, ServerRefuses,
         ServerEnqueueFails, ServerReports, ServerInitiates, ServerSettles, StreamExpires,
         StreamCloses, StreamBreaks, Submit, StreamOpened, PostFails, ReadEvent, StreamOver,
         OnAccepted, OnProgress, OnStreamTimeout, PollReply, PollFails,
         PollExpires, ReplayEvent, Sleep, StreamHookRaises, ReplayHookRaises, Crash,
         Resume, Finished, LoseStream, FallBack, Observe, Return, InStreamHook, InReplayHook,
         Definite

LEMMA VerdictStep ==
  ASSUME IInv, Next
  PROVE  VerdictAgreement' /\ SettledJourneyComplete'
<1> USE DEF vars, serverVars, netVars, callVars, callerVars
<1>0. VerdictAgreement /\ SettledJourneyComplete /\ AnswerInv
  BY DEF IInv
<1>1. CASE outcome' # outcome
  BY <1>1, SettlingStep DEF VerdictAgreement, SettledJourneyComplete, Definite
<1>2. CASE outcome' = outcome /\ outcome \in Definite
  <2>1. pc = "returned" /\ srv \in {"refused", "done"}
    BY <1>0, <1>2, StepFacts DEF VerdictAgreement, AnswerInv, Answer, Verdict, Definite, Unsettled, TypeOK
  <2>2. UNCHANGED serverVars
    BY <2>1, ServerFrame, ServerSteps
       DEF ServerAccepts, ServerRefuses, ServerEnqueueFails, Submit
  <2>3. UNCHANGED <<due, journal, faults>>
    BY <1>2, <2>1
       DEF Next, Server, StreamEnds, Client, Caller, ServerAccepts, ServerRefuses,
         ServerEnqueueFails, ServerReports, ServerInitiates, ServerSettles, StreamExpires,
         StreamCloses, StreamBreaks, Submit, StreamOpened, PostFails, ReadEvent, StreamOver,
         OnAccepted, OnProgress, OnStreamTimeout, OnRejected, OnTerminal, PollReply, PollFails,
         PollExpires, ReplayEvent, Sleep, OnReplayed, StreamHookRaises, ReplayHookRaises, Crash,
         Resume, Finished, InStreamHook, InReplayHook, Definite, Unsettled
  <2>4. Verdict' = Verdict /\ Answer' = Answer
    BY <1>2, <2>2 DEF Verdict, Answer
  <2> QED
    BY <1>0, <1>2, <2>2, <2>3, <2>4 DEF VerdictAgreement, SettledJourneyComplete
<1>3. CASE outcome' = outcome /\ outcome \notin Definite
  BY <1>3 DEF VerdictAgreement, SettledJourneyComplete, Definite
<1> QED
  BY <1>1, <1>2, <1>3

LEMMA InitIInv == Init => IInv
<1> SUFFICES ASSUME Init PROVE IInv
  OBVIOUS
<1> USE ConstantsAssumption DEF Init, NoSeq
<1>1. TypeOK
  <2>1. cur \in Event /\ outcome \in Outcomes
    BY Types
  <2>2. 0 \in 0..Deadline /\ 0 \in 0..MaxResumes
    OBVIOUS
  <2>3. <<>> \in Seq(Persisted) /\ <<>> \in Seq(Event) /\ <<>> \in Seq(Nat)
    OBVIOUS
  <2> QED
    BY <2>1, <2>2, <2>3 DEF TypeOK
<1>2. LogInv /\ WireInv /\ StreamInv
  BY DEF LogInv, WireInv, StreamInv, InStream
<1>3. HookInv /\ EventsInv /\ WaitInv /\ AnswerInv
  BY DEF HookInv, EventsInv, WaitInv, AnswerInv, InHook, InStream, InWait
<1>4. JournalInv /\ VerdictAgreement /\ SettledJourneyComplete
  BY DEF JournalInv, VerdictAgreement, SettledJourneyComplete, Definite
<1> QED
  BY <1>1, <1>2, <1>3, <1>4 DEF IInv

LEMMA IInvStep == IInv /\ [Next]_vars => IInv'
<1>1. IInv /\ Next => IInv'
  BY TypeStep, LogStep, WireStep, StreamStep, HookStep, EventsStep, WaitStep, AnswerStep,
     JournalStep, VerdictStep DEF IInv
<1>2. IInv /\ UNCHANGED vars => IInv'
  BY DEF vars, IInv, TypeOK, LogInv, WireInv, StreamInv, HookInv, EventsInv, WaitInv, AnswerInv,
     JournalInv, VerdictAgreement, SettledJourneyComplete, InStream, InWait, InHook,
     Upcoming, Answer, Verdict
<1> QED
  BY <1>1, <1>2

LEMMA Invariance == Spec => []IInv
BY InitIInv, IInvStep, PTL DEF Spec

\* How the answer moves.
LEMMA AnswerMoves ==
  ASSUME IInv, Next, outcome' # outcome
  PROVE  \/ outcome = "none" /\ outcome' \in Unsettled \union Definite
         \/ outcome \in Unsettled /\ outcome' = "none"
<1> USE DEF vars, serverVars, netVars, callVars, callerVars
<1>0. AnswerInv /\ AnswerInv' /\ outcome' \in Outcomes
  BY AnswerStep, StepFacts DEF IInv, TypeOK
<1>1. CASE pc = "returned"
  BY <1>1 DEF Next, Server, StreamEnds, Client, Caller, ServerAccepts, ServerRefuses,
         ServerEnqueueFails, ServerReports, ServerInitiates, ServerSettles, StreamExpires,
         StreamCloses, StreamBreaks, Submit, StreamOpened, PostFails, ReadEvent, StreamOver,
         OnAccepted, OnProgress, OnStreamTimeout, OnRejected, OnTerminal, PollReply, PollFails,
         PollExpires, ReplayEvent, Sleep, OnReplayed, StreamHookRaises, ReplayHookRaises, Crash,
         Resume, Finished, InStreamHook, InReplayHook
<1>2. CASE pc # "returned"
  BY <1>0, <1>2 DEF AnswerInv, Outcomes
<1> QED
  BY <1>1, <1>2

\* A step of the client and the service is a step of OrderSettlement.
LEMMA SettlementStep ==
  ASSUME IInv, Next
  PROVE  Settlement!Next \/ UNCHANGED <<Verdict, Answer>>
<1> USE DEF Settlement!Next, Settlement!Final
<1>1. CASE Server
  <2>1. Answer' = Answer
    BY <1>1 DEF Server, ServerAccepts, ServerRefuses, ServerEnqueueFails, ServerReports,
       ServerInitiates, ServerSettles, callVars, Answer
  <2>2. CASE ServerAccepts
    <3>1. Verdict = "none" /\ Verdict' = "pending"
      BY <2>2 DEF ServerAccepts, Verdict
    <3> QED
      BY <2>1, <3>1 DEF Settlement!Take
  <2>3. CASE ServerRefuses \/ ServerEnqueueFails
    <3>1. Verdict \in {"none", "pending"} /\ Verdict' = "refused"
      BY <2>3 DEF ServerRefuses, ServerEnqueueFails, Verdict
    <3> QED
      BY <2>1, <3>1 DEF Settlement!Decide
  <2>4. CASE srv = "queued" /\ srv' = "queued"
    BY <2>1, <2>4 DEF Verdict
  <2>5. CASE srv = "queued" /\ srv' = "done"
    <3>1. Verdict = "pending" /\ Verdict' \in {"executed", "canceled", "failed"}
      BY <2>5 DEF Verdict
    <3> QED
      BY <2>1, <3>1 DEF Settlement!Decide
  <2> QED
    BY <1>1, <2>2, <2>3, <2>4, <2>5, ServerSteps
<1>2. CASE Submit
  BY <1>2, StepFacts DEF Submit, StreamInv, Verdict, Answer
<1>3. CASE UNCHANGED serverVars /\ outcome' = outcome
  BY <1>3 DEF serverVars, Verdict, Answer
<1>4. CASE UNCHANGED serverVars /\ outcome' # outcome
  <2>1. Verdict' = Verdict
    BY <1>4 DEF serverVars, Verdict
  <2>2. CASE outcome = "none" /\ outcome' \in Unsettled
    <3>1. Answer = "waiting" /\ Answer' = "unknown"
      BY <2>2 DEF Answer, Unsettled
    <3> QED
      BY <2>1, <3>1 DEF Settlement!Tell
  <2>3. CASE outcome = "none" /\ outcome' \in Definite
    <3>1. Answer = "waiting" /\ Answer' \in Settlement!Final
      BY <2>3 DEF Answer, Definite, Unsettled
    <3>2. Answer' = Verdict
      BY <1>4, <2>1, <2>3, SettlingStep
    <3> QED
      BY <2>1, <3>1, <3>2 DEF Settlement!Tell
  <2>4. CASE outcome \in Unsettled /\ outcome' = "none"
    <3>1. Answer = "unknown" /\ Answer' = "waiting"
      BY <2>4 DEF Answer, Unsettled
    <3> QED
      BY <2>1, <3>1 DEF Settlement!AskAgain
  <2> QED
    BY <1>4, <2>2, <2>3, <2>4, AnswerMoves
<1> QED
  BY <1>1, <1>2, <1>3, <1>4, ServerFrame

-----------------------------------------------------------------------------
\* Every reachable state is well typed.
THEOREM TypeCorrect == Spec => []TypeOK
BY Invariance, PTL DEF IInv

\* What the hook records of the service's events it records once and in order,
\* and without a gap when none of its exceptions is taken for the connection's,
\* over the stream, the polling and any number of resumptions.
THEOREM ExactlyOnceDelivery == Spec => []ExactlyOnceInOrder
<1>1. IInv => ExactlyOnceInOrder
  <2>1. ASSUME IInv PROVE \A i \in 1..Len(journal) : journal[i] < Len(log)
    <3>1. /\ \A i \in 1..Len(journal) : journal[i] \in Nat /\ journal[i] < due
          /\ due <= Len(log)
      BY <2>1, StateFacts DEF IInv, JournalInv
    <3> QED
      BY <2>1, <3>1, StateFacts
  <2> QED
    BY <2>1 DEF IInv, JournalInv, ExactlyOnceInOrder
<1> QED
  BY <1>1, Invariance, PTL

\* A call answers for the order only with the service's verdict.
THEOREM AnswersAgree == Spec => []VerdictAgreement
BY Invariance, PTL DEF IInv

\* When a call answers for a settled order its hook has been given the terminal
\* event, and has recorded the whole log unless one of its exceptions was taken
\* for the connection's.
THEOREM JourneysComplete == Spec => []SettledJourneyComplete
BY Invariance, PTL DEF IInv

\* The client with the service implements OrderSettlement.
THEOREM Implementation == Spec => ImplementsSettlement
<1>1. Init => Settlement!Init
  <2>1. Init => Verdict = "none"
    BY DEF Init, Verdict
  <2>2. outcome = "none" => Answer = "waiting"
    BY DEF Answer, Unsettled
  <2> QED
    BY <2>1, <2>2 DEF Init, Settlement!Init
<1>2. IInv /\ [Next]_vars => [Settlement!Next]_(Settlement!vars)
  <2>1. IInv /\ Next => [Settlement!Next]_(Settlement!vars)
    BY SettlementStep DEF Settlement!vars
  <2>2. UNCHANGED vars => UNCHANGED Settlement!vars
    BY DEF vars, Settlement!vars, Verdict, Answer
  <2> QED
    BY <2>1, <2>2
<1> QED
  BY <1>1, <1>2, Invariance, PTL DEF Spec, ImplementsSettlement, Settlement!Spec

-----------------------------------------------------------------------------
\* Where the terminal event of a call can be: a call still under way has it
\* only in the hands of its hook.
HonestCall ==
  /\ InHook => Len(events) > 0 /\ cur = events[Len(events)]
  /\ pc # "returned" =>
       \A i \in 1..Len(events) :
         events[i].seq # NoSeq /\ events[i].kind \in Terminal =>
           InHook /\ i = Len(events)
  /\ TimeoutIsHonest

LEMMA HonestStep ==
  ASSUME IInv, Next, HonestCall, "http" \notin faults
  PROVE  HonestCall'
<1> USE DEF NoSeq, vars, serverVars, netVars, callVars, callerVars
<1>0. events \in Seq(Event) /\ Len(events) \in Nat /\ cur \in Event
  BY StepFacts DEF TypeOK
<1>1. ASSUME NEW ev \in Event, NEW at, events' = Append(events, ev), cur' = ev,
             ~InHook, pc # "returned", InHook', outcome' = outcome
      PROVE  HonestCall'
  <2>1. /\ Len(events') = Len(events) + 1 /\ events'[Len(events) + 1] = ev
        /\ \A i \in 1..Len(events) : events'[i] = events[i]
        /\ \A i \in 1..(Len(events) + 1) : i \in 1..Len(events) \/ i = Len(events) + 1
    BY <1>0, <1>1, AppendIs
  <2>2. outcome' = "none"
    BY <1>1 DEF IInv, AnswerInv
  <2> QED
    BY <1>0, <1>1, <2>1, <2>2 DEF HonestCall, TimeoutIsHonest
<1>2. CASE ReadEvent \/ ReplayEvent
  BY <1>1, <1>2, <1>0, StepFacts DEF ReadEvent, ReplayEvent, Observe, InHook, TypeOK
<1>3. ASSUME InHook, UNCHANGED <<events, cur>>, outcome' = "none",
             cur.seq = NoSeq \/ cur.kind \notin Terminal, ~InHook'
      PROVE  HonestCall'
  BY <1>0, <1>3 DEF HonestCall, TimeoutIsHonest, InHook
<1>4. CASE OnAccepted \/ OnProgress
  BY <1>3, <1>4 DEF IInv, AnswerInv, OnAccepted, OnProgress, InStreamHook, InHook, Terminal,
     TerminalSuccess, TerminalFailure, HonestCall, TimeoutIsHonest, Return
<1>5. CASE OnStreamTimeout
  <2>1. cur.seq = NoSeq
    <3>1. Genuine(cur, log, srv) /\ log \in Seq(Persisted) /\ StreamTimedOut(cur)
      BY <1>5, StepFacts DEF OnStreamTimeout, InStreamHook, FallsBack, HookInv, InHook, TypeOK
    <3>2. cur.seq # NoSeq => cur.kind \in Persisted
      BY <1>0, <3>1, Types DEF Genuine
    <3> QED
      BY <3>1, <3>2 DEF StreamTimedOut, Persisted, Noise, Verdicts
  <2> QED
    BY <1>3, <1>5, <2>1 DEF OnStreamTimeout, FallBack, InStreamHook, InHook, IInv, AnswerInv
<1>6. CASE OnReplayed
  BY <1>3, <1>6, Types DEF OnReplayed, InReplayHook, InHook, IInv, AnswerInv, HonestCall,
     TimeoutIsHonest, Return
<1>7. CASE pc' = "returned" /\ outcome' # "timeout"
  BY <1>7 DEF HonestCall, TimeoutIsHonest, InHook
<1>8. CASE PollExpires
  BY <1>8 DEF PollExpires, Return, HonestCall, TimeoutIsHonest, InHook
<1>9. CASE /\ ~InHook /\ ~InHook' /\ pc # "returned"
           /\ UNCHANGED <<events, outcome>>
  BY <1>9 DEF HonestCall, TimeoutIsHonest, IInv, AnswerInv
<1>10. CASE UNCHANGED <<events, cur, pc, outcome>>
  BY <1>10 DEF HonestCall, TimeoutIsHonest, InHook
<1>11. CASE \E b \in BOOLEAN : Resume(b)
  BY <1>11 DEF Resume, HonestCall, TimeoutIsHonest, InHook
<1> QED
  BY <1>2, <1>4, <1>5, <1>6, <1>7, <1>8, <1>9, <1>10, <1>11, Types
     DEF Next, Server, StreamEnds, Client, Caller, ServerAccepts, ServerRefuses,
         ServerEnqueueFails, ServerReports, ServerInitiates, ServerSettles, StreamExpires,
         StreamCloses, StreamBreaks, Submit, StreamOpened, PostFails, StreamOver,
         OnRejected, OnTerminal, PollReply, PollFails, Sleep, StreamHookRaises,
         ReplayHookRaises, Crash, Finished, LoseStream, FallBack, Return, InHook

HonestInv == "http" \notin faults => HonestCall

LEMMA FaultsKept == [Next]_vars => faults' = faults
  BY DEF vars, serverVars, netVars, callVars, callerVars, Next, Server, StreamEnds, Client, Caller,
         ServerAccepts, ServerRefuses, ServerEnqueueFails, ServerReports, ServerInitiates,
         ServerSettles, StreamExpires, StreamCloses, StreamBreaks, Submit, StreamOpened,
         PostFails, ReadEvent, StreamOver, InStreamHook, HookCalled, OnAccepted, OnProgress,
         OnStreamTimeout, OnRejected, OnTerminal, StreamHookRaises, PollReply, PollFails,
         PollExpires, ReplayEvent, Sleep, InReplayHook, OnReplayed, ReplayHookRaises, Crash,
         Resume, Finished

\* With a hook that raises no httpx.HTTPError, a call that has been given the
\* order's terminal event never reports a timeout.
THEOREM TimeoutsAreHonest == Spec => []TimeoutIsHonest
<1>1. Init => HonestInv
  BY DEF Init, HonestInv, HonestCall, TimeoutIsHonest, InHook
<1>2. IInv /\ HonestInv /\ [Next]_vars => HonestInv'
  <2>1. CASE UNCHANGED vars
    BY <2>1 DEF vars, HonestInv, HonestCall, TimeoutIsHonest, InHook
  <2> QED
    BY <2>1, HonestStep, FaultsKept DEF HonestInv
<1>3. HonestInv => TimeoutIsHonest
  BY DEF HonestInv, HonestCall, TimeoutIsHonest
<1> QED
  BY <1>1, <1>2, <1>3, Invariance, PTL DEF Spec
=============================================================================
