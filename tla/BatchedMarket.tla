---------------------------- MODULE BatchedMarket ----------------------------
(***************************************************************************)
(* One market order through BatchedMarketClient                            *)
(* (execution/batched_market.py): execute() posts it and reads its         *)
(* lifecycle as server-sent events, falls back to wait(), which polls the  *)
(* status replay, and either settles or leaves the caller to resume with   *)
(* another wait().  Every event goes through the caller's on_event hook    *)
(* before it is acted on.                                                  *)
(*                                                                         *)
(* The service and the connection are external: they are what the module's *)
(* docstring and the client rely on.  An event is its kind (type and code  *)
(* together) and its seq; the persisted log holds the kinds, and the seq   *)
(* of log[i] is i - 1.                                                     *)
(***************************************************************************)
EXTENDS Integers, Sequences, FiniteSets

CONSTANTS
  Deadline,    \* timeout_s of wait, in poll intervals
  MaxNoise,    \* bound: AttemptFailed and unknown events the service logs
  MaxResumes,  \* bound: times the caller calls wait() again
  HookFaults   \* exceptions on_event may raise: "http" is an httpx.HTTPError

ASSUME ConstantsAssumption ==
  /\ Deadline \in Nat
  /\ MaxNoise \in Nat
  /\ MaxResumes \in Nat
  /\ HookFaults \subseteq {"http", "other"}

VARIABLES
  \* the service and the connection (external)
  srv,      \* the request at the service
  log,      \* kinds of the persisted events
  stream,   \* the SSE response
  wire,     \* events sent on it and not read
  \* the client call in progress
  pc,
  waiting,  \* the wait argument of execute()
  trk,      \* execute() holds a tracking id
  events,   \* the events collected by this call
  cur,      \* the event its hook is looking at
  replay,   \* the rest of the last status response
  seen,     \* seen_seq
  left,     \* poll intervals left before the deadline
  outcome,  \* how the last call ended
  \* the caller
  due,      \* the seq its hook is due next (history: no step depends on it)
  journal,  \* seqs of the persisted events its hook has recorded
  ticket,   \* its hook has recorded the tracking id
  resumes,
  faults    \* the exceptions its hook may raise

serverVars == <<srv, log>>
netVars == <<stream, wire>>
callVars == <<pc, waiting, trk, events, cur, replay, seen, left, outcome>>
callerVars == <<due, journal, ticket, resumes, faults>>
vars == <<srv, log, stream, wire, pc, waiting, trk, events, cur, replay, seen,
          left, outcome, due, journal, ticket, resumes, faults>>

NoSeq == -1    \* an event without an id: line, and after_seq=None

\* "MarketOrderExecuted" and "PositionSizeIncreased" are one kind, and so are
\* the two initiation events.  An Error is split by what its code and message
\* say: "ErrorTimedOut" has no code and a message that says "timed out".
TerminalSuccess == {"Executed"}
TerminalFailure == {"Canceled", "Error", "ErrorTimedOut", "StreamTimeout",
                    "EnqueueFailed"}
Terminal == TerminalSuccess \union TerminalFailure
Noise == {"AttemptFailed", "Info"}
\* The terminal kinds the service persists.
Verdicts == {"Executed", "Canceled", "Error", "ErrorTimedOut"}
Persisted == {"Accepted", "Initiated"} \union Noise \union Verdicts
Kinds == Persisted \union {"StreamTimeout", "EnqueueFailed"}

Event == [kind : Kinds, seq : Nat \union {NoSeq}]

Definite == {"executed", "canceled", "failed", "rejected"}
\* What leaves the caller without a verdict: wait=False, an ApiError, a
\* RelayTimeoutError, an exception of its hook, a crash of its process.
Unsettled == {"accepted", "api_error", "timeout", "hook_error", "crashed"}
Outcomes == {"none"} \union Definite \union Unsettled

TypeOK ==
  /\ srv \in {"idle", "posted", "queued", "refused", "done"}
  /\ log \in Seq(Persisted)
  /\ stream \in {"none", "open", "closed", "broken"}
  /\ wire \in Seq(Event)
  /\ pc \in {"idle", "connecting", "reading", "stream_hook", "poll", "replay",
             "replay_hook", "returned"}
  /\ waiting \in BOOLEAN
  /\ trk \in BOOLEAN
  /\ events \in Seq(Event)
  /\ cur \in Event
  /\ replay \in Seq(Event)
  /\ seen \in Nat \union {NoSeq}
  /\ left \in 0..Deadline
  /\ outcome \in Outcomes
  /\ due \in Nat
  /\ journal \in Seq(Nat)
  /\ ticket \in BOOLEAN
  /\ resumes \in 0..MaxResumes
  /\ faults \subseteq HookFaults

Init ==
  /\ srv = "idle"
  /\ log = <<>>
  /\ stream = "none"
  /\ wire = <<>>
  /\ pc = "idle"
  /\ waiting \in BOOLEAN
  /\ trk = FALSE
  /\ events = <<>>
  /\ cur = [kind |-> "Accepted", seq |-> NoSeq]
  /\ replay = <<>>
  /\ seen = NoSeq
  /\ left = 0
  /\ outcome = "none"
  /\ due = 0
  /\ journal = <<>>
  /\ ticket = FALSE
  /\ resumes = 0
  /\ faults \in SUBSET HookFaults

-----------------------------------------------------------------------------
(* The service and the connection. *)

\* An event the service sends reaches the wire only while the response is open.
Send(ev) == wire' = IF stream = "open" THEN Append(wire, ev) ELSE wire

\* Append an event to the log under the next seq and stream it.
Persist(kind) ==
  /\ log' = Append(log, kind)
  /\ Send([kind |-> kind, seq |-> Len(log)])
  /\ UNCHANGED stream

\* The request is taken: a tracking id is minted and seq 0 persisted.  It can
\* arrive after the client has given up on the connection.
ServerAccepts ==
  /\ srv = "posted"
  /\ srv' = "queued"
  /\ log' = <<"Accepted">>
  /\ IF pc = "connecting"
     THEN /\ stream' = "open"
          /\ wire' = <<[kind |-> "Accepted", seq |-> 0]>>
     ELSE UNCHANGED netVars
  /\ UNCHANGED <<callVars, callerVars>>

ServerRefuses ==
  /\ srv = "posted"
  /\ srv' = "refused"
  /\ UNCHANGED <<log, netVars, callVars, callerVars>>

\* The accepted request never reaches the execution queue; the Error that says
\* so has no seq.
ServerEnqueueFails ==
  /\ srv = "queued"
  /\ Len(log) = 1
  /\ srv' = "refused"
  /\ Send([kind |-> "EnqueueFailed", seq |-> NoSeq])
  /\ stream' = IF stream = "open" THEN "closed" ELSE stream
  /\ UNCHANGED <<log, callVars, callerVars>>

ServerReports(kind) ==
  /\ srv = "queued"
  /\ Cardinality({i \in 1..Len(log) : log[i] \in Noise}) < MaxNoise
  /\ Persist(kind)
  /\ UNCHANGED <<srv, callVars, callerVars>>

ServerInitiates ==
  /\ srv = "queued"
  /\ \A i \in 1..Len(log) : log[i] # "Initiated"
  /\ Persist("Initiated")
  /\ UNCHANGED <<srv, callVars, callerVars>>

\* Exactly one terminal event; a fill or a cancellation is of an order that
\* was registered on chain.
ServerSettles(kind) ==
  /\ srv = "queued"
  /\ kind \in {"Executed", "Canceled"} =>
       \E i \in 1..Len(log) : log[i] = "Initiated"
  /\ srv' = "done"
  /\ Persist(kind)
  /\ UNCHANGED <<callVars, callerVars>>

\* The lifetime cap of the response: an Error of this connection, without a
\* seq, with code STREAM_TIMEOUT or, from older servers, only its message.
StreamExpires(kind) ==
  /\ stream = "open"
  /\ Send([kind |-> kind, seq |-> NoSeq])
  /\ stream' = "closed"
  /\ UNCHANGED <<serverVars, callVars, callerVars>>

\* The response ends without a further event.
StreamCloses ==
  /\ stream = "open"
  /\ stream' = "closed"
  /\ UNCHANGED <<wire, serverVars, callVars, callerVars>>

\* The connection drops; what was on the wire is lost.
StreamBreaks ==
  /\ stream \in {"open", "closed"}
  /\ stream' = "broken"
  /\ wire' = <<>>
  /\ UNCHANGED <<serverVars, callVars, callerVars>>

Server ==
  \/ ServerAccepts
  \/ ServerRefuses
  \/ ServerEnqueueFails
  \/ \E kind \in Noise : ServerReports(kind)
  \/ ServerInitiates
  \/ \E kind \in Verdicts : ServerSettles(kind)

StreamEnds ==
  \/ \E kind \in {"StreamTimeout", "ErrorTimedOut"} : StreamExpires(kind)
  \/ StreamCloses
  \/ StreamBreaks

-----------------------------------------------------------------------------
(* The pieces of the client's steps. *)

\* Leaving the block that holds the response closes it.
LeaveStream ==
  /\ stream' = "none"
  /\ wire' = <<>>

Return(result) ==
  /\ pc' = "returned"
  /\ outcome' = result

\* Mutant: the seq of the last event, which an Error of the connection lacks.
LastSeqOfTheLast(evs) == IF evs = <<>> THEN NoSeq ELSE evs[Len(evs)].seq

\* The seq a list of events has got to, None if none of them has one.
LastSeq(evs) ==
  LET seqs == {NoSeq} \union {evs[i].seq : i \in 1..Len(evs)}
  IN  CHOOSE m \in seqs : \A s \in seqs : s <= m

\* execute() hands over to wait(), seeded with what the stream delivered.
FallBack ==
  /\ LeaveStream
  /\ pc' = "poll"
  /\ seen' = LastSeq(events)
  /\ left' = Deadline
  /\ UNCHANGED outcome

\* Leave the stream as a lost connection does: without a tracking id there is
\* nothing to poll.
LoseStream ==
  IF trk
  THEN FallBack
  ELSE /\ LeaveStream
       /\ Return("api_error")
       /\ UNCHANGED <<seen, left>>

\* Mutant: the missing seq is not asked for.
StreamTimedOutAnySeq(ev) == ev.kind \in {"StreamTimeout", "ErrorTimedOut"}

\* This connection's view of the request timed out, the request did not.
StreamTimedOut(ev) ==
  \/ ev.kind = "StreamTimeout"
  \/ ev.kind = "ErrorTimedOut" /\ ev.seq = NoSeq

\* Mutant: a cancellation is returned as a fill.
SettledAsFill(kind) ==
  IF kind \in TerminalSuccess \union {"Canceled"} THEN "executed" ELSE "failed"

\* _settle: the value returned, or the RelayError raised, for a terminal.
Settled(kind) ==
  CASE kind \in TerminalSuccess -> "executed"
    [] kind = "Canceled"        -> "canceled"
    [] OTHER                    -> "failed"

\* Mutant: the hook is not given the terminal event.
HookCalledUnlessTerminal ==
  /\ due' = IF cur.seq = NoSeq \/ cur.kind \in Terminal THEN due ELSE cur.seq + 1
  /\ UNCHANGED <<resumes, faults>>

\* The caller's hook has been called with cur.
HookCalled ==
  /\ due' = IF cur.seq = NoSeq THEN due ELSE cur.seq + 1
  /\ UNCHANGED <<resumes, faults>>

\* It has recorded the event, as one that returns has.
Journaled ==
  /\ journal' = IF cur.seq = NoSeq THEN journal ELSE Append(journal, cur.seq)
  /\ ticket' = (ticket \/ cur.kind = "Accepted")

\* One that raises may have done so before it did or not.
PerhapsJournaled == Journaled \/ UNCHANGED <<journal, ticket>>

\* An event is collected and its hook started.
Observe(ev, at) ==
  /\ events' = Append(events, ev)
  /\ cur' = ev
  /\ pc' = at

-----------------------------------------------------------------------------
(* execute() *)

Submit ==
  /\ pc = "idle"
  /\ srv' = "posted"
  /\ pc' = "connecting"
  /\ UNCHANGED <<log, netVars, waiting, trk, events, cur, replay, seen, left,
                 outcome, callerVars>>

StreamOpened ==
  /\ pc = "connecting"
  /\ stream \in {"open", "closed"}
  /\ pc' = "reading"
  /\ UNCHANGED <<serverVars, netVars, waiting, trk, events, cur, replay, seen,
                 left, outcome, callerVars>>

\* A status of 400 or more, or a transport error before the response; the
\* service may have taken the order all the same.
PostFails ==
  /\ pc = "connecting"
  /\ LeaveStream
  /\ Return("api_error")
  /\ UNCHANGED <<serverVars, waiting, trk, events, cur, replay, seen, left,
                 callerVars>>

ReadEvent ==
  /\ pc = "reading"
  /\ wire # <<>>
  /\ Observe(Head(wire), "stream_hook")
  /\ wire' = Tail(wire)
  /\ UNCHANGED <<serverVars, stream, waiting, trk, replay, seen, left, outcome,
                 callerVars>>

\* The stream is over: a clean end, or an httpx.HTTPError from the read.
StreamOver ==
  /\ pc = "reading"
  /\ wire = <<>>
  /\ stream \in {"closed", "broken"}
  /\ LoseStream
  /\ UNCHANGED <<serverVars, waiting, trk, events, cur, replay, callerVars>>

\* The hook is done with an event of the stream.
InStreamHook ==
  /\ pc = "stream_hook"
  /\ HookCalled
  /\ UNCHANGED <<serverVars, waiting, events, cur, replay>>

\* The terminal is this connection's timeout: go on by polling.
FallsBack == StreamTimedOut(cur) /\ trk

\* An Error that no persisted event stands behind, or that says the request
\* was never queued.
Rejected ==
  /\ cur.kind \in {"Error", "ErrorTimedOut", "StreamTimeout", "EnqueueFailed"}
  /\ cur.kind = "EnqueueFailed" \/ cur.seq = NoSeq

OnAccepted ==
  /\ InStreamHook
  /\ Journaled
  /\ cur.kind = "Accepted"
  /\ trk' = TRUE
  /\ IF waiting
     THEN pc' = "reading" /\ UNCHANGED <<netVars, outcome>>
     ELSE LeaveStream /\ Return("accepted")
  /\ UNCHANGED <<seen, left>>

OnProgress ==
  /\ InStreamHook
  /\ Journaled
  /\ cur.kind \notin Terminal \union {"Accepted"}
  /\ pc' = "reading"
  /\ UNCHANGED <<netVars, trk, seen, left, outcome>>

OnStreamTimeout ==
  /\ InStreamHook
  /\ Journaled
  /\ FallsBack
  /\ FallBack
  /\ UNCHANGED trk

OnRejected ==
  /\ InStreamHook
  /\ Journaled
  /\ ~FallsBack
  /\ Rejected
  /\ LeaveStream
  /\ Return("rejected")
  /\ UNCHANGED <<trk, seen, left>>

OnTerminal ==
  /\ InStreamHook
  /\ Journaled
  /\ cur.kind \in Terminal
  /\ ~FallsBack
  /\ ~Rejected
  /\ LeaveStream
  /\ Return(Settled(cur.kind))
  /\ UNCHANGED <<trk, seen, left>>

\* The hook raises.  The call is inside the try that turns an httpx.HTTPError
\* into a lost connection, so one raised by the hook is taken for that; the
\* tracking id is stored only after the hook returns.
StreamHookRaises(fault) ==
  /\ InStreamHook
  /\ PerhapsJournaled
  /\ UNCHANGED trk
  /\ IF fault = "http"
     THEN LoseStream
     ELSE /\ LeaveStream
          /\ Return("hook_error")
          /\ UNCHANGED <<seen, left>>

-----------------------------------------------------------------------------
(* wait() *)

\* What the status endpoint answers for afterSeq = s.
EventsAfter(s) ==
  [i \in 1..(Len(log) - (s + 1)) |->
     [kind |-> log[s + 1 + i], seq |-> s + i]]

PollReply ==
  /\ pc = "poll"
  /\ left > 0
  /\ replay' = EventsAfter(seen)
  /\ pc' = "replay"
  /\ UNCHANGED <<serverVars, netVars, waiting, trk, events, cur, seen, left,
                 outcome, callerVars>>

\* status() raises ApiError, which wait() does not catch.
PollFails ==
  /\ pc = "poll"
  /\ left > 0
  /\ Return("api_error")
  /\ UNCHANGED <<serverVars, netVars, waiting, trk, events, cur, replay, seen,
                 left, callerVars>>

PollExpires ==
  /\ pc = "poll"
  /\ left = 0
  /\ Return("timeout")
  /\ UNCHANGED <<serverVars, netVars, waiting, trk, events, cur, replay, seen,
                 left, callerVars>>

ReplayEvent ==
  /\ pc = "replay"
  /\ replay # <<>>
  /\ Observe(Head(replay), "replay_hook")
  /\ replay' = Tail(replay)
  /\ UNCHANGED <<serverVars, netVars, waiting, trk, seen, left, outcome,
                 callerVars>>

\* Mutant: every poll starts the timeout anew.
SleepAgain ==
  /\ pc = "replay"
  /\ replay = <<>>
  /\ pc' = "poll"
  /\ left' = Deadline
  /\ UNCHANGED <<serverVars, netVars, waiting, trk, events, cur, replay, seen,
                 outcome, callerVars>>

\* Nothing terminal in this response: sleep.  Requests, hooks and the sleep
\* take at least one poll interval.
Sleep ==
  /\ pc = "replay"
  /\ replay = <<>>
  /\ pc' = "poll"
  /\ left' \in 0..(left - 1)
  /\ UNCHANGED <<serverVars, netVars, waiting, trk, events, cur, replay, seen,
                 outcome, callerVars>>

InReplayHook ==
  /\ pc = "replay_hook"
  /\ HookCalled
  /\ UNCHANGED <<serverVars, netVars, waiting, trk, events, cur, replay, left>>

OnReplayed ==
  /\ InReplayHook
  /\ Journaled
  /\ seen' = IF cur.seq = NoSeq THEN seen ELSE cur.seq
  /\ IF cur.kind \in Terminal
     THEN Return(Settled(cur.kind))
     ELSE pc' = "replay" /\ UNCHANGED outcome

ReplayHookRaises(fault) ==
  /\ InReplayHook
  /\ PerhapsJournaled
  /\ Return("hook_error")
  /\ UNCHANGED seen

-----------------------------------------------------------------------------
(* The caller *)

\* The process dies in the middle of a call; the journal is what it has kept.
Crash ==
  /\ pc \notin {"idle", "returned"}
  /\ LeaveStream
  /\ Return("crashed")
  /\ UNCHANGED <<serverVars, waiting, trk, events, cur, replay, seen, left,
                 callerVars>>

\* A caller that knows the tracking id calls wait() again, after the last seq
\* it has journaled or from the start of the log with a new journal.
Resume(afresh) ==
  /\ pc = "returned"
  /\ outcome \in Unsettled
  /\ ticket \/ outcome = "accepted"
  /\ resumes < MaxResumes
  /\ resumes' = resumes + 1
  /\ journal' = IF afresh THEN <<>> ELSE journal
  /\ seen' = IF journal' = <<>> THEN NoSeq ELSE journal'[Len(journal')]
  /\ due' = seen' + 1
  /\ events' = <<>>
  /\ replay' = <<>>
  /\ left' = Deadline
  /\ pc' = "poll"
  /\ outcome' = "none"
  /\ UNCHANGED <<serverVars, netVars, waiting, trk, cur, ticket, faults>>

\* Nothing is left to do: the caller has its answer or does not ask again.
Finished ==
  /\ pc = "returned"
  /\ UNCHANGED vars

\* The steps the client takes by itself once a call is under way.
Client ==
  \/ StreamOpened
  \/ PostFails
  \/ ReadEvent
  \/ StreamOver
  \/ OnAccepted
  \/ OnProgress
  \/ OnStreamTimeout
  \/ OnRejected
  \/ OnTerminal
  \/ PollReply
  \/ PollExpires
  \/ ReplayEvent
  \/ Sleep
  \/ OnReplayed

Caller ==
  \/ Submit
  \/ \E fault \in faults : StreamHookRaises(fault) \/ ReplayHookRaises(fault)
  \/ Crash
  \/ \E afresh \in BOOLEAN : Resume(afresh)
  \/ Finished

Next == Server \/ StreamEnds \/ Client \/ PollFails \/ Caller

Spec == Init /\ [][Next]_vars

\* A client step that can be taken is taken (the event loop runs, hooks
\* return), and a response does not stay open for ever: the service caps its
\* lifetime and a silent one ends in a read timeout.
Fairness ==
  /\ WF_vars(Client)
  /\ WF_vars(StreamEnds)

FairSpec == Spec /\ Fairness

-----------------------------------------------------------------------------
(* Properties *)

\* What the hook has recorded, over the stream, the fall back to polling and
\* every resumption after a crash or an exception, are events of the log, none
\* twice and in order; and, for a hook whose exceptions are not taken for the
\* connection's, from the first one on without a gap (market-orders.mdx:140;
\* the max seq of execute() and seen_seq of wait()).
ExactlyOnceInOrder ==
  /\ \A i \in 1..Len(journal) : journal[i] < Len(log)
  /\ \A i, j \in 1..Len(journal) : i < j => journal[i] < journal[j]
  /\ "http" \notin faults => \A i \in 1..Len(journal) : journal[i] = i - 1

\* The service's verdict and the caller's answer, as OrderSettlement has them.
Verdict ==
  CASE srv \in {"idle", "posted"} -> "none"
    [] srv = "queued"             -> "pending"
    [] srv = "refused"            -> "refused"
    [] srv = "done"               ->
         CASE log[Len(log)] = "Executed" -> "executed"
           [] log[Len(log)] = "Canceled" -> "canceled"
           [] OTHER                      -> "failed"

Answer ==
  CASE outcome = "none"      -> "waiting"
    [] outcome = "rejected"  -> "refused"
    [] outcome \in Unsettled -> "unknown"
    [] OTHER                 -> outcome

\* A receipt is returned, or a RelayError raised, only for what the service
\* decided: never for a retryable attempt, an unknown event, a dropped
\* connection or the timeout of one (_settle and the branches before it).
VerdictAgreement == outcome \in Definite => Answer = Verdict

Settlement == INSTANCE OrderSettlement WITH verdict <- Verdict, answer <- Answer

\* The client and the service together implement OrderSettlement.
ImplementsSettlement == Settlement!Spec

\* By the time the call answers for a settled order its hook has been called
\* with the terminal event, also when the call raises
\* (batched_market.py:109-112), and has recorded the whole log up to it, unless
\* one of its exceptions was taken for the connection's.
SettledJourneyComplete ==
  outcome \in {"executed", "canceled", "failed"} =>
    /\ log[Len(log)] \in Verdicts
    /\ due = Len(log)
    /\ "http" \notin faults => Len(journal) = Len(log)

\* A call that holds the order's terminal event does not report a timeout, for
\* a hook whose exceptions are not taken for the connection's.
TimeoutIsHonest ==
  "http" \notin faults /\ outcome = "timeout" =>
    \A i \in 1..Len(events) : events[i].seq # NoSeq => events[i].kind \notin Terminal

\* An exception of the hook aborts the local wait (batched_market.py:117).
HookExceptionAborts ==
  [][\A fault \in faults : StreamHookRaises(fault) => outcome' = "hook_error"]_vars

\* A call that is made returns, whatever the service does: the stream ends or
\* expires, and the polling has a deadline.
CallReturns == pc \notin {"idle", "returned"} ~> pc = "returned"
=============================================================================
