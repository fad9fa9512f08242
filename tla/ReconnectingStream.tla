------------------------- MODULE ReconnectingStream -------------------------
(***************************************************************************)
(* run() and stop() of the price and order streams (streams/prices.py,     *)
(* streams/orders.py): connect, give every message to the callback, and on *)
(* a failure back off and connect again, until stop() is noticed.          *)
(*                                                                         *)
(* The server, the connection and the caller are external.  A message is a *)
(* number in the order of publication; one that no connection carries is   *)
(* lost.                                                                   *)
(***************************************************************************)
EXTENDS Integers, Sequences

\* What the except clause of run() catches, whether the connection has a read
\* timeout, and whether one message can hold several updates.
Lazer == [catches |-> {"network", "status", "json"}, readTimeout |-> TRUE, batches |-> TRUE]
Hermes == [catches |-> {"network", "json", "shape", "callback"},
           readTimeout |-> FALSE, batches |-> FALSE]
Orders == [catches |-> {"network", "json", "shape", "callback"},
           readTimeout |-> FALSE, batches |-> FALSE]

Streams == [lazer |-> Lazer, hermes |-> Hermes, orders |-> Orders]

CONSTANTS
  Kinds,        \* the streams considered
  Overflow,     \* the first attempt whose 2**attempt is no float: 1024
  Feeds,        \* bound: updates in a message
  MaxMessages   \* bound: messages published

ASSUME StreamAssumption ==
  /\ Kinds \subseteq DOMAIN Streams
  /\ Overflow \in Nat
  /\ Feeds \in Nat \ {0}
  /\ MaxMessages \in Nat

VARIABLES
  kind,       \* which stream it is
  \* the server and the connection (external)
  up,         \* the server accepts connections
  published,
  conn,
  wire,       \* messages sent and not read
  \* the stream
  streamPc,
  stopped,    \* the stop event
  attempt,
  feeds,      \* updates of the message at hand still to be given
  given       \* messages given to the callback

serverVars == <<kind, up, published, conn, wire>>
streamVars == <<kind, up, published, conn, wire, streamPc, stopped, attempt, feeds, given>>

Stream == Streams[kind]

StreamTypeOK ==
  /\ kind \in Kinds
  /\ up \in BOOLEAN
  /\ published \in 0..MaxMessages
  /\ conn \in {"none", "open", "closed", "broken"}
  /\ wire \in Seq(1..MaxMessages)
  /\ streamPc \in {"test", "connecting", "reading", "callback", "backoff", "returned", "raised"}
  /\ stopped \in BOOLEAN
  /\ attempt \in 0..Overflow
  /\ feeds \in 0..Feeds
  /\ given \in Seq(1..MaxMessages)

StreamInit ==
  /\ kind \in Kinds
  /\ up \in BOOLEAN
  /\ published = 0
  /\ conn = "none"
  /\ wire = <<>>
  /\ streamPc = "test"
  /\ stopped = FALSE
  /\ attempt = 0
  /\ feeds = 0
  /\ given = <<>>

-----------------------------------------------------------------------------
(* The server, the connection and the caller *)

ServerTurns ==
  /\ up' = ~up
  /\ conn' = IF conn = "open" /\ up THEN "broken" ELSE conn
  /\ UNCHANGED <<kind, published, wire, streamPc, stopped, attempt, feeds, given>>

Publish ==
  /\ up
  /\ published < MaxMessages
  /\ published' = published + 1
  /\ wire' = IF conn = "open" THEN Append(wire, published') ELSE wire
  /\ UNCHANGED <<kind, up, conn, streamPc, stopped, attempt, feeds, given>>

\* The connection ends, with the protocol's farewell or without.
ConnectionEnds(how) ==
  /\ conn = "open"
  /\ conn' = how
  /\ UNCHANGED <<kind, up, published, wire, streamPc, stopped, attempt, feeds, given>>

Stop ==
  /\ ~stopped
  /\ stopped' = TRUE
  /\ UNCHANGED <<serverVars, streamPc, attempt, feeds, given>>

-----------------------------------------------------------------------------
(* run() *)

HangUp == conn' = "none" /\ wire' = <<>> /\ UNCHANGED <<kind, up, published>>

\* Mutant: the outer loop has no condition.
TestNothing ==
  /\ streamPc = "test"
  /\ streamPc' = "connecting"
  /\ UNCHANGED <<serverVars, stopped, attempt, feeds, given>>

Test ==
  /\ streamPc = "test"
  /\ streamPc' = IF stopped THEN "returned" ELSE "connecting"
  /\ UNCHANGED <<serverVars, stopped, attempt, feeds, given>>

Connect ==
  /\ streamPc = "connecting"
  /\ up
  /\ conn' = "open"
  /\ attempt' = 0
  /\ streamPc' = "reading"
  /\ UNCHANGED <<kind, up, published, wire, stopped, feeds, given>>

\* The except clause: an exception that is not caught ends run(), and so does
\* the backoff of an attempt that is too large.
Fault(cause) ==
  /\ streamPc' = CASE cause \notin Stream.catches -> "raised"
                   [] cause \in Stream.catches /\ stopped -> "returned"
                   [] cause \in Stream.catches /\ ~stopped ->
                        IF attempt = Overflow THEN "raised" ELSE "backoff"
  /\ HangUp
  /\ feeds' = 0
  /\ UNCHANGED <<stopped, attempt, given>>

\* No connection, or an answer that is an error.
ConnectFails ==
  /\ streamPc = "connecting"
  /\ ~up
  /\ \E cause \in {"network", "status"} \intersect Stream.catches : Fault(cause)

Take ==
  /\ streamPc = "reading"
  /\ wire # <<>>
  /\ ~stopped
  /\ streamPc' = "callback"
  /\ wire' = Tail(wire)
  /\ given' = Append(given, Head(wire))
  /\ feeds' \in IF Stream.batches THEN 1..Feeds ELSE {1}
  /\ UNCHANGED <<kind, up, published, conn, stopped, attempt>>

\* A message or a heartbeat comes in, and stop() was called.
ReadsStop ==
  /\ streamPc = "reading"
  /\ stopped
  /\ wire # <<>> \/ conn = "open"
  /\ streamPc' = "returned"
  /\ HangUp
  /\ UNCHANGED <<stopped, attempt, feeds, given>>

\* A message that is not JSON, or not of the expected shape.
Malformed ==
  /\ streamPc = "reading"
  /\ wire # <<>>
  /\ ~stopped
  /\ \E cause \in {"json", "shape"} : Fault(cause)

\* The callback is awaited; a message may hold more updates.
CallbackReturns ==
  /\ streamPc = "callback"
  /\ feeds' = feeds - 1
  /\ streamPc' = IF feeds' = 0 THEN "reading" ELSE "callback"
  /\ UNCHANGED <<serverVars, stopped, attempt, given>>

\* It raises an exception of its own, as the parsing of a later update does, or
\* one that run() takes for the network's.
CallbackRaises(cause) ==
  /\ streamPc = "callback"
  /\ Fault(cause)

\* The loop over the messages ends and the outer one goes on.
Closed ==
  /\ streamPc = "reading"
  /\ wire = <<>>
  /\ conn = "closed"
  /\ streamPc' = "test"
  /\ HangUp
  /\ UNCHANGED <<stopped, attempt, feeds, given>>

\* The connection breaks, or a silent one meets the read timeout.
Breaks ==
  /\ streamPc = "reading"
  /\ wire = <<>>
  /\ conn = "broken" \/ (conn = "open" /\ Stream.readTimeout)
  /\ Fault("network")

\* Mutant: the attempt that failed is made once more, and no other.
RetryOnce ==
  /\ streamPc = "backoff"
  /\ attempt = 0
  /\ attempt' = attempt + 1
  /\ streamPc' = "test"
  /\ UNCHANGED <<serverVars, stopped, feeds, given>>

Retry ==
  /\ streamPc = "backoff"
  /\ attempt' = attempt + 1
  /\ streamPc' = "test"
  /\ UNCHANGED <<serverVars, stopped, feeds, given>>

StreamFinished ==
  /\ streamPc \in {"returned", "raised"}
  /\ UNCHANGED streamVars

Client ==
  \/ Test
  \/ Connect
  \/ ConnectFails
  \/ Take
  \/ CallbackReturns
  \/ Closed
  \/ Breaks
  \/ Retry
  \/ ReadsStop /\ wire # <<>>

StreamNext ==
  \/ ServerTurns
  \/ Publish
  \/ \E how \in {"closed", "broken"} : ConnectionEnds(how)
  \/ Stop
  \/ Client
  \/ ReadsStop
  \/ Malformed
  \/ \E cause \in {"callback", "network"} : CallbackRaises(cause)
  \/ StreamFinished

StreamSpec == StreamInit /\ [][StreamNext]_streamVars

\* The event loop runs, callbacks return, sleeps and read timeouts end; nothing
\* is asked of the server.
FairSpec == StreamSpec /\ WF_streamVars(Client)

-----------------------------------------------------------------------------
(* Properties *)

\* A server that stays reachable is connected to, again and again.
Recovers ==
  <>[]up => []<>(streamPc \in {"reading", "callback", "returned", "raised"})

Ended == streamPc \in {"returned", "raised"}

\* After stop() the stream ends, if its connection has a read timeout or does not
\* stay open and silent for ever: run() looks at the event whenever it connects,
\* takes a message or fails, and at no point goes on without looking.
StopIsNoticed ==
  <>[]stopped /\ (Stream.readTimeout \/ []<>(wire # <<>> \/ conn # "open")) => <>[]Ended

\* "stream.stop() ends it" (prices-and-streams.mdx:23), said of all streams.  It
\* does not while a connection without a read timeout has nothing to say: the
\* event is looked at after a message only (orders.py:68).
StopEnds == <>[]stopped => <>[]Ended

\* "Both reconnect with exponential backoff" (prices.py:7): a stream that
\* catches every exception reconnects however long the server is away.
Reconnects == streamPc # "raised"
=============================================================================
