--------------------- MODULE AccountAndStreamProofs ---------------------
(***************************************************************************)
(* Theorems about the two components that share nothing with any other:    *)
(* SmartAccount, for every set of calls and every clock, and               *)
(* StreamIterator, for messages, updates and loops of any number.          *)
(***************************************************************************)
EXTENDS SmartAccount, StreamIterator, TLAPS

-----------------------------------------------------------------------------
(* The smart account *)

\* Only what was handed over is included.
FateInv == \A t \in Tasks : fate[t] # "unsent" => accountPc[t] = "relayed"

\* The execution nonce of a signed call is the millisecond of its signing.
NonceInv == \A t \in Tasks : accountPc[t] \in {"relay", "relayed"} => execNonce[t] = built[t]

\* An execution nonce was used by a call that took effect.
UsedInv == \A n \in used : \E t \in Tasks : fate[t] = "done" /\ execNonce[t] = n

\* A delegate's account has its first transaction, the delegation, before it.
FreshKeyInv == setup.delegate => code = "gelato" \/ nonce = 0

\* An authorization that is no longer good is no longer needed.
AuthInv ==
  \A t \in Tasks :
    accountPc[t] \in {"encode", "relay", "relayed"} => code = "gelato" \/ authNonce[t] = nonce

ExecInv == AccountTypeOK /\ FateInv /\ NonceInv /\ UsedInv
KeyInv == outside = 0 => FreshKeyInv /\ AuthInv

-----------------------------------------------------------------------------
LEMMA TypeInit == AccountInit => AccountTypeOK
  BY ConstantsAssumption DEF AccountInit, AccountTypeOK, ConstantsAssumption

LEMMA TypeStep == AccountTypeOK /\ [AccountNext]_accountVars => AccountTypeOK'
<1> SUFFICES ASSUME AccountTypeOK, [AccountNext]_accountVars PROVE AccountTypeOK'
  OBVIOUS
<1> USE ConstantsAssumption DEF AccountTypeOK, ConstantsAssumption, chainVars
<1>1. ASSUME NEW t \in Tasks, AuthorizationNonce(t) PROVE AccountTypeOK'
  BY <1>1 DEF AuthorizationNonce
<1>2. ASSUME NEW t \in Tasks, Encode(t) PROVE AccountTypeOK'
  BY <1>2 DEF Encode, FreshNonce
<1>3. ASSUME NEW t \in Tasks, Fail(t) PROVE AccountTypeOK'
  BY <1>3 DEF Fail
<1>4. ASSUME NEW t \in Tasks, Relay(t) PROVE AccountTypeOK'
  BY <1>4 DEF Relay
<1>5. ASSUME NEW t \in Tasks, Include(t) PROVE AccountTypeOK'
  <2>1. code' \in {"none", "foreign", "gelato"} /\ nonce' \in Nat
    BY <1>5 DEF Include
  <2>2. used' \subseteq 0..MaxClock
    BY <1>5 DEF Include
  <2>3. fate' \in [Tasks -> {"unsent", "done", "void"}] /\ pending' \in 0..outside'
    BY <1>5 DEF Include
  <2>4. QED
    BY <1>5, <2>1, <2>2, <2>3 DEF Include
<1>6. CASE Tick
  BY <1>6 DEF Tick
<1>7. CASE OutsideSends \/ OutsideMined \/ OutsideDropped
  <2>1. CASE OutsideSends
    BY <2>1 DEF OutsideSends
  <2>2. CASE OutsideMined
    <3>1. code' \in {"none", "foreign", "gelato"} /\ nonce' \in Nat /\ pending' \in 0..outside'
      BY <2>2 DEF OutsideMined
    <3>2. QED
      BY <2>2, <3>1 DEF OutsideMined
  <2>3. CASE OutsideDropped
    BY <2>3 DEF OutsideDropped
  <2>4. QED
    BY <1>7, <2>1, <2>2, <2>3
<1>8. CASE UNCHANGED accountVars
  BY <1>8 DEF accountVars
<1>9. QED
  BY <1>1, <1>2, <1>3, <1>4, <1>5, <1>6, <1>7, <1>8 DEF AccountNext, AllRelayed

\* The execution nonce of a call is fixed before it is handed over, and only an
\* inclusion uses it.
LEMMA ExecStep == ExecInv /\ [AccountNext]_accountVars => (FateInv /\ NonceInv /\ UsedInv)'
<1> SUFFICES ASSUME ExecInv, [AccountNext]_accountVars PROVE (FateInv /\ NonceInv /\ UsedInv)'
  OBVIOUS
<1> USE DEF ExecInv, FateInv, NonceInv, UsedInv, AccountTypeOK, chainVars
<1>1. ASSUME NEW t \in Tasks, AuthorizationNonce(t) PROVE (FateInv /\ NonceInv /\ UsedInv)'
  BY <1>1 DEF AuthorizationNonce
<1>2. ASSUME NEW t \in Tasks, Encode(t) PROVE (FateInv /\ NonceInv /\ UsedInv)'
  <2>1. /\ accountPc[t] = "encode" /\ accountPc' = [accountPc EXCEPT ![t] = "relay"]
        /\ execNonce' = [execNonce EXCEPT ![t] = clock]
        /\ built' = [built EXCEPT ![t] = clock]
        /\ UNCHANGED <<fate, used>>
    BY <1>2 DEF Encode, FreshNonce
  <2>2. fate[t] = "unsent"
    BY <2>1
  <2>3. FateInv' /\ NonceInv'
    BY <2>1, <2>2
  <2>4. UsedInv'
    BY <2>1, <2>2
  <2>5. QED
    BY <2>3, <2>4
<1>3. ASSUME NEW t \in Tasks, Fail(t) PROVE (FateInv /\ NonceInv /\ UsedInv)'
  BY <1>3 DEF Fail
<1>4. ASSUME NEW t \in Tasks, Relay(t) PROVE (FateInv /\ NonceInv /\ UsedInv)'
  BY <1>4 DEF Relay
<1>5. ASSUME NEW t \in Tasks, Include(t) PROVE (FateInv /\ NonceInv /\ UsedInv)'
  BY <1>5 DEF Include
<1>6. CASE Tick
  BY <1>6 DEF Tick
<1>7. CASE OutsideSends \/ OutsideMined \/ OutsideDropped
  <2>1. UNCHANGED <<accountPc, fate, used, execNonce, built>>
    BY <1>7 DEF OutsideSends, OutsideMined, OutsideDropped
  <2>2. QED
    BY <2>1
<1>8. CASE UNCHANGED accountVars
  BY <1>8 DEF accountVars
<1>9. QED
  BY <1>1, <1>2, <1>3, <1>4, <1>5, <1>6, <1>7, <1>8 DEF AccountNext, AllRelayed

\* A nonce that is used already is that of a call of the same millisecond.
LEMMA NonceUsed ==
  ASSUME ExecInv, NEW t \in Tasks, Include(t), execNonce[t] \in used
  PROVE  SameMs(t)
<1>1. PICK s \in Tasks : fate[s] = "done" /\ execNonce[s] = execNonce[t]
  BY DEF ExecInv, UsedInv
<1>2. fate[t] = "unsent" /\ accountPc[t] = "relayed"
  BY DEF Include
<1>3. s # t /\ accountPc[s] = "relayed"
  BY <1>1, <1>2 DEF ExecInv, FateInv
<1>4. built[s] = built[t]
  BY <1>1, <1>2, <1>3 DEF ExecInv, NonceInv
<1>5. QED
  BY <1>1, <1>3, <1>4 DEF SameMs

\* What has taken effect stays, and so does the millisecond of its signing.
LEMMA SameMsStays ==
  ASSUME ExecInv, [AccountNext]_accountVars, NEW t \in Tasks, accountPc[t] = "relayed", SameMs(t)
  PROVE  SameMs(t)'
<1>1. PICK s \in Tasks \ {t} : fate[s] = "done" /\ built[s] = built[t]
  BY DEF SameMs
<1>2. accountPc[s] = "relayed"
  BY <1>1 DEF ExecInv, FateInv
<1>3. fate'[s] = "done" /\ built'[s] = built[s] /\ built'[t] = built[t]
  BY <1>1, <1>2 DEF AccountNext, AuthorizationNonce, Encode, Fail, Relay, Include, Tick,
     OutsideSends, OutsideMined, OutsideDropped, AllRelayed, accountVars, ExecInv, AccountTypeOK
<1>4. QED
  BY <1>1, <1>3 DEF SameMs

\* Until the key is used elsewhere every step keeps the authorizations good or
\* redundant, and voids no call but one of another's millisecond.
LEMMA KeyStep ==
  ASSUME ExecInv, KeyInv, IncludedCallsRun, [AccountNext]_accountVars
  PROVE  KeyInv' /\ IncludedCallsRun'
<1> SUFFICES ASSUME outside' = 0
             PROVE  /\ FreshKeyInv' /\ AuthInv'
                    /\ \A t \in Tasks : fate'[t] = "void" => SameMs(t)'
  BY DEF KeyInv, IncludedCallsRun
<1>a. ~OutsideSends /\ ~OutsideMined /\ ~OutsideDropped
  BY DEF OutsideSends, OutsideMined, OutsideDropped, ExecInv, AccountTypeOK
<1>b. outside = 0 /\ FreshKeyInv /\ AuthInv
  BY <1>a DEF AccountNext, AuthorizationNonce, Encode, Fail, Relay, Include, Tick, AllRelayed, accountVars,
     chainVars, KeyInv
<1>1. FreshKeyInv' /\ AuthInv'
  <2> USE <1>b DEF FreshKeyInv, AuthInv, ExecInv, AccountTypeOK, chainVars
  <2>1. ASSUME NEW t \in Tasks, AuthorizationNonce(t) PROVE FreshKeyInv' /\ AuthInv'
    BY <2>1 DEF AuthorizationNonce
  <2>2. ASSUME NEW t \in Tasks, Encode(t) \/ Fail(t) \/ Relay(t) PROVE FreshKeyInv' /\ AuthInv'
    BY <2>2 DEF Encode, Fail, Relay
  <2>3. ASSUME NEW t \in Tasks, Include(t) PROVE FreshKeyInv' /\ AuthInv'
    BY <2>3 DEF Include
  <2>4. CASE Tick \/ UNCHANGED accountVars
    BY <2>4 DEF Tick, accountVars
  <2>5. QED
    BY <1>a, <2>1, <2>2, <2>3, <2>4 DEF AccountNext, AllRelayed
<1>2. ASSUME NEW t \in Tasks, fate'[t] = "void" PROVE SameMs(t)'
  <2>1. CASE fate[t] = "void"
    <3>1. accountPc[t] = "relayed" /\ SameMs(t)
      BY <1>b, <2>1 DEF ExecInv, FateInv, IncludedCallsRun
    <3>2. QED
      BY <3>1, SameMsStays
  <2>2. CASE fate[t] # "void"
    <3>1. Include(t)
      BY <1>2, <2>2 DEF AccountNext, AuthorizationNonce, Encode, Fail, Relay, Include, Tick,
         OutsideSends, OutsideMined, OutsideDropped, AllRelayed, accountVars, ExecInv, AccountTypeOK
    <3>2. accountPc[t] = "relayed" /\ (code = "gelato" \/ authNonce[t] = nonce)
      BY <1>b, <3>1 DEF Include, AuthInv
    <3>3. execNonce[t] \in used
      BY <1>2, <3>1, <3>2 DEF Include, ExecInv, AccountTypeOK
    <3>4. QED
      BY <3>1, <3>2, <3>3, NonceUsed, SameMsStays
  <2>3. QED
    BY <2>1, <2>2
<1>3. QED
  BY <1>1, <1>2

LEMMA ExecInit == AccountInit => ExecInv
  BY TypeInit DEF AccountInit, ExecInv, FateInv, NonceInv, UsedInv

LEMMA KeyInit == AccountInit => KeyInv /\ IncludedCallsRun
  BY DEF AccountInit, KeyInv, FreshKeyInv, AuthInv, IncludedCallsRun

-----------------------------------------------------------------------------
\* The state of the client and of the account is well-formed.
THEOREM TypeCorrect == AccountSpec => []AccountTypeOK
<1>1. AccountInit => AccountTypeOK
  BY TypeInit
<1>2. AccountTypeOK /\ [AccountNext]_accountVars => AccountTypeOK'
  BY TypeStep
<1>3. QED
  BY <1>1, <1>2, PTL DEF AccountSpec

\* Only calls that took effect have used an execution nonce, each its own.
LEMMA ExecCorrect == AccountSpec => []ExecInv
<1>1. AccountInit => ExecInv
  BY ExecInit
<1>2. ExecInv /\ [AccountNext]_accountVars => ExecInv'
  BY ExecStep, TypeStep DEF ExecInv
<1>3. QED
  BY <1>1, <1>2, PTL DEF AccountSpec

\* Once the key is delegated every included call takes effect (engine.py:112),
\* however often and by whomever the key is used elsewhere, unless another call
\* was built in the same millisecond.
THEOREM DelegatedCallsTakeEffect == AccountSpec => DelegatedCallsRun
<1>1. ExecInv /\ [AccountNext]_accountVars =>
        [\A t \in Tasks : Include(t) /\ code = "gelato" => fate'[t] = "done" \/ SameMs(t)]_accountVars
  <2> SUFFICES ASSUME ExecInv, [AccountNext]_accountVars, NEW t \in Tasks, Include(t), code = "gelato"
               PROVE  fate'[t] = "done" \/ SameMs(t)
    OBVIOUS
  <2>1. CASE execNonce[t] \in used
    BY <2>1, NonceUsed
  <2>2. CASE execNonce[t] \notin used
    BY <2>2 DEF Include, ExecInv, AccountTypeOK
  <2>3. QED
    BY <2>1, <2>2
<1>2. QED
  BY <1>1, ExecCorrect, PTL DEF AccountSpec, DelegatedCallsRun

\* Of a key that is used nowhere else every included call takes effect,
\* whatever the order of inclusion and whichever authorizations are skipped,
\* unless another call was built in the same millisecond.
THEOREM CallsTakeEffect == AccountSpec => []IncludedCallsRun
<1>1. AccountInit => KeyInv /\ IncludedCallsRun
  BY KeyInit
<1>2. ExecInv /\ (KeyInv /\ IncludedCallsRun) /\ [AccountNext]_accountVars => (KeyInv /\ IncludedCallsRun)'
  BY KeyStep
<1>3. QED
  BY <1>1, <1>2, ExecCorrect, PTL DEF AccountSpec

-----------------------------------------------------------------------------
(* The stream and the loop over it *)

\* run() holds a connection only while it reads or its callback runs; the
\* callback runs for a message that was given, with updates left; and the
\* backoff is of an attempt whose delay is a float.
RunInv ==
  /\ streamPc \notin {"reading", "callback"} => conn = "none"
  /\ streamPc = "callback" => feeds > 0 /\ given # <<>>
  /\ streamPc = "backoff" => attempt < Overflow

LoopInv == IteratorTypeOK /\ RunInv /\ NoTaskLeft

LEMMA AppendStays ==
  ASSUME NEW S, NEW s \in Seq(S), NEW x \in S
  PROVE  Append(s, x) \in Seq(S)
OBVIOUS

\* A fault ends the task or the connection, and leaves the loop alone.
LEMMA FaultEnds ==
  ASSUME LoopInv, NEW cause, Fault(cause),
         streamPc \in {"connecting", "reading", "callback"},
         UNCHANGED <<consumer, buffer, taken, loops>>
  PROVE  LoopInv'
<1>1. /\ streamPc' \in {"raised", "returned", "backoff"}
      /\ streamPc' = "backoff" => attempt # Overflow
  BY DEF Fault
<1>2. /\ conn' = "none" /\ wire' = <<>> /\ UNCHANGED <<kind, up, published>>
      /\ feeds' = 0 /\ UNCHANGED <<stopped, attempt, given>>
  BY DEF Fault, HangUp
<1>3. consumer' \notin {"ended", "failed"}
  BY DEF LoopInv, NoTaskLeft
<1>4. RunInv' /\ NoTaskLeft'
  BY <1>1, <1>2, <1>3, StreamAssumption, LoopsAssumption
     DEF LoopInv, RunInv, NoTaskLeft, IteratorTypeOK, StreamTypeOK,
         StreamAssumption, LoopsAssumption
<1>5. IteratorTypeOK'
  BY <1>1, <1>2, StreamAssumption, LoopsAssumption
     DEF LoopInv, IteratorTypeOK, StreamTypeOK, StreamAssumption, LoopsAssumption
<1> QED
  BY <1>4, <1>5 DEF LoopInv

\* The steps of the stream that leave the loop alone.
LEMMA StreamStep ==
  ASSUME LoopInv, Stream1
  PROVE  LoopInv'
<1> USE StreamAssumption, LoopsAssumption
    DEF LoopInv, RunInv, NoTaskLeft, IteratorTypeOK, StreamTypeOK,
        iteratorVars, serverVars, StreamAssumption, LoopsAssumption
<1>1. UNCHANGED <<consumer, buffer, taken, loops>>
  BY DEF Stream1
<1>2. CASE Test
  BY <1>1, <1>2 DEF Test
<1>3. CASE Connect
  BY <1>1, <1>3 DEF Connect
<1>4. CASE ConnectFails
  <2>1. PICK cause : Fault(cause)
    BY <1>4 DEF ConnectFails
  <2>2. streamPc = "connecting"
    BY <1>4 DEF ConnectFails
  <2> QED
    BY <1>1, <2>1, <2>2, FaultEnds
<1>5. CASE Take
  <2>1. /\ streamPc = "reading" /\ wire # <<>> /\ streamPc' = "callback"
        /\ wire' = Tail(wire) /\ given' = Append(given, Head(wire))
        /\ UNCHANGED <<kind, up, published, conn, stopped, attempt>>
    BY <1>5 DEF Take
  <2>2. feeds' \in 1..Feeds
    <3>1. CASE Stream.batches
      BY <1>5, <3>1 DEF Take
    <3>2. CASE ~Stream.batches
      BY <1>5, <3>2 DEF Take
    <3> QED
      BY <3>1, <3>2
  <2>3. /\ wire' \in Seq(1..MaxMessages) /\ given' \in Seq(1..MaxMessages)
        /\ given' # <<>>
    BY <2>1
  <2> QED
    BY <1>1, <2>1, <2>2, <2>3
<1>6. CASE Closed
  BY <1>1, <1>6 DEF Closed, HangUp
<1>7. CASE Breaks
  BY <1>1, <1>7, FaultEnds DEF Breaks
<1>8. CASE Retry
  BY <1>1, <1>8 DEF Retry
<1>9. CASE ReadsStop
  BY <1>1, <1>9 DEF ReadsStop, HangUp
<1> QED
  BY <1>2, <1>3, <1>4, <1>5, <1>6, <1>7, <1>8, <1>9 DEF Stream1

\* The server, the caller, and messages that are not understood.
LEMMA OthersStep ==
  ASSUME LoopInv, Others
  PROVE  LoopInv'
<1> USE StreamAssumption, LoopsAssumption
    DEF LoopInv, RunInv, NoTaskLeft, IteratorTypeOK, StreamTypeOK,
        iteratorVars, serverVars, StreamAssumption, LoopsAssumption
<1>1. UNCHANGED <<consumer, buffer, taken, loops>>
  BY DEF Others
<1>2. CASE ServerTurns
  BY <1>1, <1>2 DEF ServerTurns
<1>3. CASE Publish
  <2>1. /\ published' \in 1..MaxMessages
        /\ UNCHANGED <<kind, up, conn, streamPc, stopped, attempt, feeds, given>>
    BY <1>3 DEF Publish
  <2>2. wire' = IF conn = "open" THEN Append(wire, published') ELSE wire
    BY <1>3 DEF Publish
  <2>3. wire' \in Seq(1..MaxMessages)
    BY <2>1, <2>2, AppendStays
  <2> QED
    BY <1>1, <2>1, <2>3
<1>4. ASSUME NEW how \in {"closed", "broken"}, ConnectionEnds(how)
      PROVE  LoopInv'
  BY <1>1, <1>4 DEF ConnectionEnds
<1>5. CASE Stop
  BY <1>1, <1>5 DEF Stop
<1>6. CASE ReadsStop
  BY <1>1, <1>6 DEF ReadsStop, HangUp
<1>7. CASE Malformed
  BY <1>1, <1>7, FaultEnds DEF Malformed
<1>8. CASE StreamFinished
  BY <1>1, <1>8 DEF StreamFinished, streamVars
<1> QED
  BY <1>2, <1>3, <1>4, <1>5, <1>6, <1>7, <1>8 DEF Others

\* The callback, which for a loop is put_nowait.
LEMMA PutStep ==
  ASSUME LoopInv,
         Put \/ \E cause \in {"callback", "network"} : Raises(cause)
  PROVE  LoopInv'
<1> USE StreamAssumption, LoopsAssumption
    DEF LoopInv, RunInv, NoTaskLeft, IteratorTypeOK, StreamTypeOK,
        iteratorVars, serverVars, StreamAssumption, LoopsAssumption
<1>1. CASE Put
  <2>1. /\ streamPc = "callback" /\ feeds' = feeds - 1
        /\ streamPc' = IF feeds' = 0 THEN "reading" ELSE "callback"
        /\ UNCHANGED <<kind, up, published, conn, wire, stopped, attempt, given>>
        /\ UNCHANGED <<consumer, taken, loops>>
    BY <1>1 DEF Put, CallbackReturns
  <2>2. feeds' \in 0..Feeds /\ given[Len(given)] \in 1..MaxMessages
    BY <2>1
  <2>3. buffer' \in Seq(1..MaxMessages)
    BY <1>1, <2>2, AppendStays DEF Put, Iterated
  <2> QED
    BY <2>1, <2>2, <2>3
<1>2. ASSUME NEW cause \in {"callback", "network"}, Raises(cause)
      PROVE  LoopInv'
  BY <1>2, FaultEnds DEF Raises, CallbackRaises
<1> QED
  BY <1>1, <1>2

\* The loop: it takes an update, is left, is cleaned up, and may begin again.
LEMMA ConsumerStep ==
  ASSUME LoopInv,
         Consumes \/ Leave \/ LoopAgain
  PROVE  LoopInv'
<1> USE StreamAssumption, LoopsAssumption
    DEF LoopInv, RunInv, NoTaskLeft, IteratorTypeOK, StreamTypeOK,
        streamVars, serverVars, StreamAssumption, LoopsAssumption
<1>1. CASE Take1
  <2>1. buffer' \in Seq(1..MaxMessages) /\ taken' \in Seq(1..MaxMessages)
    BY <1>1 DEF Take1
  <2> QED
    BY <1>1, <2>1 DEF Take1
<1>2. CASE BodyEnds
  BY <1>2 DEF BodyEnds
<1>3. CASE CleanUp
  BY <1>3 DEF CleanUp, HangUp
<1>4. CASE Leave
  BY <1>4 DEF Leave
<1>5. CASE LoopAgain
  BY <1>5 DEF LoopAgain
<1> QED
  BY <1>1, <1>2, <1>3, <1>4, <1>5 DEF Consumes

LEMMA LoopCorrect == IteratorSpec => []LoopInv
<1>1. IteratorInit => LoopInv
  <2> SUFFICES ASSUME IteratorInit PROVE LoopInv
    OBVIOUS
  <2>1. StreamTypeOK
    <3>1. /\ kind \in Kinds /\ up \in BOOLEAN /\ published = 0 /\ conn = "none"
          /\ wire = <<>> /\ streamPc = "test" /\ stopped = FALSE /\ attempt = 0
          /\ feeds = 0 /\ given = <<>>
      BY Zenon DEF IteratorInit, StreamInit
    <3>2. stopped \in BOOLEAN
      BY <3>1, Zenon
    <3>3. wire \in Seq(1..MaxMessages) /\ given \in Seq(1..MaxMessages)
      BY <3>1
    <3>4. published \in 0..MaxMessages /\ attempt \in 0..Overflow /\ feeds \in 0..Feeds
      BY <3>1, StreamAssumption, LoopsAssumption DEF StreamAssumption, LoopsAssumption
    <3> QED
      BY <3>1, <3>2, <3>3, <3>4 DEF StreamTypeOK
  <2>2. /\ consumer \in {"none", "waiting"} /\ loops \in {0, 1}
        /\ buffer = <<>> /\ taken = <<>> /\ conn = "none" /\ streamPc = "test"
    BY DEF IteratorInit, StreamInit
  <2>3. IteratorTypeOK
    BY <2>1, <2>2, StreamAssumption, LoopsAssumption DEF IteratorTypeOK, StreamAssumption, LoopsAssumption
  <2> QED
    BY <2>2, <2>3 DEF LoopInv, RunInv, NoTaskLeft
<1>2. LoopInv /\ [IteratorNext]_iteratedVars => LoopInv'
  <2> SUFFICES ASSUME LoopInv, [IteratorNext]_iteratedVars
               PROVE  LoopInv'
    OBVIOUS
  <2>1. CASE UNCHANGED iteratedVars
    BY <2>1 DEF iteratedVars, streamVars, iteratorVars, LoopInv, RunInv,
       NoTaskLeft, IteratorTypeOK, StreamTypeOK
  <2>2. CASE IteratorNext
    BY <2>2, StreamStep, OthersStep, PutStep, ConsumerStep DEF IteratorNext
  <2> QED
    BY <2>1, <2>2
<1> QED
  BY <1>1, <1>2, PTL DEF IteratorSpec

\* The state of a stream and of the loop over it is well-formed, for messages,
\* updates and loops of any number (streams/prices.py, streams/orders.py).
THEOREM StreamTypeCorrect == IteratorSpec => []IteratorTypeOK
<1>1. LoopInv => IteratorTypeOK
  BY DEF LoopInv
<1> QED
  BY <1>1, LoopCorrect, PTL

\* A loop that is over, at whatever point it was left and whatever the stream
\* was doing then, has left no task of run() and no connection behind
\* (LazerPriceStream.__aiter__).
THEOREM NothingLeftBehind == IteratorSpec => []NoTaskLeft
<1>1. LoopInv => NoTaskLeft
  BY DEF LoopInv
<1> QED
  BY <1>1, LoopCorrect, PTL
=============================================================================
