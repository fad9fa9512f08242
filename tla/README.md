# A verification of avantis_trader_sdk

TLA+ models of the Python SDK in `src/avantis_trader_sdk`, checked with TLC, and theorems about
them checked with TLAPS. The SDK signs trading operations and hands them to services it does not
control; what it must get right is what it sends, for whom, and what it tells its caller when
answers are lost, late, repeated or contradictory. The models cover every path by which an operation
leaves the client and comes back as a receipt or as an exception, the state the client shares between
tasks and threads, and the arithmetic a caller relies on before an order.

Paths below are relative to `src/avantis_trader_sdk`; the `.mdx` pages are under `src/docs/mintlify`.

## The system

| Component | State it keeps | Operations | Talks to |
| --- | --- | --- | --- |
| Trade API (`trading/api.py`, `base_api.py`) | lazily made local builder | market orders, limit orders, margin, RFQs, `update_tp_sl`, partial TP/SL orders, TWAPs | engine, tx-builder, core API, twap API, price feed |
| Account, LP and referral calls (`account/api.py`, `info/`) | none | approvals, delegation, vault, referral codes | engine, tx-builder |
| Execution engine (`execution/engine.py`) | cached chain id, router and encoder | `submit_intent_batch`, `submit_passthrough`, `submit_direct`, `submit_via_txbuilder_relay` | the four below, JSON-RPC, the signer |
| Batched-market client (`execution/batched_market.py`) | per call: events, tracking id, seen seq, deadline | `execute`, `wait`, `status`, `_settle`, the SSE reader, the caller's `on_event` hook | batched-market service: an SSE response and a status replay |
| Blitz relayer client (`execution/relayer.py`) | per call: attempt, request id, deadline | `create`, `status`, `wait` | relayer, through the transport |
| Tx-builder client (`txbuilder.py`) | none | calldata and intent builders, `relay_raw`, `relay_status` | tx-builder, through the transport |
| JSON-RPC client (`execution/rpc.py`) | request ids | `call` and its helpers, `wait_for_receipt` | a node |
| EIP-7702 account (`eip7702/account.py`) | authorization cache | nonces, `encode_call_data`, `authorization`, `build_type4` | the signer |
| HTTP transport (`transport.py`) | one HTTP client | `request` with its retries, `txb`, `json`, `stream` | every HTTP service |
| Local intents (`execution/local_intents.py`) | nonce pool | one builder per intent | - |
| Markets (`markets/`) | snapshot and its time | `snapshot`, `pair`, symbol resolution, market hours | data API |
| Streams (`streams/`) | stop event, attempt, queue of the iterator | `run`, `stop`, `__aiter__` | SSE and WebSocket servers, a callback |
| Client and facade (`client.py`) | metadata and its lock; the facade's loop and thread | `meta`, `aclose`; `_run`, `close` | all namespaces |
| Arithmetic (`compute/`) | none | fees, PnL, liquidation, liquidity, targets, validation | - |
| Account models, info queries, signers, configuration | none that changes | reads, signatures | core API, KMS |

Everything runs on one asyncio event loop: a step is what happens between two awaits, and between
them other tasks, the services and the network move. The synchronous facade adds threads that hand
their calls to that loop. Nothing is persisted by the SDK; a crash is survived only through what the
caller's hook has recorded.

What is hard, and what correctness means there:

* **Batched market.** One order's events arrive from two sources, a stream that can break anywhere
  and a replay. The hook must get each event once, in order; the call must answer with the service's
  verdict and nothing else; a timeout must be one; a resumption must go on where the caller stopped.
* **Relayer, tx-builder, direct route.** An answer is lost after the request was taken. No
  transaction twice; a receipt or a failure only for what happened to this transaction; a call that
  gives up must return.
* **Whose call.** A trader, the key of a delegate and the sender of a transaction are three accounts
  that the code derives in different places. What leaves the client must be what its key may send.
* **Global TP/SL.** A signed intent carries both legs, one of them copied from an API that lags. An
  update must not revert the leg it was not asked about; "visible" must mean what the chain ends with.
* **Stored orders.** The transport repeats POST, PUT and DELETE. An order must not be stored twice
  where the service can tell, and the id a caller keeps must be that of the order it signed.
* **Smart account.** Each call is signed over two nonces read or made before it is relayed, and the
  relayer includes calls in its own order, or never. An authorization that is skipped must be one
  that is not needed; an execution nonce must be new.
* **Snapshot and metadata.** Tasks share one copy while requests of several of them are under way and
  are answered in any order. What a caller gets must be no older than it may be, and the metadata are
  fetched once.
* **Facade.** `close()` stops the loop while calls of other threads are on it.
* **Streams.** Connections end, break, fall silent or are refused; `stop()` comes from another task,
  and a loop over a stream can be left anywhere. A stream must come back, must end when told to, and
  must leave no task behind.
* **Arithmetic.** Thresholds, tiers and caps whose ends must meet, on both sides of a market.

## Modules

| Module | What it is | Code |
| --- | --- | --- |
| `OrderSettlement` | what settling an order promises: the service decides once, the caller is told its verdict or that it is unknown | abstract |
| `BatchedMarket` | `execute` + `wait` + the service + the caller with its hook, crashes and resumptions | `execution/batched_market.py` |
| `TxSubmission` | what submitting a transaction promises: broadcast once at most, and a true answer | abstract |
| `BlitzRelay` | `submit_passthrough`: `create`, `wait`, transport retries | `execution/relayer.py`, `transport.py`, `execution/engine.py` |
| `RawRelay` | `submit_via_txbuilder_relay` | `execution/engine.py`, `txbuilder.py`, `transport.py` |
| `DirectSend` | `submit_direct` by several tasks over one key | `execution/engine.py`, `execution/rpc.py` |
| `ContractWrite` | the three routes of a contract write | `base_api.py`, `execution/engine.py` |
| `TradeCalls` | every executing method, from its arguments to the message that leaves | `trading/api.py`, `base_api.py`, `account/api.py`, `info/`, `types.py`, `signing/intents.py`, `execution/engine.py` |
| `GlobalTpSl` | `update_tp_sl` and its polling, with the operator and a lagging `/user-data` | `trading/api.py`, `transport.py` |
| `OrderBook` | what the calls on stored orders promise together: each order placed once, removed once | abstract |
| `StoredOrders` | partial TP/SL orders and TWAPs by several tasks, under retries and late requests | `trading/api.py`, `transport.py` |
| `SmartAccount` | the nonces of the calls of one key, the relayer's order and the chain | `execution/engine.py`, `eip7702/account.py` |
| `SnapshotCache` | `snapshot()` by several tasks | `markets/api.py` |
| `SyncFacade` | the threads, the loop, `close()` and the metadata lock, over `SnapshotCache` | `client.py` |
| `ReconnectingStream` | `run` and `stop` of the Lazer, Hermes and order streams | `streams/prices.py`, `streams/orders.py` |
| `StreamIterator` | `async for` loops over the Lazer stream, over `ReconnectingStream` | `streams/prices.py` |
| `PairCatalog` | symbol resolution, the Upside twin, market hours | `markets/models.py`, `markets/api.py` |
| `OrderRules` | maker and taker fees, room under the caps, stop-loss floor, `validate_order` | `compute/fees.py`, `compute/liquidity.py`, `compute/tpsl.py`, `compute/validation.py` |
| `TradeMath` | profit, targets, liquidation price, sizes, scaling | `compute/pnl.py`, `compute/tpsl.py`, `compute/liquidation.py`, `account/models.py`, `execution/local_intents.py` |
| `Calculations` | asks the three modules above every question over small ranges | - |
| `Trading` | one of `TradeCalls`, `Calculations` and `SmartAccount` at a time | - |
| `PriceTriggers` | one of `GlobalTpSl` and `StoredOrders` at a time | - |
| `EventLoop` | one of `SyncFacade` and `StreamIterator` at a time | - |
| `...Proofs` | theorems about the module it is named after; `AccountAndStreamProofs` about `SmartAccount` and `StreamIterator` | - |

How they compose: `TradeCalls` ends with a message on one of two kinds of route. A market order in
relayer mode goes on in `BatchedMarket`, everything else in `ContractWrite`, which takes one of
`BlitzRelay`, `RawRelay` and `DirectSend`; the transaction `BlitzRelay` relays is made as in
`SmartAccount`. `SyncFacade` runs the calls of its threads through `SnapshotCache`, and
`StreamIterator` runs a consumer beside `ReconnectingStream`.

`Trading`, `PriceTriggers` and `EventLoop` join components that have no state in common, so that one
configuration explores them all: a behaviour is of one of them, chosen in `Init`, and the others keep one
initial state. Nothing is claimed of the components together; their properties, and the theorems, are
about the component's own specification, and the fairness of a joined one is that of its parts.

`BatchedMarket` implements `OrderSettlement`, `StoredOrders` implements `OrderBook`, and
`BlitzRelay`, `RawRelay` and each task of `DirectSend` implement `TxSubmission`: an INSTANCE with a
refinement mapping, the abstract specification as a PROPERTY. Every module parameterises its bounds
as CONSTANTS and the `.cfg` gives them values directly. The definitions named "Mutant:" are plausible
wrong versions of the definition that follows them; nothing in a specification uses them.

A few variables are chosen in `Init` and never change: `faults` in `BatchedMarket` (what the hook
may raise), `caller` in `GlobalTpSl`, `inTurn` in `DirectSend`, `route` in `ContractWrite`, `config`
in `TradeCalls`, `venue` in `StoredOrders`, `setup` in `SmartAccount`, `kind` in
`ReconnectingStream`, and `part`, `held` and `serving` in the three modules that join others. They
let one run cover every configuration, and a property that needs one of them says so as a
hypothesis, in the formula.

### BatchedMarket

The service is `srv` with its persisted `log`; the connection is `stream` with the events on the
`wire`; the call is `pc`, `events` (the list both `execute` and `wait` collect), `cur` (the event
the hook has), `replay` (the rest of the last status response), `seen` and `left` (time to the
deadline, in poll intervals); the caller is `journal` (the seqs it recorded), `ticket` (it has the
tracking id) and `resumes`. `due` is a history variable, the seq the hook is due next, which no step
depends on. An event is a kind and a seq. The kind stands for `type`, `code` and what the code asks
of the message: an `Error` is `StreamTimeout`, `EnqueueFailed`, one with the code-less "timed out"
message, or any other, since these are the distinctions lines 229-249 and `_settle` make.

An event is handled in two steps, because the hook runs between them: `ReadEvent` gives the event
to the hook (`pc = "stream_hook"`), and one of `OnAccepted`, `OnProgress`, `OnStreamTimeout`,
`OnRejected`, `OnTerminal` is the branch of `execute` that follows when the hook returns, or
`StreamHookRaises` when it does not. `wait` is `PollReply`, `ReplayEvent`, `OnReplayed`, `Sleep`,
`PollExpires`, `PollFails`, `ReplayHookRaises`. `Crash` may happen anywhere in a call; `Resume` is a
caller that calls `wait(after_seq=last recorded seq)`, or with no seq when it recorded none.
A hook that returns has recorded its event (`Journaled`); one that raises may have done so before it
raised or not (`PerhapsJournaled`). Since a call takes an `httpx.HTTPError` of the hook for the
connection's and goes on with the next event, an event can then be missing from the journal for good;
`ExactlyOnceInOrder` and `SettledJourneyComplete` rule out a gap under every other exception, and a
repetition or a wrong order under all.

### BlitzRelay, RawRelay, DirectSend, ContractWrite

The environment keeps the truth (the fate of each relay or transaction) and the requests that the
client has given up on but that may still arrive (`late`). The client sees only answers. The
transport's loop is part of the calling action: `tries` counts it.

`TxSubmission` remembers whether the call `waits`: a receipt of a call that does is of a transaction
that landed. `RawRelay` does not keep that when its polling ends (`GivesUp` returns "unconfirmed"),
so that its refinement excepts this one step (`WaitRanOut`), and `raw_relay_pending` shows it.

In `DirectSend` a node holds one pending transaction per nonce. `ReadNonce`, `Prepare`, `Arrives`
and `Sent` are separate steps because the code awaits between them; any other task may move there.
With `inTurn` a call is made when those before it have returned, which is not to say that their
transactions are mined; without it `Together` of them are under way at once.

`ContractWrite` chooses a route and leaves the variables of the others alone; its properties are
those of the routes.

### TradeCalls

One call of one method. `config` is the client: the mode, the trader address it was given, the key
it signs with, whether it has an RPC. `trader`, `caller` and `delegate_param` are the code's three
notions of whose call it is. A call is `Calls` (up to its first await), `Resolved` or `Unresolved`
(the pair), `PriceRead` for a margin update, `LegBuilt` or `LegFails` for each encoding the
tx-builder makes (the two of a market order are asked for together and come back in any order) and
`Submits` or `SubmitFails`, with the guards of `sign_intent` and of the engine in `Refusal`, in the
order in which the code comes to them. The contract (`Revokes`, `Reopens`, `Closes`) moves between
any two. An intent keeps what the guards and the contract look at: its primary type, its account, the
position it is for, and whether its digest agrees.

### GlobalTpSl

`position` is the chain, `shown` is `/user-data` (`Publish` brings it up to date, at any time or
never), `accepted` and `fate` are the operator's. Levels are small naturals, 0 is "none"; executing a
take-profit of 0 stores `MaxGain`, as `PairStorage.correctTp` does. `caller` says how the calls are
made: *careful* waits, and calls again once the levels were visible; *in_turn* calls again once the
call has returned; *careless* calls at any time, with an operator that executes in any order.

### StoredOrders

The service is `origin` (the signed order behind each id it ever gave), `live` and the `wire` of
requests that the client gave up; `replacing` are the orders that were signed to replace another. A
call signs an order and makes one request; `Answered`, `Repeats`, `GivesUp` and `ErrorStatus` are
what comes of a try. `venue` is the service: whether it replaces orders, whether it refuses a nonce
it has seen and whether its answers name the new id. The code knows the first; the other two are not
in the code, and the properties say what hangs on them.

### SmartAccount

`_build_type4` is `AuthorizationNonce` (read at the RPC, 0 for a delegate, or a `ConfigError`), then
`Encode` (the execution nonce is the clock, and the gas estimate follows), then `Relay`; other tasks
move between them. The chain is `code` (the delegation), `nonce`, `used` and the number of `pending`
transactions that other wallets sent with the key; what the RPC answers is the "pending" count,
`nonce + pending` (`rpc.py:49`). `Include` does the authorization list before the call, as EIP-7702
does, and an authorization that is applied voids the pending transaction with its nonce. `built`
remembers the millisecond in which a call was signed, only to state the properties. `BlitzRelay`
says what happens between `Relay` and `Include`: taken once at most, and possibly never included.

### SnapshotCache, SyncFacade

A call captures `now` and tests the cache in one step, because nothing is awaited between; `Answer`
is the moment at which the data API makes its answer and `Store` the moment at which the task runs
again. Data is known by the time at which it was made.

In `SyncFacade` a thread submits a coroutine and waits; `queue` is what is scheduled on the loop and
`RunNext` runs its head up to the first await. `meta()` takes `holder` and `waiters`, the
asyncio lock with its line; `LockPasses` looks at `known` again, as the code does inside the lock.
`aclose` closes the transport, after which every request fails; `Join` schedules the stop and waits
five seconds at most (`JoinExpires`), and `Exit` ends the loop after the round in which it was told to.
A call on a client that is closed waits for ever, which is what the code does (see below):
`CallsReturn` says of whom it is not true, and `ThreadsRest` of `EventLoop` allows the threads to come to
a halt there only, so that a thread that waits while the loop runs would be reported as a deadlock.

### ReconnectingStream, StreamIterator

The three streams are one module: `Streams` says of each which exceptions its `except` clause
catches, whether its connection has a read timeout and whether one message holds several updates.
`conn` and `wire` are the connection, `feeds` the updates of the message at hand that are still to
be given. A `callback` step is one await of the callback, and `stop()` may come during it.

`StreamIterator` replaces the callback by `queue.put_nowait` (`Put`) and adds the loop: `Take1`,
`BodyEnds`, `Leave` (a break, an exception or a cancellation) and `CleanUp`, the `finally` clause. A
consumer that is used is one of two loops over the same stream; without one the streams run with a
callback, so that the run covers both.

### PairCatalog, OrderRules, TradeMath, Calculations

Each action of `Calculations` chooses the inputs of one question and stores the answer; each
property compares the answers with another account of what they should be: fees unit by unit, room
by trying the size and one more, targets by computing the profit at the price, resolution by looking
for the plain twin and by changing the order of the snapshot. The limits of an order are computed as
the code does, from the pair, its group, its depth and the fee tiers, each of which may be missing;
a size in asset is asked of pairs quoted in USD, of those with USD as base and at a price of zero.
Floats are integers or fractions: the models are about thresholds, signs and order, not about
rounding, except where the code works in integers itself (`size_in_asset`, `_scale`).

## Runs

| Run | Checks | States | Shows |
| --- | --- | --- | --- |
| `batched_market` | `ExactlyOnceInOrder`, `SettledJourneyComplete`, `TimeoutIsHonest`, `ImplementsSettlement`, `CallReturns` | 175 k | the order lifecycle with every failure of the model; no timeout is reported by a call that holds the terminal, unless the hook raises an `httpx.HTTPError` |
| `batched_market_hook` | `HookExceptionAborts`, **violated** | - | an `httpx.HTTPError` of the hook is taken for a dropped connection |
| `contract_write` | `RoutesTypeOK`, `BusyMeansUnsent`, `SendsDoNotCollide`, `ImplementsSubmission`, `OtherRoutesImplementSubmission`, `CallsReturn` | 249 k | by each route one broadcast at most, a true answer, a call that returns; two tasks that race for a nonce, and three calls in turn that do not collide |
| `raw_relay_pending` | `WaitedReceiptLanded`, **violated** | - | a call that waits gets the receipt of a transaction that is still pending |
| `trading` | `SenderMayAct`, `OrderFitsPair`, `BoundCloseHitsItsPosition`, `VerifiedMayTrade` of `TradeCalls` | 123 k | one call of every method by every kind of client, while the contract revokes the delegation and reopens the position |
| | `FeesFollowTheBook`, `HeadroomIsExact`, `StopsAreFeasible`, `NetRisesWithGross`, `TargetsAreReached`, `AmountsAreExact`, `PairsKeepTheirKind` of `Calculations` | 170 k | every question over small ranges |
| | `IncludedCallsRun`, `DelegatedCallsRun` of `SmartAccount` | 890 k | an included call takes effect, whichever authorizations are skipped |
| `unbound_close` | `CloseHitsItsPosition`, **violated** | - | a close with an `open_timestamp` takes the next position at its index |
| `stale_hours` | `HoursFollowTheSchedule`, **violated** | - | a market that closed and opened since its snapshot is taken for closed |
| `price_triggers` | `VisibleIsOnChain`, `CarefulKeepsLegs`, `CallsReturn` of `GlobalTpSl` | 248 k | a careful caller reverts nothing; a careless one at least gets every call back |
| | `CopiesBounded`, `HandleNamesItsOrder`, `ImplementsOrderBook` of `StoredOrders` | 81 k | orders stored, replaced and cancelled by two tasks, with repeated and late requests |
| `global_tp_sl_lost` | `UntouchedLegKept`, **violated** | - | a caller that does not wait loses a level |
| `event_loop` | `NoStaleData`, `ForcedIsFresh`, `MetaLock`, `CallsReturn` of `SyncFacade` | 129 k | threads over one loop, answers in any order, one fetch of the metadata, a `close()` under calls |
| | `IteratorTypeOK`, `NoTaskLeft`, `Recovers`, `StopIsNoticed`, `Served` of `StreamIterator` | 39 k | the three streams under every failure, and loops over the first that are left anywhere |
| `stream_outage` | `Reconnects`, **violated** | - | the backoff of attempt 1024 overflows |
| `stream_stop` | `StopEnds`, **violated** | - | on a silent connection `stop()` ends neither the Hermes nor the order stream |

The states of `trading`, `price_triggers` and `event_loop` are the sums of their lines.

The type invariant of every state machine is proved: those of `BlitzRelay`, `RawRelay` and `DirectSend`
are the conjuncts of `RoutesTypeOK`, those of `SnapshotCache` and `SyncFacade` of `MetaLock`, and
`IteratorTypeOK` has that of `ReconnectingStream`. The variables of `Calculations` are a question and
its answer; `OneQuestion` says which.

### Bounds

* `Deadline = 2`, `Polls = 1..3`: time counts poll intervals, so 2 has a first poll, one that comes
  after an event was seen, and the expiry; `left` can also fall by more than one, where the code's
  request takes time. 120 polls of the raw relay are 2: the loop's body does not depend on the count.
* `MaxNoise = 1`: one `AttemptFailed` or unknown event makes the log up to four events long, enough
  for a break before, between and after persisted events. `MaxResumes = 1`: a resumed call starts
  from the state any later one starts from, `journal` and `seen` alone. The theorems have no such
  bounds.
* `Attempts = 4`, `Retries = 2` in `ContractWrite`: the code's own numbers.
* `DirectSend`: `Together = 2` for the races; three tasks, so that in turn one has two predecessors
  pending.
* `TradeCalls`: `MaxOpened = 2`, a position and the one that takes its index.
* `GlobalTpSl`: two values per leg and `MaxGain`, so that a copy, a change and a reset differ; two
  calls, since the leg a call must keep can come from the first position, from the call before, or
  from one whose PUT was given up. A careless caller is there for `CallsReturn` and asks for one
  thing only (`CarelessAsks`): the levels do not decide whether a call returns.
* `StoredOrders`: two orders are needed for a replacement and three calls to place, replace and
  cancel; one repeat and one late request give an order that arrives after another has taken its
  place. `OrderRetries = 1` and `MaxLate = 1` are lifted by the theorems.
* `SmartAccount`: three calls, so that one can be included between the reading and the inclusion of
  another and a third still finds its authorization skipped; a clock of three milliseconds can give
  each its own, or two of them the same. `Outside = 1`, the transactions of other wallets, lets a
  foreign delegation replace Gelato's, and one be pending when a nonce is read.
* `SnapshotCache`, `SyncFacade`: two threads, because a stale store needs one request to overtake
  another and a line at the lock needs a holder; `TTL = 1` in a clock of three instants, so that data
  can be fresh, just expired and too old; three calls, so that one finds what two others left. Two
  calls of `close()` are among them, and `CallsReturn` is about the first.
* `ReconnectingStream`: `Overflow = 3` stands for 1024, the first attempt `n` at which `2.0 ** n` is
  no float; the steps do not depend on the number. Three messages, of two updates each at most: one
  given, one at hand when `stop()` comes, one left on the wire. Two loops: the second finds a stream
  that the first has stopped.
* `Calculations`: open interest up to 5 gives every relation of two sides and a trade that passes the
  balance by more than one unit; leverages to 1100 pass the last knot of the stop-loss curve; the caps
  and the pairs asked about are listed in the module, with a cap that binds for each limit; catalogs
  of four pairs hold a plain pair, its twin and two with other quotes in every order. Prices and
  leverages of 0.90 to 1.10 lie on both sides of one, where divisions lose most.

### What is assumed of the environment

* **503.** `BusyMeansUnsent`, and that one `create` makes one relay at most, need a 503 on
  `POST /relays` to come from the relayer itself (the comment at `relayer.py:56`: "all wallets busy").
  `GatewayErrors` holds 502 and 504; adding "503" makes a second POST, and a second relay, possible.
  The code cannot tell.
* **Receipts.** `ImplementsSubmission` needs the receipt of a finalised relay to have a status. With
  "bare" in `Receipts` a reverted one is reported as a success (`relayer.py:140-144`).
* **Order.** `CarefulKeepsLegs` needs an operator that executes intents in the order they were
  accepted, and a caller who waits and goes on only after levels that became visible. A zero
  take-profit that is "assumed" settled at the deadline is not visible in that sense.
* **Late sends.** `SendsDoNotCollide` needs calls made in turn and a send that failed at the client
  not to reach the node after the next call has read its nonce (`inTurn`); nothing in the client could
  prevent it.
* **Stored orders.** Ids are never used again. `ImplementsOrderBook` needs a service that refuses a
  nonce it has seen; a TWAP is registered on chain, where the nonce is spent, but of the
  partial-order service the code says nothing, and without it `CopiesBounded` allows `OrderRetries +
  1` copies of an order that replaces none. A replacement is stored once in any case, because its
  target is then gone. `HandleNamesItsOrder` needs answers that carry `newEntityId`.
* **The contract** takes an intent from its account or, if "sign" is granted, from the delegate; a
  wrapped call if "act" is granted; a close only for the position its intent names.
* **The tx-builder.** An answer of `relay_raw` that is no error has a transaction hash; the intent it
  builds on a path is of that path's kind.
* **The key.** `IncludedCallsRun` is about a key that was used nowhere else (`outside = 0`), and both
  it and `DelegatedCallsRun` allow a void call whose millisecond another call had (`SameMs`). A
  delegate is a fresh account, as the docstring of `_authorization_nonce` says.
* **Hooks.** `TimeoutIsHonest`, and that the journal has no gap, is about hooks that raise no
  `httpx.HTTPError` (`"http" \notin faults`); the finding below is why.
* **Snapshots.** No symbol is listed twice, and of a market's two next changes one is an opening and
  the other a close. `NetRisesWithGross` needs fees that do not rise from tier to tier, and fee and
  protection together of no more than the loss.

### Fairness

Liveness is checked under weak fairness of the client's own steps: the event loop runs, hooks
return, and every HTTP client is made with a timeout, so that a request that is not answered fails.
In `BatchedMarket` the stream's read timeout allows 15-second heartbeats for ever, so the end of an
open response is assumed of the service, which caps its lifetime (`WF_vars(StreamEnds)`). No
fairness is assumed of the services, the chain, the operator or `/user-data`: a call returns even if
nothing it waits for ever happens. In `DirectSend` the arrival of a send is among the fair steps of
its task: the request under way is answered or fails.

In `SyncFacade` the loop runs what is scheduled, each request is answered or fails, and a thread
whose future is done goes on. The expiry of the join is not fair: `close()` returns without it.

In `ReconnectingStream` the fair steps are the stream's own, a callback that returns and a read
timeout where there is one. The server may stay silent for ever and no message need come, so that
`ReadsStop` is fair only for a message that has arrived. `StopIsNoticed` says that a stopped stream
ends unless it waits for ever on a silent connection without a read timeout; that it ends in any case
is `StopEnds`, which `stream_stop` refutes. `Recovers` is about a server that stays up
from some time on. In `StreamIterator` the consumer's body ends, and a loop that is left is cleaned
up, at once or by the garbage collector.

## Findings

* `batched_market_hook` (`batched_market.py:251`): the hook is called inside the `try` that takes
  `httpx.HTTPError` for a broken stream; the documentation says its exceptions propagate.
* `raw_relay_pending` (`execution/engine.py:299`): with `wait=True` the tx-builder route returns the
  receipt of the POST for a transaction that is still pending after 120 polls, where the other routes
  raise; `concepts.mdx:46` says that the receipt confirms that the transaction landed.
* `unbound_close` (`trading/api.py:315`): `open_timestamp` goes into the intent alone. In direct mode,
  and when the service executes the calldata instead, the close takes what is open at the index;
  `market-orders.mdx:83` says that it binds the close to one open (`BoundCloseHitsItsPosition` is what
  holds, of the intent).
* `global_tp_sl_lost` (`trading/api.py:596`): a kept leg is copied from data older than an update
  accepted before; the documentation says that it is kept.
* `stream_outage` (`streams/prices.py:52`): the exponent is not capped before the power is taken, and
  the `OverflowError` is raised in the `except` clause, out of `run()`.
* `stream_stop` (`streams/orders.py:68`): `stop()` is noticed when the next message comes, and the
  WebSocket streams have no read timeout; `prices-and-streams.mdx:23` says that `stream.stop()` ends it.
* `stale_hours` (`markets/models.py:202`): once the market has opened again after the close that the
  snapshot names, `is_market_open` says closed until the snapshot is replaced, though it is said to use
  the schedule of the feed (line 194).

Seen while modelling, and allowed for in the properties rather than shown by a run of their own:

* `execution/engine.py:84-90`: `_chain_id` is set before the router address is read from the same
  answer. After one malformed answer the router is never asked for again, and `trading_router()` fails
  with an `AssertionError` for good.
* `account/api.py:127`: in relayer mode `verify_delegation` checks the permission to sign intents only;
  limit orders, margin updates and RFQs leave as wrapped calls and need the other. `delegates.mdx:54`
  says that it raises if the key cannot act; `VerifiedMayTrade` is what holds, of market orders.
* `streams/prices.py:76`: only an exception backs off. A server that accepts and closes in good order is
  connected to again without a pause, though the module promises exponential backoff (line 7);
  `Recovers` asks only that the stream goes on.
* `eip7702/account.py:67`: the execution nonce is the millisecond clock; the salt that would tell two
  calls of one millisecond apart is not passed, though the docstring promises a fresh nonce. One of
  the two calls is void (`SameMs`).
* `client.py:210`: a call, or a second `close()`, on a facade that is closed waits for ever, and so
  does a call that was under way in another thread (`CallsReturn` excepts them).
* `streams/prices.py:120`: the iterator waits on its queue alone. `stop()` leaves an `async for`
  loop waiting, and an exception that ended `run()` comes out only when the loop is left. The
  module's docstring also offers `async for` over both price streams, but `HermesPriceStream` has no
  `__aiter__`, and `PairDataStream.stop` is a coroutine.
* `trading/api.py:823`: a PUT that is repeated after it took effect is refused, and the caller is
  left with an error and the id of an order that is gone; an answer without `newEntityId` gives the
  old id back.
* `trading/api.py:834`: the docstring of `cancel_partial_tp_sl` allows an entry of `price_triggers`,
  but a `PriceTrigger` has no `.get`.
* `account/api.py:183`: `register_delegate` without a trader address takes the signer's own address for
  the trader.
* `compute/fees.py:52`: on a book with one side empty a trade that opens on the other, heavy side is
  charged as a maker's, and one that closes the book as a taker's (`FeeIsPerUnit` excepts both).
* `compute/pnl.py:20-41`: the two functions for the fee of a profit share disagree by one tier on the
  same schedule; only one is called.
* `compute/fees.py:13`: an empty `skew_eq_params` raises an `IndexError`.
* `compute/validation.py`: `validate_order` returns a list of warnings that nothing fills; the rule on
  who signs an intent (`signer_rule`) is enforced nowhere in the client.
* `markets/models.py`: `spread()` gives 0.0 when both quotes are missing, which its docstring rules
  out.
* `execution/rpc.py:34`: a body that is not JSON raises a `ValueError`, none of the classes of the
  error module. `DirectSend` has it as the answer "error".

## Proofs

`BatchedMarketProofs` proves, for every deadline, number of noise events, number of resumptions and
set of hook faults:

| Theorem | States |
| --- | --- |
| `TypeCorrect` | `Spec => []TypeOK` |
| `ExactlyOnceDelivery` | `Spec => []ExactlyOnceInOrder` |
| `AnswersAgree` | `Spec => []VerdictAgreement` |
| `JourneysComplete` | `Spec => []SettledJourneyComplete` |
| `Implementation` | `Spec => ImplementsSettlement` |
| `TimeoutsAreHonest` | `Spec => []TimeoutIsHonest` |

The only assumption is `ConstantsAssumption`, which TLC evaluates in every run, as it does the
assumptions of the other modules.

*The invariant.* None of the properties is inductive: that the hook gets event n next depends on
where n is. `IInv` says that what was journaled, what the hook is looking at and what is still to be
read, from the wire (`WireInv`) or from the last status response (`WaitInv`), are consecutive pieces
of the log; `Upcoming` is the seq of the first event not yet given to the call. While the response
is open the wire reaches to the end of the log, so that an event the service adds continues it; a
closed one may end with an `Error` without a seq, and `LogInv` and `Genuine` say which errors can be
there, which is what makes a rejection tell the truth. `EventsInv` says that the greatest seq among
the collected events is the one before `Upcoming`: the replay that starts there neither repeats nor
skips. `JournalInv` says that what the hook recorded is what it was given, in order, and all of it
if no exception of its is taken for the connection's. `FallBackSeq` derives the seed of the replay
from it, and `EventsAfterIs` what a poll from a seed returns.

*The steps.* There is one lemma per conjunct of `IInv` (`TypeStep`, `LogStep`, `WireStep`,
`StreamStep`, `HookStep`, `EventsStep`, `WaitStep`, `AnswerStep`, `JournalStep`, `SettlingStep`,
`VerdictStep`), each with a case per action that can disturb it; `IInvStep` puts them together.
`SettlementStep` maps every step to one of `OrderSettlement` or to a stutter. `HonestInv`
strengthens `TimeoutIsHonest`: without an `httpx.HTTPError` of the hook no call that has a terminal
with a seq in `events` ever polls.

`ContractWriteProofs`, for any number of attempts, repeats and polls, and any finite set of tasks:

| Theorem | States |
| --- | --- |
| `TypeCorrect` | `WriteSpec => []RoutesTypeOK` |
| `OneRelay` | `WriteSpec => []AtMostOneRelay`, given that a 503 is the relayer's own |
| `BusyIsUnsent` | `WriteSpec => []BusyMeansUnsent`, given the same |
| `RelayerImplements` | `WriteSpec => ImplementsSubmission`, given also that receipts have a status |
| `OthersImplement` | `WriteSpec => OtherRoutesImplementSubmission` |
| `NoCollision` | `WriteSpec => []SendsDoNotCollide` |

`RoutesAreIndependent` comes first: a behaviour of `WriteSpec` is one of each route's specification,
so that each route is proved about by itself and the theorems combine what was found.

*The relayer.* `PlaceInv` says where the transaction is: with the client before and between POSTs
(`Unsent`), with the relayer once a POST was accepted (`Taken`), and after that in one relay or one
late POST at most. That a busy relayer puts the call back to `Unsent` is what allows the next POST.
`CallInv` is the part that holds whatever the gateway answers, and is enough for the types.

*The tx-builder.* `RawInv` ties the steps of the call to the fate of its transaction: the call polls
only for one that was broadcast, and has an answer when it is over. The theorem is about every step but
`WaitRanOut`, of which it says that the transaction was broadcast.

*The direct route.* `CallsInv` says that a nonce has one pending transaction, and none below the
account's nonce, so that the node mines each nonce once, and that a send which may still arrive is
of a call that has returned, with a transaction the node does not have. From it every step of any
call is a step, or a stutter, of the `TxSubmission` of every task. `NoCollision` needs `InTurnInv`:
with calls made in turn one is under way, and the nonce it has read is nobody's. That the nonce is
nobody's when it is read is an argument of its own: `PendingCount` is the least number from the
account's nonce on at which nothing is pending, there is one because there are fewer pending
transactions than numbers to choose from (`SomeNonceIsFree`, by counting), and a set of naturals has
a least element (`LeastNatural`).

`AccountAndStreamProofs`, for every set of calls and every clock, and for any number of messages,
updates in a message, loops and any attempt at which the backoff overflows:

| Theorem | States |
| --- | --- |
| `TypeCorrect` | `AccountSpec => []AccountTypeOK`, of `SmartAccount` |
| `DelegatedCallsTakeEffect` | `AccountSpec => DelegatedCallsRun`, for any use of the key elsewhere |
| `CallsTakeEffect` | `AccountSpec => []IncludedCallsRun` |
| `StreamTypeCorrect` | `IteratorSpec => []IteratorTypeOK`, of `StreamIterator` |
| `NothingLeftBehind` | `IteratorSpec => []NoTaskLeft` |

Of the account there are two invariants: `ExecInv`, that the execution nonce of a call is the
millisecond in which it was built and that only calls which took effect have used theirs; and `KeyInv`,
that while the key is used nowhere else an authorization is over the account's nonce or the account
has the Gelato code. The second fails as soon as another wallet uses the key, the first does not.

Of the stream it is `LoopInv`. That no task is left when a loop is says nothing of the states in
between: `RunInv` adds that `run()` holds a connection only while it reads or its callback runs, that a
callback that runs has updates left and was given a message, and that a backoff is of an attempt whose
delay is a float.

`SyncFacadeProofs`, for any tasks, any number of calls, any ttl and clock:

| Theorem | States |
| --- | --- |
| `FacadeImplementsCache` | `FacadeSpec => Spec`, the specification of `SnapshotCache` |
| `NothingStale` | `FacadeSpec => []NoStaleData` |
| `ForcedFresh` | `FacadeSpec => []ForcedIsFresh` |
| `LockHolds` | `FacadeSpec => []MetaLock` |

Whatever the threads, the loop and `close()` do, the cache moves by its own steps
(`FacadeStepsCache`), so that what is proved of it holds behind the facade. There the stamp of a
snapshot is the time before its request, and the data are never older than their stamp (`StampInv`),
whichever answer was stored last. `LockHolds` needs to know where a waiting thread is. `FacadeInv`
says that it is in one place: its call is scheduled and has not begun (`QueueInv`), or asks the data
API (`ThreadInv`), or stands in the line for the lock or holds it (`LineInv`). Without `QueueInv` a
thread could begin a second call while its first is in the line, and be in it twice.

`TradeCallsProofs`, for any number of positions opened one after the other at an index:

| Theorem | States |
| --- | --- |
| `TypeCorrect` | `Spec => []TypeOK` |
| `SendersMayAct` | `Spec => []SenderMayAct` |
| `OrdersFitTheirPair` | `Spec => []OrderFitsPair` |
| `BoundClosesHit` | `Spec => []BoundCloseHitsItsPosition` |
| `VerifiedKeysMayTrade` | `Spec => []VerifiedMayTrade` |

What a message is follows from checks made before the awaits of the call, so the invariant carries
them along: `GuardInv` that a call made as oneself is past its guard only without a delegate,
`IntentInv` that an intent is of its method's kind, for its account and for the position the caller
named, and `SentInv` that nothing was sent before the call ends. Only the contract moves after that,
and a revocation takes `verified` with it.

`GlobalTpSlProofs`, for any number of calls, levels, retries and polls:

| Theorem | States |
| --- | --- |
| `TypeCorrect` | `Spec => []TypeOK` |
| `VisibleLevels` | `Spec => []VisibleIsOnChain` |
| `LegsKept` | `Spec => CarefulKeepsLegs` |

The invariant follows the one call of a careful caller that is under way. `TurnInv`: every call before
it ended with its levels visible, and the operator accepted them in that order. `ReadInv`: what it
reads is the chain's, and until its update is executed neither changes. `QueuedInv`: an update that is
still queued although its levels were visible changes nothing, which is the case that makes
`VisibleIsOnChain` more than a comparison: an update that asks for what is there already shows at once.
A take-profit on chain is never 0 (`LevelsInv`), so that a cleared one shows only by a change.

`StoredOrdersProofs`, for any number of tasks, calls, orders, retries and late requests:

| Theorem | States |
| --- | --- |
| `TypeCorrect` | `OrdersSpec => []OrdersTypeOK` |
| `HandlesNameTheirOrder` | `OrdersSpec => []HandleNamesItsOrder` |
| `CopiesAreBounded` | `OrdersSpec => []CopiesBounded` |
| `CallsAreOneBook` | `OrdersSpec => ImplementsOrderBook` |

`CopiesBounded` is proved by counting: `Load` of an order is its copies at the service and its
requests on the wire, and `LoadInv` that it is no more than the tries made so far; a request that
arrives moves one from the wire to the copies, and only a new try adds one. For a replacement counting
is not enough: `TargetsInv` says that its requests name one target, that this is no longer live once
the replacement is stored, and so that it has one id at most. `NoncesInv` is that a
service which checks nonces has one id per order, so that the refinement mapping, which looks at
orders and not at ids, sees every step of the service as one of the book.

`CalculationsProofs`, for open interest, leverages, amounts and clocks within any bounds:

| Theorem | States |
| --- | --- |
| `StopsFeasible` | `QuestionSpec => []StopsAreFeasible` |
| `RoomExact` | `QuestionSpec => []HeadroomIsExact` |
| `FeesRight` | `QuestionSpec => []FeesFollowTheBook` |
| `AmountsExact` | `QuestionSpec => []AmountsAreExact` |
| `TargetsReached` | `QuestionSpec => []TargetsAreReached` |
| `NetRises` | `QuestionSpec => []NetRisesWithGross` |
| `PairsKept` | `QuestionSpec => []PairsKeepTheirKind` |

A step asks one question (`OneQuestion`), so each theorem is a lemma about the operators. The targets,
tiers and catalogs asked about are those `Calculations` lists; their lemmas are about any.

* Fees: the units that move the book toward its balance are counted as an interval of the trade.
* Sizes: the bounds of three divisions are composed.
* Targets (`TargetsOf`): for any price, percentage, leverage, fee and collateral, the profit at a
  target's price is what the target asks for, as equations between fractions.
* Profits (`FeeFalls`, `UpsideNetRises`, `FixedNetRises`): with any tiers, and fees that do not rise from
  one to the next, more gross profit never leaves less net profit; with a fixed fee this needs that
  fee and protection together are no more than the loss (`feeP + protectionP <= 100`). With fees that
  rise it is false: a trader who passes into a dearer tier would lose by it.
* Pairs (`OwnSymbolNames`, `KindOf`, `TwinOf`): in any catalog of any length that lists no symbol twice,
  a listed symbol names its pair, a plain reference finds an Upside pair only when nothing else has
  its base, and the Upside twin of a pair leads back to it. When two pairs change their places a
  reference names the pair it named (`OrderOf`): each rule of the resolution is met by one pair at most,
  and the one for a base alone is used only then.

The caps of `RoomExact` and the orders of `StopsFeasible` are those the module lists.

Every safety property, action property and refinement that a passing run checks is proved. Only
model-checked is liveness: `CallReturns`, `CallsReturn` (of `GlobalTpSl`, `ContractWrite` and
`SyncFacade`), `Recovers`, `StopIsNoticed` and `Served`. They hold under fairness, and the prover has
neither ENABLED nor the rules for it. The least and the greatest elements the proofs choose are found
through the well-foundedness of the naturals, which needs no induction on a predicate; what a
recursive definition computes for every input would, and no such claim is made.

## Not modelled, and why

* **`PairDataStream`** (`streams/pairdata.py`): its connection and its reconnection are those of the
  socketio library; what is left is a handler that calls the callback.
* **Signers and configuration**: cryptography, environment variables and exception classes. The
  EIP-712, ABI and RLP encodings are data: of an intent the models keep what a guard or the contract
  looks at, and that its digest agrees or does not.
* **Queries** of `account/`, `info/`, `markets/` and `txbuilder.py` are single requests that keep no
  state, and the shaping of their answers.
* **The intent builders** of `execution/local_intents.py` put arguments into records; of them the
  scaling of amounts is modelled.
* **`pnl_type_fee`** (`compute/pnl.py:30-41`) and **`status_by_tx_hash`** (`execution/relayer.py:79-90`),
  which nothing calls, and the error codes in the envelope of `txb`.
* **Floating-point accuracy** of `compute/`, and the rates of the skew fee beyond the choice of a line.

The batched-market service, relayer, tx-builder, core API, twap API, operator, node, contracts and
chain are external: they are modelled from how the code uses them, with every answer the code has a
branch for, and the assumptions on them are those listed above.

Worth stating next: the measure that liveness rests on. In the calls of `ContractWrite` and
`GlobalTpSl` what is left to try and what is left to wait for, taken in this order, should fall with
every step of the client. That it does is an action property and within the prover's reach, though
that the client takes the step is not.
