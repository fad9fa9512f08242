----------------------------- MODULE OrderRules -----------------------------
(***************************************************************************)
(* The rules an order is held to before it is sent (compute/): what the    *)
(* open interest leaves room for, maker and taker fees, the stop loss of   *)
(* an Upside order, and validate_order that puts them together.            *)
(*                                                                         *)
(* Amounts are integers; percentages are in thousandths of a percent.      *)
(***************************************************************************)
EXTENDS TradeMath, FiniteSets, FiniteSetsExt

Least(a, b) == IF a <= b THEN a ELSE b
Most(a, b) == IF a >= b THEN a ELSE b

-----------------------------------------------------------------------------
(* Maker and taker: a fee is the part of the trade charged at each rate.   *)

AllTaker(size) == [kind |-> "taker", maker |-> 0, taker |-> size]
AllMaker(size) == [kind |-> "maker", maker |-> size, taker |-> 0]

\* Mutant: past the balance the whole trade pays the taker's rate.
CrossingAllTaker(heavy, light, size) == AllTaker(size)

\* The trade takes the book past the balance.
Crossing(heavy, light, size) ==
  [kind |-> "mixed", maker |-> heavy - light, taker |-> size - heavy + light]

\* maker_or_taker_fee_p, its ratios compared by cross multiplication.
maker_or_taker_fee_p(long, short, initialLong, initialShort, size) ==
  LET grows == long * (initialLong + initialShort) > initialLong * (long + short)
      falls == long * (initialLong + initialShort) < initialLong * (long + short)
  IN  IF \/ initialLong + initialShort = 0 \/ long + short = 0
         \/ initialLong = initialShort
         \/ IF initialLong > initialShort THEN grows ELSE falls
      THEN AllTaker(size)
      ELSE IF initialLong > initialShort
           THEN IF long >= short THEN AllMaker(size)
                ELSE Crossing(initialLong, initialShort, size)
           ELSE IF long <= short THEN AllMaker(size)
                ELSE Crossing(initialShort, initialLong, size)

pair_open_maker_taker_fee_p(long, short, size, isLong) ==
  maker_or_taker_fee_p(IF isLong THEN long + size ELSE long,
                       IF isLong THEN short ELSE short + size,
                       long, short, size)

pair_close_maker_taker_fee_p(long, short, size, isLong) ==
  maker_or_taker_fee_p(IF isLong THEN Most(long - size, 0) ELSE long,
                       IF isLong THEN short ELSE Most(short - size, 0),
                       long, short, size)

\* skew_adjusted_open_fee: the line of skew_eq_params, counted from 0, for the
\* share of the other side after the trade.
skew_line(long, short, size, isLong, lines) ==
  LET same == size + (IF isLong THEN long ELSE short)
      other == IF isLong THEN short ELSE long
      share == (100 * other) \div (IF same + other = 0 THEN 1 ELSE same + other)
  IN  Least(share \div 10, lines - 1)

-----------------------------------------------------------------------------
(* Room in the open interest *)

\* Mutant: the pair's own cap counts the side alone.
PairRoomOfSide(caps, book, isLong) ==
  Least(Most(caps.pair - (IF isLong THEN book.long ELSE book.short), 0),
        Most((caps.group * caps.groupP * (IF isLong THEN caps.longP ELSE caps.shortP))
               \div 10000 - (IF isLong THEN book.long ELSE book.short), 0))

\* The pair's cap on both sides together, and that of the side: a share of a
\* share of the group's.
PairRoom(caps, book, isLong) ==
  LET side == IF isLong THEN book.long ELSE book.short
      share == IF isLong THEN caps.longP ELSE caps.shortP
  IN  Least(Most(caps.pair - book.long - book.short, 0),
            Most((caps.group * caps.groupP * share) \div 10000 - side, 0))

\* What the pair's depth leaves: a side that is not in it has no limit.
DepthRoom(caps, isLong) ==
  {Most(caps.depth[way], 0) :
     way \in {IF isLong THEN "buy" ELSE "sell"} \intersect DOMAIN caps.depth}

\* available_liquidity, of one side.
available_liquidity(caps, book, isLong) ==
  Min({Most(caps.total - book.total, 0), Most(caps.group - book.group, 0),
       Most(caps.wallet - book.wallet, 0), PairRoom(caps, book, isLong)}
        \union DepthRoom(caps, isLong))

\* A pair whose group the snapshot does not list has none of its room.
max_position_size(caps, book, isLong) ==
  IF caps.grouped
  THEN available_liquidity(caps, book, isLong)
  ELSE available_liquidity([caps EXCEPT !.group = 0], [book EXCEPT !.group = 0], isLong)

-----------------------------------------------------------------------------
(* Stop loss of an Upside order *)

pnl_order_min_sl(leverage) ==
  IF leverage <= 10 THEN leverage * 150
  ELSE IF leverage <= 25 THEN (leverage - 10) * 150 + 1500
  ELSE IF leverage <= 50 THEN (leverage - 25) * 150 + 3750
  ELSE IF leverage <= 100 THEN (leverage - 50) * 75 + 7500
  ELSE IF leverage <= 250 THEN (leverage - 100) * 125 + 11250
  ELSE IF leverage <= 500 THEN (leverage - 250) * 60 + 30000
  ELSE IF leverage <= 1000 THEN (leverage - 500) * 18 + 45000
  ELSE 54000

-----------------------------------------------------------------------------
(* validate_order *)

NotGiven == -1

MIN_UPSIDE_SL_P == 5000
SL_BUFFER_SPREAD_P == 10
SPREAD_ERROR_THRESHOLD_P == 500
SPREAD_LOSS_THRESHOLD_P == 25100

MarketErrors(pair) ==
  {e \in {"delisted", "close_only", "closed"} :
     \/ e = "delisted" /\ ~pair.listed
     \/ e = "close_only" /\ pair.closeOnly
     \/ e = "closed" /\ ~pair.open}

SizeErrors(pair, order, caps, book) ==
  {e \in {"leverage", "below_minimum", "headroom", "trades"} :
     \/ e = "leverage" /\ order.leverage \notin
          (IF order.upside THEN pair.upsideLeverage ELSE pair.leverage)
     \/ e = "below_minimum" /\ order.collateral * order.leverage < pair.minimum
     \/ e = "headroom" /\ order.collateral * order.leverage > max_position_size(caps, book, order.isLong)
     \/ e = "trades" /\ pair.maxTrades # 0 /\ order.trades >= pair.maxTrades}

\* Mutant: a spread is judged by itself, whatever the leverage.
SpreadErrorsUnscaled(order) ==
  IF order.spread # NotGiven /\ order.spread > 2 * SPREAD_ERROR_THRESHOLD_P
  THEN {"spread"} ELSE {}

SpreadErrors(order) ==
  IF order.spread = NotGiven THEN {}
  ELSE IF order.spread > 2 * SPREAD_ERROR_THRESHOLD_P THEN {"spread"}
  ELSE IF order.spread * order.leverage >= SPREAD_LOSS_THRESHOLD_P THEN {"spread_loss"}
  ELSE {}

\* The stop losses that validate_order takes as wide enough.
MinStopLoss(order) ==
  LET limit == IF order.spread = NotGiven THEN 0
               ELSE (order.spread + SL_BUFFER_SPREAD_P) * order.leverage
  IN  IF order.upside
      THEN Max({limit, MIN_UPSIDE_SL_P, pnl_order_min_sl(order.leverage)})
      ELSE limit

StopLossErrors(pair, order) ==
  {e \in {"sl_max", "sl_min"} :
     /\ order.stopLoss # NotGiven
     /\ \/ e = "sl_max" /\ order.stopLoss > pair.maxStopLoss
        \/ e = "sl_min" /\ order.stopLoss < MinStopLoss(order)}

\* The highest gain of the pair; of an Upside order, what is left of it after
\* the profit share.
MaxTakeProfit(pair, order) ==
  IF order.upside /\ pair.tiers # <<>>
  THEN 10 * adjusted_max_gain_p(pair.maxGain, pair.tiers, pair.fees)
  ELSE 1000 * pair.maxGain

TakeProfitErrors(pair, order) ==
  IF order.takeProfit # NotGiven /\ order.takeProfit > MaxTakeProfit(pair, order)
  THEN {"take_profit"} ELSE {}

LimitErrors(order) ==
  IF /\ order.limit # NotGiven
     /\ order.market # NotGiven
     /\ IF order.isLong THEN order.limit >= order.market ELSE order.limit <= order.market
  THEN {"limit"} ELSE {}

validate_order(pair, order, caps, book) ==
  UNION {MarketErrors(pair), SizeErrors(pair, order, caps, book), LimitErrors(order),
         TakeProfitErrors(pair, order), StopLossErrors(pair, order), SpreadErrors(order)}
=============================================================================
