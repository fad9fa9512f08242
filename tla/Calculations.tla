---------------------------- MODULE Calculations ----------------------------
(***************************************************************************)
(* The questions a client asks of the SDK before it trades, answered       *)
(* without the network: each action chooses the inputs of one question and *)
(* stores the answer, and each property compares the answers with what     *)
(* they are meant to be, worked out in another way.                        *)
(***************************************************************************)
EXTENDS PairCatalog, OrderRules

CONSTANTS
  MaxOI,         \* bound on the open interest of a side
  MaxLeverage,   \* bound on the leverage, beyond the last knot of the curve
  MaxPairs,      \* pairs of a catalog
  MaxCollateral, \* bound on the collateral of a sized position
  MinFactor,     \* bounds on its leverage and price, in hundredths:
  MaxFactor,     \*   on both sides of one
  MaxMantissa,   \* bound on the amounts that are scaled, on either side of zero
  MaxHour        \* bound on the clock

ASSUME CalculationsAssumption ==
  /\ {MaxOI, MaxLeverage, MaxPairs, MaxCollateral, MaxFactor, MaxMantissa, MaxHour}
       \subseteq Nat
  /\ MinFactor \in Nat \ {0}

VARIABLES asked, answer

questionVars == <<asked, answer>>

QuestionInit == asked = [about |-> "nothing"] /\ answer = 0

Idle == asked.about = "nothing"

Asks(question, result) ==
  /\ asked' = question
  /\ answer' = result

-----------------------------------------------------------------------------
(* Inputs *)

OI == 0..MaxOI
Collaterals == 1..MaxCollateral
Factors == MinFactor..MaxFactor
Mantissas == -MaxMantissa..MaxMantissa
Hours == 1..MaxHour

Caps == [total : {4, 9}, group : {8}, wallet : {2, 9}, groupP : {50, 100},
         longP : {60}, shortP : {100}, pair : {5, 9}, grouped : BOOLEAN,
         depth : {[buy |-> 3, sell |-> 9], [sell |-> 2]}]

Books == {b \in [long : 0..4, short : 0..4, group : {5, 7}, total : {7, 8}, wallet : {0, 1}] :
            b.long + b.short <= b.group + 1}

Leverages == {1, 2, 10, 11, 25, 50, 75, 100, 101, 250, 500, 1000}

\* Schedules of the profit share: thresholds and fees, in percent.
Tiers == <<2, 5, 25>>
Fees == {<<80, 50, 45>>, <<60, 60, 10>>, <<50, 20>>, <<>>}

AskedPair(market, shares) ==
  [listed |-> market # "delisted", closeOnly |-> market = "close_only",
   open |-> market # "closed", leverage |-> 1..100, upsideLeverage |-> 10..1000,
   minimum |-> 100, maxTrades |-> 3, maxGain |-> 500,
   maxStopLoss |-> IF shares THEN 80000 ELSE 54000,
   tiers |-> IF shares THEN Tiers ELSE <<>>,
   fees |-> IF shares THEN <<80, 50, 45>> ELSE <<>>]

AskedPairs ==
  {AskedPair(market, shares) :
     market \in {"trading", "delisted", "close_only", "closed"}, shares \in BOOLEAN}

OrderCaps ==
  [total : {60000}, group : {55000}, wallet : {1000, 50000}, groupP : {100}, longP : {90},
   shortP : {100}, pair : {52000}, grouped : BOOLEAN, depth : {[buy |-> 45000]}]

OrderBooks == [long : {10}, short : {20}, group : {30}, total : {40}, wallet : {0}]

Orders ==
  [upside : BOOLEAN, isLong : BOOLEAN, leverage : Leverages, collateral : {20},
   trades : {0, 3}, spread : {NotGiven, 0, 50, 250, 1000, 1001},
   limit : {NotGiven, 9}, market : {10}, takeProfit : {NotGiven, 300000},
   stopLoss : {NotGiven}]

Names == {"BTC", "USD", "JPY"}
Symbols == {Plain(name) : name \in Names} \union {Upside(name) : name \in {"BTC", "JPY"}}

Listed(from, to, feed) == [from |-> from, to |-> to, feed |-> feed]

ListedPairs ==
  {Listed(Plain("BTC"), USD, 1), Listed(Upside("BTC"), USD, 1),
   Listed(Upside("BTC"), USD, 2), Listed(Plain("BTC"), Plain("JPY"), NoFeed),
   Listed(Upside("BTC"), Plain("JPY"), 1), Listed(USD, Plain("JPY"), 2),
   Listed(USD, Upside("JPY"), 2)}

\* No symbol is listed twice.
Catalogs ==
  {c \in UNION {[1..n -> ListedPairs] : n \in 1..MaxPairs} :
     \A i, j \in DOMAIN c : symbol(c[i]) = symbol(c[j]) => i = j}

Refs == {r \in [from : Symbols, to : Symbols, sep : {"/", "-", "alone"}] :
           r.sep = "alone" => r.to = USD}

-----------------------------------------------------------------------------
(* Questions *)

AskFee(long, short, size, isLong, opening) ==
  /\ size > 0
  /\ opening \/ size <= (IF isLong THEN long ELSE short)
  /\ Asks([about |-> "fee", long |-> long, short |-> short, size |-> size,
           isLong |-> isLong, opening |-> opening],
          IF opening THEN pair_open_maker_taker_fee_p(long, short, size, isLong)
                     ELSE pair_close_maker_taker_fee_p(long, short, size, isLong))

AskSkew(long, short, size, isLong, lines) ==
  Asks([about |-> "skew", long |-> long, short |-> short, size |-> size,
        isLong |-> isLong, lines |-> lines],
       skew_line(long, short, size, isLong, lines))

AskRoom(caps, book, isLong) ==
  Asks([about |-> "room", caps |-> caps, book |-> book, isLong |-> isLong],
       max_position_size(caps, book, isLong))

AskMinStopLoss(leverage) ==
  Asks([about |-> "curve", leverage |-> leverage], pnl_order_min_sl(leverage))

AskValidation(pair, order, caps, book) ==
  Asks([about |-> "order", pair |-> pair, order |-> order, caps |-> caps, book |-> book],
       validate_order(pair, order, caps, book))

\* The profits at every gross one up to maxGain.
AskProfits(fees, maxGain) ==
  Asks([about |-> "profits", fees |-> fees],
       [gross \in -maxGain..maxGain |-> UpsideNet(gross, Tiers, fees)])

\* A fixed-fee position's, at every gross one down to twice the collateral,
\* where the loss protection has long reached its limit.
AskNet(collateral, leverage, feeP, protectionP) ==
  Asks([about |-> "net", collateral |-> collateral, protectionP |-> protectionP],
       [gross \in -(2 * collateral)..collateral |->
          FixedNet(gross, collateral, leverage, feeP, protectionP)])

AskTargets(collateral, percent, leverage, isLong, isUpside, feeP, fees) ==
  LET base == 7
  IN  Asks([about |-> "targets", base |-> base, collateral |-> collateral,
            percent |-> percent, leverage |-> leverage, isLong |-> isLong,
            isUpside |-> isUpside, feeP |-> feeP, fees |-> fees],
           [tp  |-> tp_percent_to_price(base, percent, leverage, isLong, isUpside, feeP),
            sl  |-> sl_percent_to_price(base, percent, leverage, isLong),
            liq |-> estimate_liquidation_price(base, collateral, leverage, isLong, fees)])

AskSize(usdBase, collateral, leverage, price) ==
  Asks([about |-> "size", usdBase |-> usdBase, collateral |-> collateral,
        leverage |-> leverage, price |-> price],
       size_in_asset(usdBase, collateral, leverage, price, 10, 100))

AskScale(mantissa, digits, factor) ==
  Asks([about |-> "scale", mantissa |-> mantissa, digits |-> digits,
        factor |-> factor],
       scale(mantissa, digits, factor))

AskPair(catalog, ref) ==
  Asks([about |-> "pair", catalog |-> catalog, ref |-> ref],
       pair_by_symbol(catalog, ref))

AskTwin(catalog, i) ==
  Asks([about |-> "twin", catalog |-> catalog, of |-> i], upside_pair_for(catalog, i))

\* What the snapshot says of a market's hours, and the clock by now.
AskHours(hours, taken, now) ==
  /\ now >= taken
  /\ Asks([about |-> "hours", hours |-> hours, taken |-> taken, now |-> now],
          is_market_open(hours, now))

\* The hours of a market whose next two changes are first and second.
HoursOf(open, first, second) ==
  [is_open |-> open, next_open |-> IF open THEN second ELSE first,
   next_close |-> IF open THEN first ELSE second]

Answered == ~Idle /\ UNCHANGED questionVars

Question ==
  \/ \E long, short, size \in OI, isLong, opening \in BOOLEAN :
       AskFee(long, short, size, isLong, opening)
  \/ \E long, short, size \in OI, isLong \in BOOLEAN, lines \in {1, 4, 10} :
       AskSkew(long, short, size, isLong, lines)
  \/ \E caps \in Caps, book \in Books, isLong \in BOOLEAN : AskRoom(caps, book, isLong)
  \/ \E leverage \in 1..MaxLeverage : AskMinStopLoss(leverage)
  \/ \E pair \in AskedPairs, order \in Orders, caps \in OrderCaps, book \in OrderBooks :
       AskValidation(pair, order, caps, book)
  \/ \E fees \in Fees, maxGain \in 1..30 : AskProfits(fees, maxGain)
  \/ \E collateral \in {10}, leverage \in {1, 20}, feeP \in {0, 1}, protectionP \in {0, 20, 99} :
       AskNet(collateral, leverage, feeP, protectionP)
  \/ \E collateral \in {0, 10}, percent \in {1, 10, 85, 250}, leverage \in {1, 3, 20},
        isLong, isUpside \in BOOLEAN, feeP \in {0, 15, 80, 100}, fees \in {0, 2} :
       AskTargets(collateral, percent, leverage, isLong, isUpside, feeP, fees)
  \/ \E usdBase \in BOOLEAN, collateral \in Collaterals, leverage \in Factors,
        price \in Factors \union {0} :
       AskSize(usdBase, collateral, leverage, price)
  \/ \E mantissa \in Mantissas, digits \in {1, 10, 1000}, factor \in {10, 100} :
       AskScale(mantissa, digits, factor)
  \/ \E catalog \in Catalogs, ref \in Refs : AskPair(catalog, ref)
  \/ \E catalog \in Catalogs, i \in 1..MaxPairs : i \in DOMAIN catalog /\ AskTwin(catalog, i)
  \/ \E open \in BOOLEAN, first, second, taken, now \in Hours :
       /\ taken < first /\ first < second
       /\ AskHours(HoursOf(open, first, second), taken, now)

QuestionNext ==
  \/ Idle /\ Question
  \/ Answered

QuestionSpec == QuestionInit /\ [][QuestionNext]_questionVars

-----------------------------------------------------------------------------
(* Properties *)

\* Opening or closing the trade one unit of coin at a time, a unit pays the
\* maker's rate when it moves the book toward its balance and the taker's when
\* it does not: maker_or_taker_fee_p, which looks at the ends only, charges the
\* same.  (Not on a book with one side empty, where a trade on the heavy side
\* leaves the ratio at 1 and is charged as a maker's.)
FeeIsPerUnit ==
  asked.about = "fee" /\ asked.long > 0 /\ asked.short > 0 =>
    LET rises == IF asked.opening THEN asked.isLong ELSE ~asked.isLong
        Toward(k) ==  \* the k-th unit
          LET long == IF asked.isLong
                      THEN asked.long + (IF asked.opening THEN k - 1 ELSE 1 - k)
                      ELSE asked.long
              short == IF asked.isLong THEN asked.short
                       ELSE asked.short + (IF asked.opening THEN k - 1 ELSE 1 - k)
          IN  IF rises THEN long < short ELSE short < long
        makers == Cardinality({k \in 1..asked.size : Toward(k)})
    IN  answer.maker = makers /\ answer.taker = asked.size - makers

\* The line of skew_eq_params is one that is listed, at either end of the scale
\* too (an empty book, a share of 100), and a larger trade never has a later
\* one.
SkewLineIsListed ==
  asked.about = "skew" =>
    /\ answer \in 0..(asked.lines - 1)
    /\ skew_line(asked.long, asked.short, asked.size + 1, asked.isLong, asked.lines)
         <= answer

FeesFollowTheBook == FeeIsPerUnit /\ SkewLineIsListed

Fits(caps, book, isLong, size) ==
  LET side == (IF isLong THEN book.long ELSE book.short) + size
      way == IF isLong THEN "buy" ELSE "sell"
  IN  /\ caps.grouped
      /\ book.total + size <= caps.total
      /\ book.group + size <= caps.group
      /\ book.wallet + size <= caps.wallet
      /\ book.long + book.short + size <= caps.pair
      /\ side * 10000 <= caps.group * caps.groupP * (IF isLong THEN caps.longP ELSE caps.shortP)
      /\ way \in DOMAIN caps.depth => size <= caps.depth[way]

\* The room max_position_size gives is exact: a position of that size keeps
\* every cap on the open interest, and one that is larger breaks one of them; a
\* pair of a group that the snapshot lacks has none, and one without a depth is
\* held to the caps alone.
HeadroomIsExact ==
  asked.about = "room" =>
    /\ answer >= 0
    /\ answer > 0 => Fits(asked.caps, asked.book, asked.isLong, answer)
    /\ ~Fits(asked.caps, asked.book, asked.isLong, answer + 1)

\* The floor of an Upside stop loss rises with the leverage, by less than it
\* does below 10x, and never past what any pair takes: the seven segments of
\* the curve meet.
CurveRises ==
  asked.about = "curve" =>
    LET next == pnl_order_min_sl(asked.leverage + 1)
    IN  0 <= answer /\ answer <= next /\ next <= answer + 150 /\ next <= 54000

\* An order with nothing wrong but for its stop loss can be given one: its
\* limits leave a value between the floor, which grows with the spread and the
\* leverage, and the cap of a pair that takes at least 54%, and that value is
\* reached before the position is liquidated.
StopLossFeasible ==
  asked.about = "order" /\ answer = {} =>
    LET least == MinStopLoss(asked.order)
        given == [asked.order EXCEPT !.stopLoss = least]
    IN  /\ validate_order(asked.pair, given, asked.caps, asked.book) = {}
        /\ least < LIQ_THRESHOLD_P * 1000

StopsAreFeasible == CurveRises /\ StopLossFeasible

NonIncreasing(fees) == \A i, j \in DOMAIN fees : i <= j => fees[i] >= fees[j]

\* A higher gross profit never nets less, whatever tier of the profit share or
\* part of the loss protection it falls in, and a take profit that an order is
\* accepted with is netted at the latest where the contract caps the gain.
NetRisesWithGross ==
  /\ asked.about = "profits" =>
       \A low, high \in DOMAIN answer :
         low <= high /\ NonIncreasing(asked.fees) => answer[low] <= answer[high]
  /\ asked.about = "order" /\ answer = {} /\ asked.order.upside =>
       asked.order.takeProfit
         <= 10 * UpsideNet(asked.pair.maxGain, asked.pair.tiers, asked.pair.fees)
  /\ asked.about = "net" =>
       \A low, high \in DOMAIN answer : low <= high => answer[low] <= answer[high]

\* What the position has made at the price of a target is what was asked for:
\* the take profit after the profit share (before it, when the share takes all),
\* the stop loss, and at the liquidation price the threshold's share of the
\* collateral together with the fees; and the prices read back as the
\* percentages.
TargetsAreReached ==
  asked.about = "targets" =>
    LET Gross(price) == gross_pnl(price, asked.base, asked.collateral, asked.leverage,
                                  asked.isLong)
        Times(n, x) == <<n * x[1], x[2]>>
        kept == Kept(asked.isUpside, asked.feeP)
    IN  /\ Equal(Times(IF kept = 0 THEN 100 ELSE kept, Gross(answer.tp)),
                 <<asked.percent * asked.collateral, 1>>)
        /\ Equal(Times(100, Gross(answer.sl)), <<-asked.percent * asked.collateral, 1>>)
        /\ asked.collateral > 0 =>
             Equal(Times(100, Gross(answer.liq)),
                   <<100 * asked.fees - LIQ_THRESHOLD_P * asked.collateral, 1>>)
        /\ kept > 0 =>
             Equal(tp_price_to_percent(asked.base, answer.tp, asked.leverage, asked.isLong,
                                       asked.isUpside, asked.feeP), <<asked.percent, 1>>)
        /\ Equal(sl_price_to_percent(asked.base, answer.sl, asked.leverage, asked.isLong),
                 <<asked.percent, 1>>)

\* The size of a position in its asset is its notional, at the opening price:
\* the three divisions that round down lose, together, less than one unit of
\* the asset and never add to it.  One unit of USD is worth one whatever the
\* price, and without a price there is no size.
SizeWithinUnit ==
  asked.about = "size" =>
    LET notional == position_size(asked.collateral, asked.leverage, 100)
        price == IF asked.usdBase THEN 100 ELSE asked.price
        unit == IF asked.usdBase THEN 10 ELSE 100
    IN  /\ notional * 100 <= asked.collateral * asked.leverage
        /\ price = 0 => answer[1] = 0
        /\ price > 0 =>
             /\ answer[2] = unit
             /\ answer[1] * price * 10 <= notional * unit * 100
             /\ notional * unit * 100 < (answer[1] + 1) * price * 10

Magnitude(n) == IF n < 0 THEN -n ELSE n

\* An amount scaled to raw units loses less than one of them, toward zero on
\* either side of it, so that withdrawing what was added is the same amount.
ScaleExact ==
  asked.about = "scale" =>
    /\ Magnitude(answer) * asked.digits <= Magnitude(asked.mantissa) * asked.factor
    /\ Magnitude(asked.mantissa) * asked.factor < (Magnitude(answer) + 1) * asked.digits
    /\ scale(-asked.mantissa, asked.digits, asked.factor) = -answer

AmountsAreExact == SizeWithinUnit /\ ScaleExact

\* A reference that names no Upside symbol is never taken for an Upside pair
\* whose plain twin is listed, which would trade the other kind of order, and
\* a pair's own symbol always names it.
KindNeverGuessed ==
  asked.about = "pair" =>
    /\ ~asked.ref.from.upside /\ ~asked.ref.to.upside /\ answer # 0
         /\ is_upside(asked.catalog[answer]) =>
       \A i \in DOMAIN asked.catalog :
         symbol(asked.catalog[i]) # base_symbol(asked.catalog[answer])
    /\ asked.ref.sep = "/" =>
         \A i \in DOMAIN asked.catalog :
           symbol(asked.catalog[i]) = <<asked.ref.from, asked.ref.to>> => answer = i

Swapped(catalog, i, j) == [catalog EXCEPT ![i] = catalog[j], ![j] = catalog[i]]

\* Which pair a reference names does not depend on the order of the snapshot: two
\* pairs that change their places change nothing else (and over all catalogs
\* such changes make every order).
OrderNeverDecides ==
  asked.about = "pair" =>
    \A i, j \in DOMAIN asked.catalog :
      LET swapped == Swapped(asked.catalog, i, j)
          named == pair_by_symbol(swapped, asked.ref)
      IN  IF answer = 0 THEN named = 0
          ELSE named # 0 /\ swapped[named] = asked.catalog[answer]

\* The Upside twin of a pair leads back to it: its symbol without the suffix
\* resolves to the pair it was asked for.
TwinIsTwin ==
  asked.about = "twin" /\ answer # 0 /\ answer # asked.of =>
    LET base == base_symbol(asked.catalog[answer])
    IN  /\ is_upside(asked.catalog[answer])
        /\ pair_by_symbol(asked.catalog, [from |-> base[1], to |-> base[2], sep |-> "/"])
             = asked.of

PairsKeepTheirKind == KindNeverGuessed /\ OrderNeverDecides /\ TwinIsTwin

\* A market is open as the schedule of its feed says: as it was when the snapshot
\* was taken, and the other way round after each of the two changes that the
\* snapshot names ("forex/commodity groups use the feed schedule",
\* markets/models.py).
HoursFollowTheSchedule ==
  asked.about = "hours" /\ asked.now \notin {asked.hours.next_open, asked.hours.next_close} =>
    LET passed == {change \in {asked.hours.next_open, asked.hours.next_close} :
                     change < asked.now}
    IN  answer <=> (asked.hours.is_open <=> Cardinality(passed) # 1)
=============================================================================
