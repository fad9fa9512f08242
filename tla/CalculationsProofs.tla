------------------------- MODULE CalculationsProofs -------------------------
(***************************************************************************)
(* Theorems of Calculations, for books, trades and amounts of any size.    *)
(***************************************************************************)
EXTENDS Calculations, FiniteSetTheorems, WellFoundedInduction, TLAPS

\* A step asks one question and answers that.
LEMMA OneQuestion ==
  ASSUME [QuestionNext]_questionVars
  PROVE  \/ UNCHANGED questionVars
         \/ /\ asked'.about = "fee" =>
                 \E long, short, size \in OI, isLong, opening \in BOOLEAN :
                   AskFee(long, short, size, isLong, opening)
            /\ asked'.about = "skew" =>
                 \E long, short, size \in OI, isLong \in BOOLEAN, lines \in {1, 4, 10} :
                   AskSkew(long, short, size, isLong, lines)
            /\ asked'.about = "room" =>
                 \E caps \in Caps, book \in Books, isLong \in BOOLEAN :
                   AskRoom(caps, book, isLong)
            /\ asked'.about = "curve" =>
                 \E leverage \in 1..MaxLeverage : AskMinStopLoss(leverage)
            /\ asked'.about = "order" =>
                 \E pair \in AskedPairs, order \in Orders, caps \in OrderCaps,
                    book \in OrderBooks : AskValidation(pair, order, caps, book)
            /\ asked'.about = "profits" =>
                 \E fees \in Fees, maxGain \in 1..30 : AskProfits(fees, maxGain)
            /\ asked'.about = "net" =>
                 \E collateral \in {10}, leverage \in {1, 20}, feeP \in {0, 1},
                    protectionP \in {0, 20, 99} :
                   AskNet(collateral, leverage, feeP, protectionP)
            /\ asked'.about = "targets" =>
                 \E collateral \in {0, 10}, percent \in {1, 10, 85, 250},
                    leverage \in {1, 3, 20}, isLong, isUpside \in BOOLEAN,
                    feeP \in {0, 15, 80, 100}, fees \in {0, 2} :
                   AskTargets(collateral, percent, leverage, isLong, isUpside, feeP, fees)
            /\ asked'.about = "size" =>
                 \E usdBase \in BOOLEAN, collateral \in Collaterals,
                    leverage \in Factors, price \in Factors \union {0} :
                   AskSize(usdBase, collateral, leverage, price)
            /\ asked'.about = "scale" =>
                 \E mantissa \in Mantissas, digits \in {1, 10, 1000}, factor \in {10, 100} :
                   AskScale(mantissa, digits, factor)
            /\ asked'.about = "pair" =>
                 \E catalog \in Catalogs, ref \in Refs : AskPair(catalog, ref)
            /\ asked'.about = "twin" =>
                 \E catalog \in Catalogs, i \in 1..MaxPairs :
                   i \in DOMAIN catalog /\ AskTwin(catalog, i)
            /\ asked'.about = "hours" =>
                 \E open \in BOOLEAN, first, second, taken, now \in Hours :
                   /\ taken < first /\ first < second
                   /\ AskHours(HoursOf(open, first, second), taken, now)
<1>1. CASE UNCHANGED questionVars \/ Answered
  BY <1>1 DEF Answered
<1>2. CASE Question
  <2>1. ASSUME \E long, short, size \in OI, isLong, opening \in BOOLEAN :
          AskFee(long, short, size, isLong, opening)
        PROVE  asked'.about = "fee"
    BY <2>1 DEF AskFee, Asks
  <2>2. ASSUME \E long, short, size \in OI, isLong \in BOOLEAN, lines \in {1, 4, 10} :
          AskSkew(long, short, size, isLong, lines)
        PROVE  asked'.about = "skew"
    BY <2>2 DEF AskSkew, Asks
  <2>3. ASSUME \E caps \in Caps, book \in Books, isLong \in BOOLEAN : AskRoom(caps, book, isLong)
        PROVE  asked'.about = "room"
    BY <2>3 DEF AskRoom, Asks
  <2>4. ASSUME \E leverage \in 1..MaxLeverage : AskMinStopLoss(leverage)
        PROVE  asked'.about = "curve"
    BY <2>4 DEF AskMinStopLoss, Asks
  <2>5. ASSUME \E pair \in AskedPairs, order \in Orders, caps \in OrderCaps,
                  book \in OrderBooks : AskValidation(pair, order, caps, book)
        PROVE  asked'.about = "order"
    BY <2>5 DEF AskValidation, Asks
  <2>6. ASSUME \E fees \in Fees, maxGain \in 1..30 : AskProfits(fees, maxGain)
        PROVE  asked'.about = "profits"
    BY <2>6 DEF AskProfits, Asks
  <2>7. ASSUME \E collateral \in {10}, leverage \in {1, 20}, feeP \in {0, 1}, protectionP \in {0, 20, 99} :
          AskNet(collateral, leverage, feeP, protectionP)
        PROVE  asked'.about = "net"
    BY <2>7 DEF AskNet, Asks
  <2>8. ASSUME \E collateral \in {0, 10}, percent \in {1, 10, 85, 250},
                  leverage \in {1, 3, 20}, isLong, isUpside \in BOOLEAN,
                  feeP \in {0, 15, 80, 100}, fees \in {0, 2} :
          AskTargets(collateral, percent, leverage, isLong, isUpside, feeP, fees)
        PROVE  asked'.about = "targets"
    BY <2>8 DEF AskTargets, Asks
  <2>9. ASSUME \E usdBase \in BOOLEAN, collateral \in Collaterals, leverage \in Factors,
                  price \in Factors \union {0} :
          AskSize(usdBase, collateral, leverage, price)
        PROVE  asked'.about = "size"
    BY <2>9 DEF AskSize, Asks
  <2>10. ASSUME \E mantissa \in Mantissas, digits \in {1, 10, 1000}, factor \in {10, 100} :
          AskScale(mantissa, digits, factor)
         PROVE  asked'.about = "scale"
    BY <2>10 DEF AskScale, Asks
  <2>11. ASSUME \E catalog \in Catalogs, ref \in Refs : AskPair(catalog, ref)
         PROVE  asked'.about = "pair"
    BY <2>11 DEF AskPair, Asks
  <2>12. ASSUME \E catalog \in Catalogs, i \in 1..MaxPairs : i \in DOMAIN catalog /\ AskTwin(catalog, i)
         PROVE  asked'.about = "twin"
    BY <2>12 DEF AskTwin, Asks
  <2>13. ASSUME \E open \in BOOLEAN, first, second, taken, now \in Hours :
          /\ taken < first /\ first < second
          /\ AskHours(HoursOf(open, first, second), taken, now)
         PROVE  asked'.about = "hours"
    BY <2>13 DEF AskHours, Asks
  <2> QED
    BY <1>2, <2>1, <2>2, <2>3, <2>4, <2>5, <2>6, <2>7, <2>8,
       <2>9, <2>10, <2>11, <2>12, <2>13 DEF Question
<1> QED
  BY <1>1, <1>2 DEF QuestionNext

-----------------------------------------------------------------------------
LEMMA CurveBounds ==
  ASSUME NEW leverage \in Nat
  PROVE  /\ 0 <= pnl_order_min_sl(leverage)
         /\ pnl_order_min_sl(leverage) <= pnl_order_min_sl(leverage + 1)
         /\ pnl_order_min_sl(leverage + 1) <= pnl_order_min_sl(leverage) + 150
         /\ pnl_order_min_sl(leverage + 1) <= 54000
BY DEF pnl_order_min_sl

LEMMA CurveStep ==
  ASSUME CurveRises, [QuestionNext]_questionVars
  PROVE  CurveRises'
<1>1. CASE UNCHANGED questionVars
  <2>1. pnl_order_min_sl(asked.leverage + 1)' = pnl_order_min_sl(asked.leverage + 1)
    BY <1>1 DEF questionVars, pnl_order_min_sl
  <2> QED
    BY <1>1, <2>1 DEF questionVars, CurveRises
<1>2. CASE asked'.about # "curve"
  BY <1>2 DEF CurveRises
<1>3. ASSUME NEW leverage \in 1..MaxLeverage, AskMinStopLoss(leverage)
      PROVE  CurveRises'
  <2>1. /\ asked'.leverage = leverage
        /\ answer' = pnl_order_min_sl(leverage)
    BY <1>3 DEF AskMinStopLoss, Asks
  <2>2. leverage \in Nat
    OBVIOUS
  <2>3. /\ 0 <= pnl_order_min_sl(leverage)
        /\ pnl_order_min_sl(leverage) <= pnl_order_min_sl(leverage + 1)
        /\ pnl_order_min_sl(leverage + 1) <= pnl_order_min_sl(leverage) + 150
        /\ pnl_order_min_sl(leverage + 1) <= 54000
    BY <2>2, CurveBounds
  <2>4. pnl_order_min_sl(asked.leverage + 1)' = pnl_order_min_sl(leverage + 1)
    BY <2>1 DEF pnl_order_min_sl
  <2> QED
    BY <2>1, <2>3, <2>4 DEF CurveRises
<1> QED
  BY <1>1, <1>2, <1>3, OneQuestion

\* Any order without another fault, at any spread and leverage.
LEMMA StopBounds ==
  ASSUME NEW order \in [upside : BOOLEAN, leverage : Nat, spread : Nat \cup {NotGiven}],
         order.leverage <= 1000, SpreadErrors(order) = {}
  PROVE  MinStopLoss(order) \in Nat /\ MinStopLoss(order) <= 54000
<1> DEFINE limit == IF order.spread = NotGiven THEN 0
                    ELSE (order.spread + SL_BUFFER_SPREAD_P) * order.leverage
           curve == pnl_order_min_sl(order.leverage)
           three == {limit, MIN_UPSIDE_SL_P, curve}
<1>1. limit \in Nat /\ limit <= 35100
  <2>1. CASE order.spread = NotGiven
    BY <2>1
  <2>2. CASE order.spread # NotGiven
    <3>1. order.spread * order.leverage < 25100
      BY <2>2 DEF SpreadErrors, SPREAD_ERROR_THRESHOLD_P, SPREAD_LOSS_THRESHOLD_P
    <3>2. limit = order.spread * order.leverage + 10 * order.leverage
      BY <2>2 DEF SL_BUFFER_SPREAD_P
    <3>3. order.spread * order.leverage \in Nat
      BY <2>2
    <3> QED
      BY <3>1, <3>2, <3>3
  <2> QED
    BY <2>1, <2>2
<1>2. curve \in Nat /\ curve <= 54000
  <2>1. order.leverage \in Nat
    OBVIOUS
  <2> QED
    BY <2>1, CurveBounds DEF pnl_order_min_sl
<1>3. Max(three) \in three
  <2> HIDE DEF limit, curve
  <2>1. \E x \in three : \A y \in three : x >= y
    BY <1>1, <1>2 DEF MIN_UPSIDE_SL_P
  <2> QED
    BY <2>1 DEF Max
<1>4. MinStopLoss(order) \in {limit, Max(three)}
  BY DEF MinStopLoss
<1> HIDE DEF limit, curve
<1> QED
  BY <1>1, <1>2, <1>3, <1>4 DEF MIN_UPSIDE_SL_P

LEMMA StopStep ==
  ASSUME StopLossFeasible, [QuestionNext]_questionVars
  PROVE  StopLossFeasible'
<1>1. CASE UNCHANGED questionVars
  BY <1>1
     DEF questionVars, StopLossFeasible
<1>2. CASE asked'.about # "order"
  BY <1>2 DEF StopLossFeasible
<1>3. ASSUME NEW pair \in AskedPairs, NEW order \in Orders, NEW caps \in OrderCaps,
             NEW book \in OrderBooks, AskValidation(pair, order, caps, book)
      PROVE  StopLossFeasible'
  <2> DEFINE least == MinStopLoss(order)
             given == [order EXCEPT !.stopLoss = least]
  <2>1. /\ asked' = [about |-> "order", pair |-> pair, order |-> order, caps |-> caps,
                     book |-> book]
        /\ answer' = validate_order(pair, order, caps, book)
    BY <1>3 DEF AskValidation, Asks
  <2>2. ASSUME validate_order(pair, order, caps, book) = {}
        PROVE  /\ validate_order(pair, given, caps, book) = {}
               /\ least < LIQ_THRESHOLD_P * 1000
    <3>1. /\ MarketErrors(pair) = {} /\ SizeErrors(pair, order, caps, book) = {}
          /\ LimitErrors(order) = {} /\ TakeProfitErrors(pair, order) = {}
          /\ SpreadErrors(order) = {}
      BY <2>2 DEF validate_order
    <3>2. order.leverage <= 1000
      BY <3>1 DEF SizeErrors, AskedPairs, AskedPair, Orders, Leverages
    <3>3. least \in Nat /\ least <= 54000
      <4>1. /\ order.upside \in BOOLEAN /\ order.leverage \in Nat
            /\ order.spread \in Nat \cup {NotGiven}
        BY DEF Orders, Leverages
      <4> DEFINE part == [upside |-> order.upside, leverage |-> order.leverage,
                          spread |-> order.spread]
      <4>2. SpreadErrors(part) = {} /\ MinStopLoss(part) = least
        BY <3>1 DEF SpreadErrors, MinStopLoss
      <4>3. MinStopLoss(part) \in Nat /\ MinStopLoss(part) <= 54000
        BY <3>2, <4>1, <4>2, StopBounds
      <4> QED
        BY <4>2, <4>3
    <3> HIDE DEF least
    <3>4. /\ given.stopLoss = least /\ given.upside = order.upside
          /\ given.leverage = order.leverage /\ given.spread = order.spread
          /\ given.collateral = order.collateral /\ given.trades = order.trades
          /\ given.limit = order.limit /\ given.market = order.market
          /\ given.isLong = order.isLong /\ given.takeProfit = order.takeProfit
      BY DEF Orders
    <3> HIDE DEF given
    <3>5. /\ SizeErrors(pair, given, caps, book) = SizeErrors(pair, order, caps, book)
          /\ LimitErrors(given) = LimitErrors(order)
          /\ TakeProfitErrors(pair, given) = TakeProfitErrors(pair, order)
          /\ SpreadErrors(given) = SpreadErrors(order)
          /\ MinStopLoss(given) = least
      BY <3>4
         DEF SizeErrors, LimitErrors, TakeProfitErrors, MaxTakeProfit, SpreadErrors,
             MinStopLoss, least
    <3>6. StopLossErrors(pair, given) = {}
      BY <3>3, <3>4, <3>5 DEF StopLossErrors, AskedPairs, AskedPair
    <3>7. validate_order(pair, given, caps, book) = {}
      BY <3>1, <3>5, <3>6 DEF validate_order
    <3> QED
      BY <3>3, <3>7 DEF LIQ_THRESHOLD_P
  <2> QED
    BY <2>1, <2>2 DEF StopLossFeasible
<1> QED
  BY <1>1, <1>2, <1>3, OneQuestion

\* The floor of an Upside stop loss never falls as the leverage grows and jumps
\* at no knot of its curve, and an order with no other fault has room for a
\* stop loss between it and the cap of a pair that takes 54% (compute/tpsl.py,
\* compute/validation.py).
THEOREM StopsFeasible == QuestionSpec => []StopsAreFeasible
<1>1. QuestionInit => CurveRises /\ StopLossFeasible
  BY DEF QuestionInit, CurveRises, StopLossFeasible
<1>2. CurveRises /\ StopLossFeasible => StopsAreFeasible
  BY DEF StopsAreFeasible
<1> QED
  BY <1>1, <1>2, CurveStep, StopStep, PTL DEF QuestionSpec

-----------------------------------------------------------------------------
LEMMA ShareOf ==
  ASSUME NEW n \in Int, NEW size \in Int
  PROVE  size <= n \div 10000 <=> size * 10000 <= n
OBVIOUS

\* Caps of any size, with the depth of both sides, of one or of none.
AnyCaps ==
  [total : Nat, group : Nat, wallet : Nat, groupP : Nat, longP : Nat, shortP : Nat,
   pair : Nat, grouped : BOOLEAN,
   depth : UNION {[ways -> Int] : ways \in SUBSET {"buy", "sell"}}]

AnyBook == [long : Nat, short : Nat, group : Nat, total : Nat, wallet : Nat]

\* For any caps and any book of a group that is listed.
LEMMA RoomOfBook ==
  ASSUME NEW caps \in AnyCaps, NEW book \in AnyBook, NEW isLong \in BOOLEAN, caps.grouped
  PROVE  LET room == available_liquidity(caps, book, isLong)
         IN  /\ room \in Nat
             /\ room > 0 => Fits(caps, book, isLong, room)
             /\ ~Fits(caps, book, isLong, room + 1)
<1> DEFINE side == IF isLong THEN book.long ELSE book.short
           part == caps.group * caps.groupP * (IF isLong THEN caps.longP ELSE caps.shortP)
           own == Most(caps.pair - book.long - book.short, 0)
           share == Most(part \div 10000 - side, 0)
           a == Most(caps.total - book.total, 0)
           b == Most(caps.group - book.group, 0)
           c == Most(caps.wallet - book.wallet, 0)
           d == PairRoom(caps, book, isLong)
           way == IF isLong THEN "buy" ELSE "sell"
           deep == DepthRoom(caps, isLong)
           room == available_liquidity(caps, book, isLong)
<1>1. part \in Nat /\ side \in Nat /\ part \div 10000 \in Nat
  <2>1. \A m, n \in Nat : m * n \in Nat
    OBVIOUS
  <2>2. part \in Nat /\ side \in Nat
    BY <2>1 DEF AnyCaps, AnyBook
  <2> HIDE DEF part, side
  <2> QED
    BY <2>2
<1>2. d = Least(own, share)
  BY DEF PairRoom
<1>3. \A size \in Nat : (side + size) * 10000 <= part <=> side + size <= part \div 10000
  BY <1>1, ShareOf
<1>4. \A size \in Nat :
        Fits(caps, book, isLong, size) <=>
          /\ book.total + size <= caps.total
          /\ book.group + size <= caps.group
          /\ book.wallet + size <= caps.wallet
          /\ book.long + book.short + size <= caps.pair
          /\ side + size <= part \div 10000
          /\ way \in DOMAIN caps.depth => size <= caps.depth[way]
  BY <1>3 DEF Fits
<1>5. /\ a \in Nat /\ b \in Nat /\ c \in Nat /\ d \in Nat
      /\ own \in Nat /\ share \in Nat
  BY <1>1, <1>2 DEF Most, Least, AnyCaps, AnyBook
<1>6. \/ way \notin DOMAIN caps.depth /\ deep = {}
      \/ /\ way \in DOMAIN caps.depth /\ caps.depth[way] \in Int
         /\ deep = {Most(caps.depth[way], 0)}
  <2>1. PICK ways \in SUBSET {"buy", "sell"} : caps.depth \in [ways -> Int]
    BY DEF AnyCaps
  <2>2. way \in DOMAIN caps.depth => caps.depth[way] \in Int
    BY <2>1
  <2> QED
    BY <2>2 DEF DepthRoom
<1>7. room \in {a, b, c, d} \union deep /\ \A x \in {a, b, c, d} \union deep : room <= x
  <2>1. room = Min({a, b, c, d} \union deep)
    BY DEF available_liquidity
  <2>2. \A x \in deep : x \in Nat /\ \A y \in deep : x = y
    BY <1>6 DEF Most
  <2> HIDE DEF a, b, c, d, deep, room
  <2>3. \E x \in {a, b, c, d} \union deep : \A y \in {a, b, c, d} \union deep : x <= y
    BY <1>5, <2>2
  <2> QED
    BY <2>1, <2>3 DEF Min
<1>8. room \in Nat
  BY <1>5, <1>6, <1>7 DEF Most
<1>9. room > 0 => Fits(caps, book, isLong, room)
  <2> SUFFICES ASSUME room > 0 PROVE Fits(caps, book, isLong, room)
    OBVIOUS
  <2> HIDE DEF room, part, side, way, deep
  <2>1. /\ room <= a /\ room <= b /\ room <= c
        /\ room <= own /\ room <= share
    BY <1>2, <1>5, <1>7, <1>8 DEF Least
  <2>2. way \in DOMAIN caps.depth => room <= caps.depth[way]
    BY <1>6, <1>7, <1>8 DEF Most
  <2> QED
    BY <1>1, <1>4, <1>8, <2>1, <2>2 DEF Most, AnyCaps, AnyBook
<1>10. ~Fits(caps, book, isLong, room + 1)
  <2> HIDE DEF room, part, side, way, deep
  <2>1. \/ room = a \/ room = b \/ room = c \/ room = own \/ room = share
        \/ room \in deep
    BY <1>2, <1>5, <1>7 DEF Least
  <2>2. room \in deep => way \in DOMAIN caps.depth /\ caps.depth[way] < room + 1
    BY <1>6, <1>8 DEF Most
  <2> QED
    BY <1>1, <1>4, <1>6, <1>8, <2>1, <2>2 DEF Most, AnyCaps, AnyBook
<1> QED
  BY <1>8, <1>9, <1>10

\* For any caps and any book: nothing of a group that is not listed.
LEMMA RoomOfPair ==
  ASSUME NEW caps \in AnyCaps, NEW book \in AnyBook, NEW isLong \in BOOLEAN
  PROVE  LET room == max_position_size(caps, book, isLong)
         IN  /\ room \in Nat
             /\ room > 0 => Fits(caps, book, isLong, room)
             /\ ~Fits(caps, book, isLong, room + 1)
<1>1. CASE caps.grouped
  BY <1>1, RoomOfBook DEF max_position_size
<1>2. CASE ~caps.grouped
  <2> DEFINE none == [caps EXCEPT !.group = 0]
             listed == [caps EXCEPT !.group = 0, !.grouped = TRUE]
             alone == [book EXCEPT !.group = 0]
             room == available_liquidity(none, alone, isLong)
  <2>1. listed \in AnyCaps /\ alone \in AnyBook /\ listed.grouped
    BY DEF AnyCaps, AnyBook
  <2>2. room = available_liquidity(listed, alone, isLong)
    BY DEF available_liquidity, PairRoom, DepthRoom, AnyCaps
  <2>3. listed.group = 0 /\ alone.group = 0
    BY DEF AnyCaps, AnyBook
  <2> HIDE DEF none, listed, alone, room
  <2>4. room \in Nat /\ (room > 0 => Fits(listed, alone, isLong, room))
    BY <2>1, <2>2, RoomOfBook
  <2>5. room = 0
    BY <2>3, <2>4 DEF Fits
  <2>6. max_position_size(caps, book, isLong) = 0
    BY <1>2, <2>5 DEF max_position_size, none, alone, room
  <2> QED
    BY <1>2, <2>6 DEF Fits
<1> QED
  BY <1>1, <1>2

LEMMA RoomStep ==
  ASSUME HeadroomIsExact, [QuestionNext]_questionVars
  PROVE  HeadroomIsExact'
<1>1. CASE UNCHANGED questionVars
  BY <1>1 DEF questionVars, HeadroomIsExact, Fits
<1>2. CASE asked'.about # "room"
  BY <1>2 DEF HeadroomIsExact
<1>3. ASSUME NEW caps \in Caps, NEW book \in Books, NEW isLong \in BOOLEAN,
             AskRoom(caps, book, isLong)
      PROVE  HeadroomIsExact'
  <2>1. /\ asked'.caps = caps /\ asked'.book = book /\ asked'.isLong = isLong
        /\ answer' = max_position_size(caps, book, isLong)
    BY <1>3 DEF AskRoom, Asks
  <2>2. caps \in AnyCaps /\ book \in AnyBook
    <3>1. /\ [buy |-> 3, sell |-> 9] \in [{"buy", "sell"} -> Int]
          /\ [sell |-> 2] \in [{"sell"} -> Int]
      OBVIOUS
    <3> QED
      BY <3>1 DEF Caps, Books, AnyCaps, AnyBook
  <2>3. /\ answer' \in Nat
        /\ answer' > 0 => Fits(caps, book, isLong, answer')
        /\ ~Fits(caps, book, isLong, answer' + 1)
    BY <2>1, <2>2, RoomOfPair
  <2> QED
    BY <2>1, <2>3 DEF HeadroomIsExact, Fits
<1> QED
  BY <1>1, <1>2, <1>3, OneQuestion

\* The room left for a position is exact: it fits and one unit more does not
\* (max_position_size and available_liquidity, compute/liquidity.py).
THEOREM RoomExact == QuestionSpec => []HeadroomIsExact
<1>1. QuestionInit => HeadroomIsExact
  BY DEF QuestionInit, HeadroomIsExact
<1> QED
  BY <1>1, RoomStep, PTL DEF QuestionSpec

-----------------------------------------------------------------------------
(* Maker and taker *)

\* Of k units those up to the excess of the heavy side move the book toward its
\* balance.
LEMMA UnitsToward ==
  ASSUME NEW size \in Nat, NEW excess \in Int
  PROVE  Cardinality({k \in 1..size : k <= excess}) =
           IF excess <= 0 THEN 0 ELSE IF excess <= size THEN excess ELSE size
<1>1. CASE excess <= 0
  <2>1. {k \in 1..size : k <= excess} = {}
    BY <1>1
  <2> QED
    BY <1>1, <2>1, FS_EmptySet
<1>2. CASE excess > 0 /\ excess <= size
  <2>1. {k \in 1..size : k <= excess} = 1..excess
    BY <1>2
  <2>2. Cardinality(1..excess) = excess
    BY <1>2, FS_Interval
  <2>3. Cardinality({k \in 1..size : k <= excess}) = excess
    BY Zenon, <2>1, <2>2
  <2> QED
    BY <1>2, <2>3
<1>3. CASE excess > size
  <2>1. {k \in 1..size : k <= excess} = 1..size
    BY <1>3
  <2>2. Cardinality(1..size) = size
    BY FS_Interval
  <2>3. Cardinality({k \in 1..size : k <= excess}) = size
    BY Zenon, <2>1, <2>2
  <2> QED
    BY <1>3, <2>3
<1> QED
  BY <1>1, <1>2, <1>3

\* The share of a side grows with it and falls with the other.
LEMMA ShareMoves ==
  ASSUME NEW long \in Nat \ {0}, NEW short \in Nat \ {0}, NEW size \in Nat \ {0}
  PROVE  /\ (long + size) * (long + short) > long * (long + size + short)
         /\ (long - size) * (long + short) < long * (long - size + short)
         /\ long * (long + short) < long * (long + short + size)
         /\ long * (long + short) > long * (long + short - size)
<1>1. size * short > 0 /\ long * size > 0
  OBVIOUS
<1>2. /\ (long + size) * (long + short) = long * (long + size + short) + size * short
      /\ (long - size) * (long + short) = long * (long - size + short) - size * short
  OBVIOUS
<1>3. /\ long * (long + short + size) = long * (long + short) + long * size
      /\ long * (long + short - size) = long * (long + short) - long * size
  OBVIOUS
<1> QED
  BY <1>1, <1>2, <1>3

LEMMA FeeOfExcess ==
  ASSUME NEW long \in Nat \ {0}, NEW short \in Nat \ {0}, NEW size \in Nat \ {0},
         NEW isLong \in BOOLEAN, NEW opening \in BOOLEAN,
         opening \/ size <= (IF isLong THEN long ELSE short)
  PROVE  LET fee == IF opening THEN pair_open_maker_taker_fee_p(long, short, size, isLong)
                    ELSE pair_close_maker_taker_fee_p(long, short, size, isLong)
             excess == IF opening <=> isLong THEN short - long ELSE long - short
             makers == IF excess <= 0 THEN 0 ELSE IF excess <= size THEN excess ELSE size
         IN  fee.maker = makers /\ fee.taker = size - makers
<1> USE ShareMoves DEF maker_or_taker_fee_p, AllTaker, AllMaker, Crossing
<1>1. CASE opening /\ isLong
  BY <1>1 DEF pair_open_maker_taker_fee_p
<1>2. CASE opening /\ ~isLong
  BY <1>2 DEF pair_open_maker_taker_fee_p
<1>3. CASE ~opening /\ isLong
  BY <1>3 DEF pair_close_maker_taker_fee_p, Most
<1>4. CASE ~opening /\ ~isLong
  BY <1>4 DEF pair_close_maker_taker_fee_p, Most
<1> QED
  BY <1>1, <1>2, <1>3, <1>4

LEMMA FeeStep ==
  ASSUME FeeIsPerUnit, [QuestionNext]_questionVars
  PROVE  FeeIsPerUnit'
<1>1. CASE UNCHANGED questionVars
  BY <1>1 DEF questionVars, FeeIsPerUnit
<1>2. CASE asked'.about # "fee"
  BY <1>2 DEF FeeIsPerUnit
<1>3. ASSUME NEW long \in OI, NEW short \in OI, NEW size \in OI,
             NEW isLong \in BOOLEAN, NEW opening \in BOOLEAN,
             AskFee(long, short, size, isLong, opening)
      PROVE  FeeIsPerUnit'
  <2>1. /\ asked' = [about |-> "fee", long |-> long, short |-> short, size |-> size,
                     isLong |-> isLong, opening |-> opening]
        /\ answer' = IF opening THEN pair_open_maker_taker_fee_p(long, short, size, isLong)
                     ELSE pair_close_maker_taker_fee_p(long, short, size, isLong)
        /\ opening \/ size <= (IF isLong THEN long ELSE short)
        /\ long \in Nat /\ short \in Nat /\ size \in Nat \ {0}
    BY <1>3, CalculationsAssumption DEF AskFee, Asks, OI, CalculationsAssumption
  <2> SUFFICES ASSUME long > 0, short > 0 PROVE FeeIsPerUnit'
    BY <2>1 DEF FeeIsPerUnit
  <2> DEFINE excess == IF opening <=> isLong THEN short - long ELSE long - short
             toward == {k \in 1..size : k <= excess}
             makers == Cardinality(toward)
  <2>2. answer'.maker = makers /\ answer'.taker = size - makers
    <3>1. makers = IF excess <= 0 THEN 0 ELSE IF excess <= size THEN excess ELSE size
      BY <2>1, UnitsToward
    <3> DEFINE all == IF excess <= 0 THEN 0 ELSE IF excess <= size THEN excess ELSE size
    <3>2. answer'.maker = all /\ answer'.taker = size - all
      <4>1. long \in Nat \ {0} /\ short \in Nat \ {0} /\ size \in Nat \ {0}
        BY <2>1
      <4>2. opening \/ size <= (IF isLong THEN long ELSE short)
        BY <2>1
      <4> DEFINE fee == IF opening
                        THEN pair_open_maker_taker_fee_p(long, short, size, isLong)
                        ELSE pair_close_maker_taker_fee_p(long, short, size, isLong)
      <4>3. fee.maker = all /\ fee.taker = size - all
        BY <4>1, <4>2, FeeOfExcess
      <4> QED
        BY <2>1, <4>3
    <3> QED
      BY <3>1, <3>2
  <2> DEFINE rises == IF opening THEN isLong ELSE ~isLong
             Long(k) == IF isLong THEN long + (IF opening THEN k - 1 ELSE 1 - k) ELSE long
             Short(k) == IF isLong THEN short
                         ELSE short + (IF opening THEN k - 1 ELSE 1 - k)
             Toward(k) == IF rises THEN Long(k) < Short(k) ELSE Short(k) < Long(k)
  <2>3. \A k \in 1..size : Toward(k) <=> k <= excess
    BY <2>1
  <2>4. {k \in 1..size : Toward(k)} = toward
    BY <2>3
  <2>5. answer'.maker = Cardinality({k \in 1..size : Toward(k)})
    BY <2>2, <2>4
  <2>6. answer'.taker = size - Cardinality({k \in 1..size : Toward(k)})
    BY <2>2, <2>4
  <2> QED
    BY <2>1, <2>5, <2>6 DEF FeeIsPerUnit
<1> QED
  BY <1>1, <1>2, <1>3, OneQuestion

LEMMA DivisionFacts ==
  ASSUME NEW n \in Nat, NEW d \in Nat \ {0}
  PROVE  /\ n \div d \in Nat
         /\ d * (n \div d) <= n
         /\ n < d * ((n \div d) + 1)
OBVIOUS

\* Among more the same is a smaller part.
LEMMA PartFalls ==
  ASSUME NEW n \in Nat, NEW d \in Nat \ {0}
  PROVE  n \div (d + 1) <= n \div d
<1> DEFINE p == n \div d
           q == n \div (d + 1)
<1>1. /\ p \in Nat /\ n < d * (p + 1)
      /\ q \in Nat /\ (d + 1) * q <= n
  BY DivisionFacts
<1> HIDE DEF p, q
<1>2. (d + 1) * q = d * q + q
  BY <1>1
<1>3. d * q < d * (p + 1)
  BY <1>1, <1>2
<1>4. q < p + 1
  <2>1. q >= p + 1 => d * q >= d * (p + 1)
    BY <1>1
  <2> QED
    BY <1>1, <1>3, <2>1
<1> QED
  BY <1>1, <1>4 DEF p, q

LEMMA SkewLines ==
  ASSUME NEW long \in Nat, NEW short \in Nat, NEW size \in Nat, NEW isLong \in BOOLEAN,
         NEW lines \in Nat \ {0}
  PROVE  /\ skew_line(long, short, size, isLong, lines) \in 0..(lines - 1)
         /\ skew_line(long, short, size + 1, isLong, lines)
              <= skew_line(long, short, size, isLong, lines)
<1> DEFINE same == size + (IF isLong THEN long ELSE short)
           other == IF isLong THEN short ELSE long
           whole == IF same + other = 0 THEN 1 ELSE same + other
           next == same + 1 + other
           share == (100 * other) \div whole
           share1 == (100 * other) \div next
<1>1. /\ same \in Nat /\ other \in Nat /\ 100 * other \in Nat
      /\ whole \in Nat \ {0} /\ next \in Nat \ {0}
      /\ next = IF same + other = 0 THEN whole ELSE whole + 1
  OBVIOUS
<1>2. share \in Nat /\ share1 \in Nat
  BY <1>1, DivisionFacts
<1>3. share1 <= share
  <2>1. CASE same + other = 0
    BY <2>1
  <2>2. CASE same + other # 0
    <3>1. next = whole + 1
      BY <1>1, <2>2
    <3> HIDE DEF whole, next
    <3> QED
      BY <1>1, <3>1, PartFalls
  <2> QED
    BY <2>1, <2>2
<1>4. skew_line(long, short, size, isLong, lines) = Least(share \div 10, lines - 1)
  BY DEF skew_line
<1>5. skew_line(long, short, size + 1, isLong, lines) = Least(share1 \div 10, lines - 1)
  <2>1. /\ size + 1 + (IF isLong THEN long ELSE short) = same + 1
        /\ same + 1 + other # 0
    BY <1>1
  <2> QED
    BY <2>1 DEF skew_line
<1> HIDE DEF share, share1
<1>6. share \div 10 \in Nat /\ share1 \div 10 \in Nat /\ share1 \div 10 <= share \div 10
  BY <1>2, <1>3
<1> QED
  BY <1>4, <1>5, <1>6 DEF Least

LEMMA SkewStep ==
  ASSUME SkewLineIsListed, [QuestionNext]_questionVars
  PROVE  SkewLineIsListed'
<1>1. CASE UNCHANGED questionVars
  BY <1>1 DEF questionVars, SkewLineIsListed, skew_line, Least
<1>2. CASE asked'.about # "skew"
  BY <1>2 DEF SkewLineIsListed
<1>3. ASSUME NEW long \in OI, NEW short \in OI, NEW size \in OI,
             NEW isLong \in BOOLEAN, NEW lines \in {1, 4, 10},
             AskSkew(long, short, size, isLong, lines)
      PROVE  SkewLineIsListed'
  <2>1. /\ asked'.long = long /\ asked'.short = short /\ asked'.size = size
        /\ asked'.isLong = isLong /\ asked'.lines = lines
        /\ answer' = skew_line(long, short, size, isLong, lines)
        /\ long \in Nat /\ short \in Nat /\ size \in Nat /\ lines \in Nat \ {0}
    BY <1>3, CalculationsAssumption DEF AskSkew, Asks, OI, CalculationsAssumption
  <2>2. /\ answer' \in 0..(lines - 1)
        /\ skew_line(long, short, size + 1, isLong, lines) <= answer'
    BY <2>1, SkewLines
  <2>3. skew_line(asked.long, asked.short, asked.size + 1, asked.isLong, asked.lines)'
          = skew_line(long, short, size + 1, isLong, lines)
    BY <2>1 DEF skew_line
  <2> QED
    BY <2>1, <2>2, <2>3 DEF SkewLineIsListed
<1> QED
  BY <1>1, <1>2, <1>3, OneQuestion

\* On a book with both sides open, of any size, a trade is charged as maker and
\* taker unit by unit, and its line of the skew schedule is one that is listed
\* (maker_or_taker_fee_p and skew_adjusted_open_fee, compute/fees.py).
THEOREM FeesRight == QuestionSpec => []FeesFollowTheBook
<1>1. QuestionInit => FeeIsPerUnit /\ SkewLineIsListed
  BY DEF QuestionInit, FeeIsPerUnit, SkewLineIsListed
<1>2. FeeIsPerUnit /\ SkewLineIsListed /\ [QuestionNext]_questionVars
        => FeeIsPerUnit' /\ SkewLineIsListed'
  BY FeeStep, SkewStep
<1>3. FeeIsPerUnit /\ SkewLineIsListed => FeesFollowTheBook
  BY DEF FeesFollowTheBook
<1> QED
  BY <1>1, <1>2, <1>3, PTL DEF QuestionSpec

-----------------------------------------------------------------------------
(* Amounts *)

LEMMA ScaleOf ==
  ASSUME NEW mantissa \in Int, NEW digits \in Nat \ {0}, NEW factor \in Nat \ {0}
  PROVE  LET raw == scale(mantissa, digits, factor)
         IN  /\ raw \in Int
             /\ Magnitude(raw) * digits <= Magnitude(mantissa) * factor
             /\ Magnitude(mantissa) * factor < (Magnitude(raw) + 1) * digits
             /\ scale(-mantissa, digits, factor) = -raw
<1> DEFINE m == Magnitude(mantissa)
           n == m * factor
           q == n \div digits
<1>1. m \in Nat /\ n \in Nat
  BY DEF Magnitude
<1>2. q \in Nat /\ digits * q <= n /\ n < digits * (q + 1)
  <2> HIDE DEF n
  <2> QED
    BY <1>1, DivisionFacts
<1>3. scale(mantissa, digits, factor) = IF mantissa >= 0 THEN q ELSE -q
  BY DEF scale, Magnitude
<1>4. scale(-mantissa, digits, factor) = IF mantissa <= 0 THEN q ELSE -q
  BY DEF scale, Magnitude
<1>5. mantissa = 0 => q = 0
  <2>1. mantissa = 0 => n = 0
    BY DEF Magnitude
  <2> HIDE DEF n
  <2> QED
    BY <2>1
<1> HIDE DEF m, q
<1>6. Magnitude(scale(mantissa, digits, factor)) = q
  BY <1>2, <1>3 DEF Magnitude
<1>7. scale(mantissa, digits, factor) \in Int
  BY <1>2, <1>3
<1>8. scale(-mantissa, digits, factor) = -scale(mantissa, digits, factor)
  BY <1>2, <1>3, <1>4, <1>5
<1>9. digits * q = q * digits /\ digits * (q + 1) = (q + 1) * digits
  BY <1>2
<1> QED
  BY <1>2, <1>6, <1>7, <1>8, <1>9 DEF m

LEMMA TimesGrows ==
  ASSUME NEW factor \in Nat, NEW a \in Nat, NEW b \in Nat, a <= b
  PROVE  factor * a <= factor * b
<1>1. factor * b = factor * a + factor * (b - a)
  OBVIOUS
<1>2. factor * (b - a) >= 0
  OBVIOUS
<1> QED
  BY <1>1, <1>2

LEMMA NotionalOf ==
  ASSUME NEW collateral \in Nat, NEW leverage \in Nat
  PROVE  LET notional == position_size(collateral, leverage, 100)
         IN  notional \in Nat /\ notional * 100 <= collateral * leverage
<1> DEFINE whole == collateral * leverage
<1>1. whole \in Nat
  OBVIOUS
<1>2. position_size(collateral, leverage, 100) = whole \div 100
  BY DEF position_size
<1> HIDE DEF whole
<1>3. whole \div 100 \in Nat /\ (whole \div 100) * 100 <= whole
  BY <1>1
<1> QED
  BY <1>2, <1>3 DEF whole

LEMMA SizeOf ==
  ASSUME NEW notional \in Nat, NEW price \in Nat \ {0}
  PROVE  /\ usdc_to_coin(notional, price, 10, 100) \in Nat
         /\ usdc_to_coin(notional, price, 10, 100) * price * 10 <= notional * 10000
         /\ notional * 10000 < (usdc_to_coin(notional, price, 10, 100) + 1) * price * 10
<1> DEFINE n == notional * 10000
           part == n \div price
           units == part \div 10
<1>1. n \in Nat
  OBVIOUS
<1>2. part \in Nat /\ price * part <= n /\ n < price * (part + 1)
  <2> HIDE DEF n
  <2> QED
    BY <1>1, DivisionFacts
<1>3. units \in Nat /\ units * 10 <= part /\ part + 1 <= (units + 1) * 10
  <2> HIDE DEF part
  <2> QED
    BY <1>2
<1>4. usdc_to_coin(notional, price, 10, 100) = units
  <2>1. notional * 100 * 100 = n
    OBVIOUS
  <2> HIDE DEF n
  <2> QED
    BY <2>1, Zenon DEF usdc_to_coin, part, units
<1> HIDE DEF n, part, units
<1>5. /\ price * (units * 10) <= price * part
      /\ price * (part + 1) <= price * ((units + 1) * 10)
  BY <1>2, <1>3, TimesGrows
<1>6. /\ price * (units * 10) = units * price * 10
      /\ price * ((units + 1) * 10) = (units + 1) * price * 10
  BY <1>3
<1>7. units * price * 10 <= n /\ n < (units + 1) * price * 10
  BY <1>1, <1>2, <1>3, <1>5, <1>6
<1> QED
  BY <1>3, <1>4, <1>7 DEF n

LEMMA AmountsStep ==
  ASSUME SizeWithinUnit, ScaleExact, [QuestionNext]_questionVars
  PROVE  SizeWithinUnit' /\ ScaleExact'
<1>1. CASE UNCHANGED questionVars
  BY <1>1 DEF questionVars, SizeWithinUnit, ScaleExact, position_size, scale, Magnitude
<1>2. asked'.about # "size" => SizeWithinUnit'
  BY DEF SizeWithinUnit
<1>3. asked'.about # "scale" => ScaleExact'
  BY DEF ScaleExact
<1>4. ASSUME NEW usdBase \in BOOLEAN, NEW collateral \in Collaterals, NEW leverage \in Factors,
             NEW price \in Factors \union {0}, AskSize(usdBase, collateral, leverage, price)
      PROVE  SizeWithinUnit'
  <2> DEFINE notional == position_size(collateral, leverage, 100)
  <2>1. /\ asked'.usdBase = usdBase /\ asked'.collateral = collateral
        /\ asked'.leverage = leverage /\ asked'.price = price
        /\ answer' = size_in_asset(usdBase, collateral, leverage, price, 10, 100)
    BY <1>4 DEF AskSize, Asks
  <2>2. collateral \in Nat /\ leverage \in Nat /\ price \in Nat
    BY CalculationsAssumption DEF Collaterals, Factors
  <2>3. position_size(asked.collateral, asked.leverage, 100)' = notional
    BY <2>1 DEF position_size
  <2>4. notional \in Nat /\ notional * 100 <= collateral * leverage
    BY <2>2, NotionalOf
  <2>5. CASE usdBase
    <3>1. answer'[1] = notional /\ answer'[2] = 10 /\ asked'.usdBase
      BY <2>1, <2>5 DEF size_in_asset
    <3> HIDE DEF notional
    <3>2. /\ notional * 100 * 10 <= notional * 10 * 100
          /\ notional * 10 * 100 < (notional + 1) * 100 * 10
      BY <2>4
    <3>3. notional * 100 <= asked'.collateral * asked'.leverage
      BY <2>1, <2>4
    <3>4. (IF asked'.usdBase THEN 100 ELSE asked'.price) = 100
      BY <3>1
    <3>5. (IF asked'.usdBase THEN 10 ELSE 100) = 10
      BY <3>1
    <3> QED
      BY <2>3, <3>1, <3>2, <3>3, <3>4, <3>5 DEF SizeWithinUnit
  <2>6. CASE ~usdBase /\ price = 0
    <3>1. answer' = <<0, 1>>
      BY <2>1, <2>6 DEF size_in_asset
    <3> HIDE DEF notional
    <3> QED
      BY <2>1, <2>3, <2>4, <2>6, <3>1 DEF SizeWithinUnit
  <2>7. CASE ~usdBase /\ price # 0
    <3>1. usdBase = FALSE
      BY <2>7
    <3> DEFINE units == usdc_to_coin(notional, price, 10, 100)
    <3>2. answer'[2] = 100 /\ answer'[1] = units
      BY <2>1, <2>7, <3>1 DEF size_in_asset
    <3>3. /\ units \in Nat /\ units * price * 10 <= notional * 10000
          /\ notional * 10000 < (units + 1) * price * 10
      <4> HIDE DEF notional
      <4>1. price \in Nat \ {0}
        BY <2>2, <2>7
      <4> QED
        <5>1. notional \in Nat
          BY <2>4
        <5> HIDE DEF units
        <5>2. \A m \in Nat : units = usdc_to_coin(m, price, 10, 100) =>
                /\ units \in Nat /\ units * price * 10 <= m * 10000
                /\ m * 10000 < (units + 1) * price * 10
          BY <4>1, SizeOf
        <5> QED
          BY <5>1, <5>2 DEF units
    <3> HIDE DEF notional, units
    <3>4. notional * 100 * 100 = notional * 10000
      BY <2>4
    <3> QED
      BY <2>1, <2>3, <2>4, <2>7, <3>2, <3>3, <3>4 DEF SizeWithinUnit
  <2> QED
    BY <2>5, <2>6, <2>7
<1>5. ASSUME NEW mantissa \in Mantissas, NEW digits \in {1, 10, 1000}, NEW factor \in {10, 100},
             AskScale(mantissa, digits, factor)
      PROVE  ScaleExact'
  <2>1. /\ asked'.mantissa = mantissa /\ asked'.digits = digits
        /\ asked'.factor = factor
        /\ answer' = scale(mantissa, digits, factor)
    BY <1>5 DEF AskScale, Asks
  <2>2. mantissa \in Int /\ digits \in Nat \ {0} /\ factor \in Nat \ {0}
    BY CalculationsAssumption DEF Mantissas
  <2>3. /\ Magnitude(answer') * digits <= Magnitude(mantissa) * factor
        /\ Magnitude(mantissa) * factor < (Magnitude(answer') + 1) * digits
        /\ scale(-mantissa, digits, factor) = -answer'
    BY <2>1, <2>2, ScaleOf
  <2>4. /\ Magnitude(answer)' = Magnitude(answer')
        /\ Magnitude(asked.mantissa)' = Magnitude(mantissa)
        /\ scale(-asked.mantissa, asked.digits, asked.factor)'
             = scale(-mantissa, digits, factor)
    BY <2>1 DEF Magnitude, scale
  <2> QED
    BY <2>1, <2>3, <2>4 DEF ScaleExact
<1>6. asked'.about = "size" => UNCHANGED questionVars \/ SizeWithinUnit'
  BY <1>4, OneQuestion
<1>7. asked'.about = "scale" => UNCHANGED questionVars \/ ScaleExact'
  BY <1>5, OneQuestion
<1> QED
  BY <1>1, <1>2, <1>3, <1>6, <1>7

\* Amounts rounded down lose less than one unit, on either side of zero: the
\* size of a position and the raw units of an intent (account/models.py,
\* execution/local_intents.py).
THEOREM AmountsExact == QuestionSpec => []AmountsAreExact
<1>1. QuestionInit => SizeWithinUnit /\ ScaleExact
  BY DEF QuestionInit, SizeWithinUnit, ScaleExact
<1>2. SizeWithinUnit /\ ScaleExact => AmountsAreExact
  BY DEF AmountsAreExact
<1> QED
  BY <1>1, <1>2, AmountsStep, PTL DEF QuestionSpec

-----------------------------------------------------------------------------
(* Targets *)

\* What TargetsAreReached says of one answer.
Reached(base, collateral, percent, leverage, isLong, isUpside, feeP, fees) ==
  LET tp == tp_percent_to_price(base, percent, leverage, isLong, isUpside, feeP)
      sl == sl_percent_to_price(base, percent, leverage, isLong)
      liq == estimate_liquidation_price(base, collateral, leverage, isLong, fees)
      Gross(price) == gross_pnl(price, base, collateral, leverage, isLong)
      Times(n, x) == <<n * x[1], x[2]>>
      kept == Kept(isUpside, feeP)
  IN  /\ Equal(Times(IF kept = 0 THEN 100 ELSE kept, Gross(tp)), <<percent * collateral, 1>>)
      /\ Equal(Times(100, Gross(sl)), <<-percent * collateral, 1>>)
      /\ collateral > 0 =>
           Equal(Times(100, Gross(liq)), <<100 * fees - LIQ_THRESHOLD_P * collateral, 1>>)
      /\ kept > 0 =>
           Equal(tp_price_to_percent(base, tp, leverage, isLong, isUpside, feeP),
                 <<percent, 1>>)
      /\ Equal(sl_price_to_percent(base, sl, leverage, isLong), <<percent, 1>>)

\* For any price, percentage, leverage, collateral and fee of at most the whole.
LEMMA TargetsOf ==
  ASSUME NEW base \in Nat, NEW collateral \in Nat, NEW percent \in Nat,
         NEW leverage \in Nat, leverage > 0, NEW isLong \in BOOLEAN, NEW isUpside \in BOOLEAN,
         NEW feeP \in Nat, feeP <= 100, NEW fees \in Int
  PROVE  Reached(base, collateral, percent, leverage, isLong, isUpside, feeP, fees)
<1> DEFINE tp == tp_percent_to_price(base, percent, leverage, isLong, isUpside, feeP)
           sl == sl_percent_to_price(base, percent, leverage, isLong)
           liq == estimate_liquidation_price(base, collateral, leverage, isLong, fees)
           Gross(price) == gross_pnl(price, base, collateral, leverage, isLong)
           Times(n, x) == <<n * x[1], x[2]>>
           left == Kept(isUpside, feeP)
           kept == IF left = 0 THEN 100 ELSE left
           move == base * percent
           drop == base * (collateral * 85 - 100 * fees)
           unit == 100 * collateral * leverage
<1>1. /\ kept \in Int /\ move \in Int /\ leverage * kept \in Int
      /\ drop \in Int /\ unit \in Int /\ leverage * 100 \in Int
  BY DEF Kept
<1>2. /\ tp[2] = leverage * kept
      /\ tp[1] = base * (leverage * kept) + (IF isLong THEN move ELSE -move)
  <2>1. Kept(isUpside /\ feeP < 100, feeP) = kept
    BY DEF Kept
  <2> HIDE DEF kept
  <2> QED
    BY <2>1 DEF tp_percent_to_price, Offset, At
<1>3. /\ sl[2] = leverage * 100
      /\ sl[1] = base * (leverage * 100) + (IF isLong THEN -move ELSE move)
  BY DEF sl_percent_to_price, Offset, At
<1>4. collateral > 0 =>
        /\ liq[2] = unit
        /\ liq[1] = base * unit + (IF isLong THEN -drop ELSE drop)
  <2> SUFFICES ASSUME collateral > 0
               PROVE  /\ liq[2] = unit
                      /\ liq[1] = base * unit + (IF isLong THEN -drop ELSE drop)
    OBVIOUS
  <2>1. ~(collateral * leverage <= 0)
    OBVIOUS
  <2>2. liq = At(base, <<base * (collateral * LIQ_THRESHOLD_P - 100 * fees),
                         100 * collateral * leverage>>, ~isLong)
    BY <2>1 DEF estimate_liquidation_price
  <2> HIDE DEF liq
  <2> QED
    BY <2>2 DEF At, LIQ_THRESHOLD_P
<1> HIDE DEF tp, sl, liq, kept, left, move, drop, unit
<1>5. /\ Gross(tp) = <<move * leverage * collateral, base * (leverage * kept)>>
      /\ (tp[1] - base * tp[2]) * Direction(isLong) = move
  <2> DEFINE start == base * (leverage * kept)
  <2>1. start \in Int
    BY <1>1
  <2>2. base * tp[2] = start
    BY <1>2
  <2>3. tp[1] = start + (IF isLong THEN move ELSE -move)
    BY <1>2
  <2> HIDE DEF start
  <2>4. /\ (tp[1] - start) * Direction(isLong) = move
        /\ (start - tp[1]) * Direction(isLong) = -move
    BY <1>1, <2>1, <2>3 DEF Direction
  <2>5. Gross(tp) = <<move * leverage * collateral, start>>
    BY <2>2, <2>4 DEF gross_pnl
  <2> QED
    BY <2>2, <2>4, <2>5 DEF start
<1>6. /\ Gross(sl) = <<(-move) * leverage * collateral, base * (leverage * 100)>>
      /\ (base * sl[2] - sl[1]) * Direction(isLong) = move
  <2> DEFINE start == base * (leverage * 100)
  <2>1. start \in Int
    BY <1>1
  <2>2. base * sl[2] = start
    BY <1>3
  <2>3. sl[1] = start + (IF isLong THEN -move ELSE move)
    BY <1>3
  <2> HIDE DEF start
  <2>4. /\ (sl[1] - start) * Direction(isLong) = (-move)
        /\ (start - sl[1]) * Direction(isLong) = move
    BY <1>1, <2>1, <2>3 DEF Direction
  <2>5. Gross(sl) = <<(-move) * leverage * collateral, start>>
    BY <2>2, <2>4 DEF gross_pnl
  <2> QED
    BY <2>2, <2>4, <2>5 DEF start
<1>7. ASSUME collateral > 0
      PROVE  /\ Gross(liq) = <<(-drop) * leverage * collateral, base * unit>>
             /\ (base * liq[2] - liq[1]) * Direction(isLong) = drop
  <2> DEFINE start == base * unit
  <2>1. start \in Int
    BY <1>1
  <2>2. base * liq[2] = start
    BY <1>4, <1>7
  <2>3. liq[1] = start + (IF isLong THEN -drop ELSE drop)
    BY <1>4, <1>7
  <2> HIDE DEF start
  <2>4. /\ (liq[1] - start) * Direction(isLong) = (-drop)
        /\ (start - liq[1]) * Direction(isLong) = drop
    BY <1>1, <2>1, <2>3 DEF Direction
  <2>5. Gross(liq) = <<(-drop) * leverage * collateral, start>>
    BY <2>2, <2>4 DEF gross_pnl
  <2> QED
    BY <2>2, <2>4, <2>5 DEF start
<1>8. Equal(Times(kept, Gross(tp)), <<percent * collateral, 1>>)
  BY <1>1, <1>5 DEF Equal, move
<1>9. Equal(Times(100, Gross(sl)), <<-percent * collateral, 1>>)
  BY <1>1, <1>6 DEF Equal, move
<1>10. collateral > 0 =>
         Equal(Times(100, Gross(liq)), <<100 * fees - LIQ_THRESHOLD_P * collateral, 1>>)
  BY <1>1, <1>7 DEF Equal, LIQ_THRESHOLD_P, drop, unit
<1>11. ASSUME left > 0
       PROVE  Equal(tp_price_to_percent(base, tp, leverage, isLong, isUpside, feeP),
                    <<percent, 1>>)
  <2>1. kept = Kept(isUpside, feeP)
    BY <1>11 DEF kept, left
  <2>2. tp_price_to_percent(base, tp, leverage, isLong, isUpside, feeP)
          = <<move * leverage * kept, base * (leverage * kept)>>
    BY <1>2, <1>5, <2>1 DEF tp_price_to_percent
  <2> QED
    BY <1>1, <2>2 DEF Equal, move
<1>12. Equal(sl_price_to_percent(base, sl, leverage, isLong), <<percent, 1>>)
  BY <1>1, <1>3, <1>6 DEF Equal, sl_price_to_percent, move
<1> QED
  BY <1>8, <1>9, <1>10, <1>11, <1>12, Zenon DEF Reached, tp, sl, liq, kept, left

LEMMA TargetsStep ==
  ASSUME TargetsAreReached, [QuestionNext]_questionVars
  PROVE  TargetsAreReached'
<1>1. CASE UNCHANGED questionVars
  BY <1>1 DEF questionVars, TargetsAreReached, gross_pnl, tp_price_to_percent, sl_price_to_percent,
     Equal, Kept
<1>2. CASE asked'.about # "targets"
  BY <1>2 DEF TargetsAreReached
<1>3. ASSUME NEW collateral \in {0, 10}, NEW percent \in {1, 10, 85, 250},
             NEW leverage \in {1, 3, 20}, NEW isLong \in BOOLEAN, NEW isUpside \in BOOLEAN,
             NEW feeP \in {0, 15, 80, 100}, NEW fees \in {0, 2},
             AskTargets(collateral, percent, leverage, isLong, isUpside, feeP, fees)
      PROVE  TargetsAreReached'
  <2> DEFINE base == 7
             tp == tp_percent_to_price(base, percent, leverage, isLong, isUpside, feeP)
             sl == sl_percent_to_price(base, percent, leverage, isLong)
             liq == estimate_liquidation_price(base, collateral, leverage, isLong, fees)
             Gross(price) == gross_pnl(price, base, collateral, leverage, isLong)
             Times(n, x) == <<n * x[1], x[2]>>
             kept == Kept(isUpside, feeP)
  <2>1. /\ asked' = [about |-> "targets", base |-> base, collateral |-> collateral,
                     percent |-> percent, leverage |-> leverage, isLong |-> isLong,
                     isUpside |-> isUpside, feeP |-> feeP, fees |-> fees]
        /\ answer' = [tp |-> tp, sl |-> sl, liq |-> liq]
    BY <1>3 DEF AskTargets, Asks
  <2>2. /\ percent \in Nat /\ leverage \in Nat /\ leverage > 0
        /\ feeP \in Nat /\ feeP <= 100 /\ fees \in Int
        /\ base \in Nat /\ collateral \in Nat
    OBVIOUS
  <2> HIDE DEF base
  <2>3. Reached(base, collateral, percent, leverage, isLong, isUpside, feeP, fees)
    BY <2>2, TargetsOf
  <2>4. /\ Equal(Times(IF kept = 0 THEN 100 ELSE kept, Gross(tp)),
                 <<percent * collateral, 1>>)
        /\ Equal(Times(100, Gross(sl)), <<-percent * collateral, 1>>)
        /\ collateral > 0 =>
             Equal(Times(100, Gross(liq)),
                   <<100 * fees - LIQ_THRESHOLD_P * collateral, 1>>)
        /\ kept > 0 =>
             Equal(tp_price_to_percent(base, tp, leverage, isLong, isUpside, feeP),
                   <<percent, 1>>)
        /\ Equal(sl_price_to_percent(base, sl, leverage, isLong), <<percent, 1>>)
    BY <2>3 DEF Reached
  <2> HIDE DEF tp, sl, liq
  <2> QED
    BY <2>1, <2>4
       DEF TargetsAreReached, Equal, gross_pnl, tp_price_to_percent, sl_price_to_percent,
           Kept
<1> QED
  BY <1>1, <1>2, <1>3, OneQuestion

\* A position has made at the price of its take profit, its stop loss and its
\* liquidation what was asked for, and the prices read back as the percentages
\* (compute/tpsl.py, compute/liquidation.py).
THEOREM TargetsReached == QuestionSpec => []TargetsAreReached
<1>1. QuestionInit => TargetsAreReached
  BY DEF QuestionInit, TargetsAreReached
<1> QED
  BY <1>1, TargetsStep, PTL DEF QuestionSpec

-----------------------------------------------------------------------------
(* Profits *)

LEMMA LeastNatural ==
  ASSUME NEW T \in SUBSET Nat, T # {}
  PROVE  \E n \in T : \A m \in T : n <= m
<1> DEFINE Below == {ss \in Nat \X Nat : ss[1] < ss[2]}
<1>1. IsWellFoundedOn(Below, Nat)
  BY NatLessThanWellFounded DEF OpToRel
<1>2. \E n \in T : \A m \in T : ~(<<m, n>> \in Below)
  <2>1. T \subseteq Nat
    OBVIOUS
  <2> HIDE DEF Below
  <2> QED
    BY <1>1, <2>1, WFMin, Zenon
<1>3. PICK n \in T : \A m \in T : ~(<<m, n>> \in Below)
  BY <1>2
<1>4. ASSUME NEW m \in T
      PROVE  n <= m
  <2>1. m \in Nat /\ n \in Nat /\ <<m, n>> \in Nat \X Nat
    OBVIOUS
  <2>2. ~(<<m, n>>[1] < <<m, n>>[2])
    BY <1>3, <2>1
  <2> QED
    BY <2>1, <2>2
<1> QED
  BY <1>4

LEMMA GreatestIndex ==
  ASSUME NEW n \in Nat, NEW T \in SUBSET (1..n), T # {}
  PROVE  \E i \in T : \A j \in T : j <= i
<1> DEFINE Rest == {n - i : i \in T}
<1>1. Rest \in SUBSET Nat /\ Rest # {}
  <2>1. \A i \in T : n - i \in Nat
    OBVIOUS
  <2>2. PICK i \in T : TRUE
    OBVIOUS
  <2>3. n - i \in Rest
    BY <2>2
  <2> QED
    BY <2>1, <2>3
<1>2. PICK r \in Rest : \A m \in Rest : r <= m
  <2> HIDE DEF Rest
  <2> QED
    BY <1>1, LeastNatural
<1>3. PICK i \in T : r = n - i
  BY <1>2
<1>4. \A j \in T : n - i <= n - j
  BY <1>2, <1>3
<1> QED
  BY <1>4

Percents == {p \in Int : 0 <= p /\ p <= 100}

\* For any tiers, and fees that do not rise from tier to tier.
LEMMA FeeFalls ==
  ASSUME NEW tiers \in Seq(Int), NEW fees \in Seq(Percents), NonIncreasing(fees),
         NEW low \in Int, NEW high \in Int, low <= high
  PROVE  /\ pnl_fee_by_gross_profit_p(tiers, low, fees) \in Percents
         /\ pnl_fee_by_gross_profit_p(tiers, high, fees)
              <= pnl_fee_by_gross_profit_p(tiers, low, fees)
<1> DEFINE Met(profit) == MetTiers(tiers, profit)
           Last(profit) == CHOOSE i \in Met(profit) : \A k \in Met(profit) : k <= i
           Fee(i) == IF i <= Len(fees) THEN fees[i] ELSE 0
           Charged(profit) == pnl_fee_by_gross_profit_p(tiers, profit, fees)
<1> USE DEF Percents
<1>1. Len(fees) \in Nat /\ \A i \in 1..Len(fees) : fees[i] \in Percents
  <2> HIDE DEF Percents
  <2> QED
    OBVIOUS
<1>2. \A i, j \in Nat \ {0} : i <= j => Fee(i) \in Percents /\ Fee(j) <= Fee(i)
  <2> SUFFICES ASSUME NEW i \in Nat \ {0}, NEW j \in Nat \ {0}, i <= j
               PROVE  Fee(i) \in Percents /\ Fee(j) <= Fee(i)
    OBVIOUS
  <2>1. j <= Len(fees) => fees[j] <= fees[i]
    BY <1>1 DEF NonIncreasing
  <2>2. /\ i <= Len(fees) => fees[i] \in Percents
        /\ j <= Len(fees) => fees[j] \in Percents
    BY <1>1
  <2> QED
    BY <1>1, <2>1, <2>2
<1>3. ASSUME NEW profit \in {low, high}, Met(profit) # {}
      PROVE  /\ Last(profit) \in Met(profit) /\ Last(profit) \in Nat \ {0}
             /\ \A k \in Met(profit) : k <= Last(profit)
             /\ Charged(profit) = Fee(Last(profit))
  <2>1. Met(profit) \in SUBSET (1..Len(tiers)) /\ Len(tiers) \in Nat
    BY DEF MetTiers
  <2>2. \E i \in Met(profit) : \A k \in Met(profit) : k <= i
    <3> HIDE DEF Met
    <3> QED
      BY <1>3, <2>1, GreatestIndex
  <2>3. Last(profit) \in Met(profit) /\ \A k \in Met(profit) : k <= Last(profit)
    BY <2>2
  <2>4. Charged(profit) = Fee(Last(profit))
    BY <1>3 DEF pnl_fee_by_gross_profit_p
  <2> QED
    BY <2>1, <2>3, <2>4
<1>4. ASSUME NEW profit \in {low, high}, Met(profit) = {}
      PROVE  Charged(profit) = Fee(1)
  BY <1>4 DEF pnl_fee_by_gross_profit_p
<1>5. Met(low) \subseteq Met(high)
  BY DEF MetTiers
<1> HIDE DEF Met, Fee, Charged, Last
<1>6. CASE Met(low) = {} /\ Met(high) = {}
  BY <1>2, <1>4, <1>6 DEF Charged
<1>7. CASE Met(low) = {} /\ Met(high) # {}
  <2>1. Charged(low) = Fee(1) /\ Charged(high) = Fee(Last(high))
    BY <1>3, <1>4, <1>7
  <2>2. 1 \in Nat \ {0} /\ Last(high) \in Nat \ {0} /\ 1 <= Last(high)
    BY <1>3, <1>7
  <2>3. Fee(1) \in Percents /\ Fee(Last(high)) <= Fee(1)
    BY <1>2, <2>2
  <2> QED
    BY <2>1, <2>3 DEF Charged
<1>8. CASE Met(low) # {}
  <2>1. Last(low) \in Met(high) /\ Last(low) <= Last(high)
    BY <1>3, <1>5, <1>8
  <2> QED
    BY <1>2, <1>3, <1>5, <1>8, <2>1 DEF Charged
<1> QED
  BY <1>5, <1>6, <1>7, <1>8

LEMMA FeeIsPart ==
  ASSUME NEW tiers \in Seq(Int), NEW fees \in Seq(Percents), NonIncreasing(fees),
         NEW profit \in Int
  PROVE  pnl_fee_by_gross_profit_p(tiers, profit, fees) \in Percents
<1>1. profit <= profit
  OBVIOUS
<1> QED
  BY <1>1, FeeFalls

LEMMA UpsideNetRises ==
  ASSUME NEW tiers \in Seq(Int), NEW fees \in Seq(Percents), NonIncreasing(fees),
         NEW low \in Int, NEW high \in Int, low <= high
  PROVE  UpsideNet(low, tiers, fees) <= UpsideNet(high, tiers, fees)
<1> DEFINE less == 100 - pnl_fee_by_gross_profit_p(tiers, low, fees)
           more == 100 - pnl_fee_by_gross_profit_p(tiers, high, fees)
<1>1. low \in Int /\ high \in Int /\ less \in Nat /\ more \in Nat /\ less <= more
  <2>1. high <= high
    OBVIOUS
  <2>2. /\ pnl_fee_by_gross_profit_p(tiers, low, fees) \in Percents
        /\ pnl_fee_by_gross_profit_p(tiers, high, fees)
             <= pnl_fee_by_gross_profit_p(tiers, low, fees)
    BY FeeFalls
  <2>3. pnl_fee_by_gross_profit_p(tiers, high, fees) \in Percents
    BY <2>1, FeeFalls
  <2> QED
    BY <2>2, <2>3 DEF Percents
<1>2. /\ UpsideNet(low, tiers, fees) = IF low > 0 THEN low * less ELSE low * 100
      /\ UpsideNet(high, tiers, fees) = IF high > 0 THEN high * more ELSE high * 100
  BY DEF UpsideNet
<1> HIDE DEF less, more
<1>3. CASE high <= 0
  BY <1>1, <1>2, <1>3
<1>4. CASE low <= 0 /\ high > 0
  <2>1. high * more >= 0
    BY <1>1, <1>4
  <2> QED
    BY <1>1, <1>2, <1>4, <2>1
<1>5. CASE low > 0
  <2>1. low \in Nat /\ high \in Nat
    BY <1>1, <1>5
  <2>2. low * less <= low * more
    BY <1>1, <2>1, TimesGrows
  <2>3. more * low <= more * high
    BY <1>1, <2>1, TimesGrows
  <2>4. more * low = low * more /\ more * high = high * more
    BY <1>1
  <2>5. low * less <= high * more
    <3>1. {low * less, low * more, high * more} \subseteq Int
      BY <1>1
    <3> QED
      BY <2>2, <2>3, <2>4, <3>1
  <2> QED
    BY <1>1, <1>2, <1>5, <2>5
<1> QED
  BY <1>1, <1>3, <1>4, <1>5

\* For any collateral and leverage, and a fee and a protection that leave
\* something of a loss to the trader.
LEMMA FixedNetRises ==
  ASSUME NEW collateral \in Nat, NEW leverage \in Nat, NEW feeP \in Nat,
         NEW protectionP \in Nat, feeP + protectionP <= 100,
         NEW low \in Int, NEW high \in Int, low <= high
  PROVE  FixedNet(low, collateral, leverage, feeP, protectionP)
           <= FixedNet(high, collateral, leverage, feeP, protectionP)
<1> DEFINE Loss(gross) == IF gross < 0
                          THEN IF -gross < collateral THEN -gross ELSE collateral
                          ELSE 0
           Net(gross) == FixedNet(gross, collateral, leverage, feeP, protectionP)
           whole == collateral * leverage
           rise == high - low
           saved == Loss(low) - Loss(high)
<1>1. /\ whole \in Int /\ rise \in Nat /\ saved \in Nat /\ saved <= rise
      /\ Loss(low) \in Nat /\ Loss(high) \in Nat /\ high = low + rise
      /\ Loss(low) = Loss(high) + saved
  OBVIOUS
<1>2. ASSUME NEW gross \in Int
      PROVE  Net(gross) = gross * 10000 - (whole + gross) * feeP * 100
                            + 100 * protectionP * Loss(gross)
  <2>1. 100 * protectionP * 0 = 0
    OBVIOUS
  <2> QED
    BY <2>1 DEF FixedNet
<1> HIDE DEF Loss, Net, whole, rise, saved
<1>3. /\ low * 10000 + rise * 10000 = high * 10000
      /\ (whole + high) * feeP * 100 = (whole + low) * feeP * 100 + rise * feeP * 100
      /\ 100 * protectionP * Loss(low)
           = 100 * protectionP * Loss(high) + 100 * (protectionP * saved)
  BY <1>1
<1>4. /\ protectionP * saved <= protectionP * rise
      /\ rise * (feeP + protectionP) <= rise * 100
  <2>1. feeP + protectionP \in Nat /\ 100 \in Nat
    OBVIOUS
  <2> QED
    BY <1>1, <2>1, TimesGrows
<1>5. rise * (feeP + protectionP) = rise * feeP + protectionP * rise
  BY <1>1
<1>6. Net(low) <= Net(high)
  <2> DEFINE a == (whole + low) * feeP * 100
             b == 100 * protectionP * Loss(high)
             c == protectionP * saved
             d == rise * feeP
  <2>1. a \in Int /\ b \in Int /\ c \in Int /\ d \in Int /\ protectionP * rise \in Int
    BY <1>1
  <2>2. Net(low) = low * 10000 - a + (b + 100 * c)
    BY <1>2, <1>3
  <2>3. Net(high) = (low * 10000 + rise * 10000) - (a + rise * feeP * 100) + b
    BY <1>2, <1>3
  <2>4. rise * feeP * 100 = 100 * d
    BY <1>1
  <2>5. c + d <= rise * 100
    BY <1>1, <1>4, <1>5, <2>1
  <2> HIDE DEF a, b, c, d
  <2> QED
    BY <1>1, <2>1, <2>2, <2>3, <2>4, <2>5
<1> QED
  BY <1>6 DEF Net

LEMMA SchedulesOf ==
  Tiers \in Seq(Int) /\ \A fees \in Fees : fees \in Seq(Percents)
<1>1. Tiers \in Seq(Int)
  BY DEF Tiers
<1>2. \A a, b, c \in Percents : /\ <<a, b, c>> \in Seq(Percents)
                              /\ <<a, b>> \in Seq(Percents)
                              /\ <<>> \in Seq(Percents)
  OBVIOUS
<1>3. {80, 60, 50, 45, 20, 10} \subseteq Percents
  BY DEF Percents
<1>4. /\ <<80, 50, 45>> \in Seq(Percents) /\ <<60, 60, 10>> \in Seq(Percents)
      /\ <<50, 20>> \in Seq(Percents) /\ <<>> \in Seq(Percents)
  BY <1>2, <1>3
<1> QED
  BY <1>1, <1>4, Zenon DEF Fees

LEMMA ProfitsStep ==
  ASSUME NetRisesWithGross, [QuestionNext]_questionVars
  PROVE  NetRisesWithGross'
<1>1. CASE UNCHANGED questionVars
  BY <1>1 DEF questionVars, NetRisesWithGross, NonIncreasing
<1>2. CASE asked'.about \notin {"profits", "net", "order"}
  BY <1>2 DEF NetRisesWithGross
<1>3. ASSUME NEW fees \in Fees, NEW maxGain \in 1..30, AskProfits(fees, maxGain)
      PROVE  NetRisesWithGross'
  <2> DEFINE net == [gross \in -maxGain..maxGain |-> UpsideNet(gross, Tiers, fees)]
  <2>1. asked' = [about |-> "profits", fees |-> fees] /\ answer' = net
    BY <1>3 DEF AskProfits, Asks
  <2>2. Tiers \in Seq(Int) /\ fees \in Seq(Percents)
    BY SchedulesOf
  <2>3. maxGain \in Nat \ {0}
    OBVIOUS
  <2>4. ASSUME NEW low \in -maxGain..maxGain, NEW high \in -maxGain..maxGain,
               low <= high, NonIncreasing(fees)
        PROVE  net[low] <= net[high]
    <3>1. UpsideNet(low, Tiers, fees) <= UpsideNet(high, Tiers, fees)
      <4>1. low \in Int /\ high \in Int
        BY <2>3
      <4> QED
        BY <2>2, <2>4, <4>1, UpsideNetRises
    <3> QED
      BY <3>1
  <2> HIDE DEF net
  <2>5. DOMAIN net = -maxGain..maxGain
    BY DEF net
  <2> QED
    BY <2>1, <2>4, <2>5 DEF NetRisesWithGross, NonIncreasing
<1>4. ASSUME NEW collateral \in {10}, NEW leverage \in {1, 20}, NEW feeP \in {0, 1},
             NEW protectionP \in {0, 20, 99},
             AskNet(collateral, leverage, feeP, protectionP)
      PROVE  NetRisesWithGross'
  <2> DEFINE net == [gross \in -(2 * collateral)..collateral |->
                       FixedNet(gross, collateral, leverage, feeP, protectionP)]
  <2>1. /\ asked' = [about |-> "net", collateral |-> collateral, protectionP |-> protectionP]
        /\ answer' = net
    BY <1>4 DEF AskNet, Asks
  <2>2. /\ collateral \in Nat /\ leverage \in Nat /\ feeP \in Nat /\ protectionP \in Nat
        /\ feeP + protectionP <= 100
    OBVIOUS
  <2>3. ASSUME NEW low \in -(2 * collateral)..collateral,
               NEW high \in -(2 * collateral)..collateral, low <= high
        PROVE  net[low] <= net[high]
    <3>1. low \in Int /\ high \in Int
      BY <2>2
    <3>2. FixedNet(low, collateral, leverage, feeP, protectionP)
            <= FixedNet(high, collateral, leverage, feeP, protectionP)
      BY <2>2, <2>3, <3>1, FixedNetRises
    <3> QED
      BY <3>2
  <2> HIDE DEF net
  <2>4. DOMAIN net = -(2 * collateral)..collateral
    BY DEF net
  <2> QED
    BY <2>1, <2>3, <2>4 DEF NetRisesWithGross
<1>5. ASSUME NEW pair \in AskedPairs, NEW order \in Orders, NEW caps \in OrderCaps,
             NEW book \in OrderBooks, AskValidation(pair, order, caps, book)
      PROVE  NetRisesWithGross'
  <2>1. /\ asked'.about = "order" /\ asked'.pair = pair /\ asked'.order = order
        /\ answer' = validate_order(pair, order, caps, book)
    BY <1>5 DEF AskValidation, Asks
  <2>2. ASSUME answer' = {}, order.upside
        PROVE  order.takeProfit <= 10 * UpsideNet(pair.maxGain, pair.tiers, pair.fees)
    <3>1. TakeProfitErrors(pair, order) = {}
      BY <2>1, <2>2 DEF validate_order
    <3>2. order.takeProfit \in Int /\ pair.maxGain = 500
      BY DEF Orders, AskedPairs, AskedPair, NotGiven
    <3>3. order.takeProfit = NotGiven \/ ~(order.takeProfit > MaxTakeProfit(pair, order))
      BY <3>1 DEF TakeProfitErrors
    <3>4. PICK shares \in BOOLEAN :
            /\ pair.tiers = IF shares THEN Tiers ELSE <<>>
            /\ pair.fees = IF shares THEN <<80, 50, 45>> ELSE <<>>
      BY DEF AskedPairs, AskedPair
    <3>5. CASE shares
      <4> DEFINE fee == pnl_fee_by_gross_profit_p(pair.tiers, 500, pair.fees)
      <4>1. /\ pair.tiers = Tiers /\ pair.fees = <<80, 50, 45>>
            /\ Tiers # <<>> /\ NonIncreasing(pair.fees)
        BY <3>4, <3>5 DEF Tiers, NonIncreasing
      <4>2. fee \in Int /\ fee <= 100
        <5>1. pair.tiers \in Seq(Int) /\ pair.fees \in Seq(Percents)
          BY <4>1, SchedulesOf DEF Fees
        <5>2. fee \in Percents
          <6>1. 500 \in Int
            OBVIOUS
          <6>2. NonIncreasing(pair.fees)
            BY <4>1
          <6>3. pnl_fee_by_gross_profit_p(pair.tiers, 500, pair.fees) \in Percents
            BY <5>1, <6>1, <6>2, FeeIsPart
          <6> QED
            BY <6>3
        <5> QED
          BY <5>2 DEF Percents
      <4>3. MaxTakeProfit(pair, order) = 10 * (500 * (100 - fee))
        BY <2>2, <3>2, <4>1 DEF MaxTakeProfit, adjusted_max_gain_p
      <4>4. UpsideNet(pair.maxGain, pair.tiers, pair.fees) = 500 * (100 - fee)
        BY <3>2 DEF UpsideNet
      <4> HIDE DEF fee
      <4> QED
        BY <3>2, <3>3, <4>2, <4>3, <4>4 DEF NotGiven
    <3>6. CASE ~shares
      <4>1. MetTiers(<<>>, 500) = {}
        BY DEF MetTiers
      <4>2. UpsideNet(pair.maxGain, pair.tiers, pair.fees) = 50000
        BY <3>2, <3>4, <3>6, <4>1 DEF UpsideNet, pnl_fee_by_gross_profit_p
      <4>3. MaxTakeProfit(pair, order) = 500000
        BY <3>2, <3>4, <3>6 DEF MaxTakeProfit
      <4> QED
        BY <3>2, <3>3, <4>2, <4>3 DEF NotGiven
    <3> QED
      BY <3>5, <3>6
  <2> QED
    BY <2>1, <2>2 DEF NetRisesWithGross
<1> QED
  BY <1>1, <1>2, <1>3, <1>4, <1>5, OneQuestion

\* A higher gross profit never nets less, in any tier of the profit share and
\* at any part of the loss protection, and a take profit that is accepted is
\* netted within the highest gain (compute/pnl.py, compute/validation.py).
THEOREM NetRises == QuestionSpec => []NetRisesWithGross
<1>1. QuestionInit => NetRisesWithGross
  BY DEF QuestionInit, NetRisesWithGross
<1> QED
  BY <1>1, ProfitsStep, PTL DEF QuestionSpec

-----------------------------------------------------------------------------
(* Pairs *)

\* Symbols and pairs over any names.
Syms(names) == [name : names, upside : BOOLEAN]

Entries(names) == [from : Syms(names), to : Syms(names), feed : Nat]

\* A catalog of any length that lists no symbol twice.
Unambiguous(catalog, names) ==
  \E n \in Nat :
    /\ catalog \in [1..n -> Entries(names)]
    /\ \A i, j \in 1..n : symbol(catalog[i]) = symbol(catalog[j]) => i = j

LEMMA CatalogsAreUnambiguous ==
  ASSUME NEW catalog \in Catalogs
  PROVE  Unambiguous(catalog, Names)
<1>1. ListedPairs \subseteq Entries(Names)
  <2>1. /\ Plain("BTC") \in Syms(Names) /\ Upside("BTC") \in Syms(Names) /\ USD \in Syms(Names)
        /\ Plain("JPY") \in Syms(Names) /\ Upside("JPY") \in Syms(Names)
    <3>1. \A name \in Names : Plain(name) \in Syms(Names) /\ Upside(name) \in Syms(Names)
      BY DEF Plain, Upside, Syms
    <3>2. "BTC" \in Names /\ "JPY" \in Names /\ "USD" \in Names
      BY DEF Names
    <3> QED
      BY <3>1, <3>2 DEF USD
  <2>2. \A from, to \in Syms(Names), feed \in Nat : Listed(from, to, feed) \in Entries(Names)
    BY DEF Listed, Entries
  <2>3. NoFeed \in Nat /\ 1 \in Nat /\ 2 \in Nat
    BY DEF NoFeed
  <2> QED
    BY <2>1, <2>2, <2>3, Zenon DEF ListedPairs
<1>2. PICK n \in 1..MaxPairs : catalog \in [1..n -> ListedPairs]
  BY DEF Catalogs
<1>3. n \in Nat /\ catalog \in [1..n -> Entries(Names)] /\ DOMAIN catalog = 1..n
  BY <1>1, <1>2, CalculationsAssumption
<1>4. \A i, j \in 1..n : symbol(catalog[i]) = symbol(catalog[j]) => i = j
  BY <1>3 DEF Catalogs
<1> QED
  BY <1>3, <1>4 DEF Unambiguous

LEMMA FirstIsMember ==
  ASSUME NEW T \in SUBSET Nat, T # {}
  PROVE  First(T) \in T
<1>1. \E n \in T : \A m \in T : n <= m
  BY LeastNatural
<1> QED
  BY <1>1 DEF First

LEMMA OnlyOne ==
  ASSUME NEW T \in SUBSET Nat, NEW i \in T, \A j \in T : j = i
  PROVE  First(T) = i
BY FirstIsMember

\* A symbol that is listed names its pair.
LEMMA OwnSymbolNames ==
  ASSUME NEW names, NEW catalog, Unambiguous(catalog, names), NEW ref, ref.sep = "/",
         NEW i \in DOMAIN catalog, symbol(catalog[i]) = <<ref.from, ref.to>>
  PROVE  pair_by_symbol(catalog, ref) = i
<1>1. PICK n \in Nat : /\ catalog \in [1..n -> Entries(names)]
                       /\ \A k, j \in 1..n : symbol(catalog[k]) = symbol(catalog[j]) => k = j
  BY DEF Unambiguous
<1>2. /\ Exact(catalog, ref) \in SUBSET Nat /\ i \in Exact(catalog, ref)
      /\ \A j \in Exact(catalog, ref) : j = i
  BY <1>1 DEF Exact
<1>3. First(Exact(catalog, ref)) = i
  BY <1>2, OnlyOne
<1> QED
  BY <1>2, <1>3 DEF pair_by_symbol

\* A reference without an Upside symbol finds one only as the one pair of its
\* base.
LEMMA UpsideFoundByBase ==
  ASSUME NEW names, NEW catalog, Unambiguous(catalog, names), NEW ref,
         ~ref.from.upside, ~ref.to.upside,
         pair_by_symbol(catalog, ref) # 0,
         is_upside(catalog[pair_by_symbol(catalog, ref)])
  PROVE  BaseMatches(catalog, ref) = {pair_by_symbol(catalog, ref)}
<1> DEFINE exact == Exact(catalog, ref)
           bases == BaseMatches(catalog, ref)
           inUsd == {i \in bases : catalog[i].to = USD}
           rewritten == Rewritten(catalog, ref)
           found == pair_by_symbol(catalog, ref)
<1>1. PICK n \in Nat : catalog \in [1..n -> Entries(names)]
  BY DEF Unambiguous
<1>2. /\ exact \in SUBSET Nat /\ bases \in SUBSET Nat /\ inUsd \in SUBSET Nat
      /\ rewritten \in SUBSET Nat
  BY <1>1 DEF Exact, BaseMatches, Rewritten
<1>3. ~USD.upside
  BY DEF USD, Plain
<1>4. \A i \in exact : ~is_upside(catalog[i])
  BY DEF Exact, symbol, is_upside
<1>5. \A i \in inUsd : ~is_upside(catalog[i])
  BY <1>3 DEF BaseMatches, is_upside
<1>6. \A i \in rewritten : ~is_upside(catalog[i])
  BY <1>3 DEF Rewritten, symbol, is_upside
<1>7. IsFiniteSet(bases)
  <2>1. bases \subseteq 1..n
    BY <1>1 DEF BaseMatches
  <2>2. IsFiniteSet(1..n)
    BY FS_Interval
  <2> HIDE DEF bases
  <2> QED
    BY <2>1, <2>2, FS_Subset
<1>8. found = IF exact # {} THEN First(exact)
              ELSE IF inUsd # {} THEN First(inUsd)
              ELSE IF Cardinality(bases) = 1 THEN First(bases)
              ELSE IF rewritten # {} THEN First(rewritten)
              ELSE 0
  BY DEF pair_by_symbol
<1> HIDE DEF exact, bases, inUsd, rewritten, found
<1>9. exact = {} /\ inUsd = {}
  <2>1. exact # {} => First(exact) \in exact
    BY <1>2, FirstIsMember
  <2>2. inUsd # {} => First(inUsd) \in inUsd
    BY <1>2, FirstIsMember
  <2> QED
    BY <1>4, <1>5, <1>8, <2>1, <2>2 DEF found
<1>10. Cardinality(bases) = 1
  <2>1. rewritten # {} => First(rewritten) \in rewritten
    BY <1>2, FirstIsMember
  <2> QED
    BY <1>6, <1>8, <1>9, <2>1 DEF found
<1>11. PICK i : bases = {i}
  BY <1>7, <1>10, FS_Singleton
<1>12. First(bases) = i
  BY <1>2, <1>11, OnlyOne
<1>13. found = i
  BY <1>8, <1>9, <1>10, <1>12
<1> QED
  BY <1>11, <1>13 DEF found, bases

LEMMA KindOf ==
  ASSUME NEW names, NEW catalog, Unambiguous(catalog, names), NEW ref, ref.from \in Syms(names),
         ~ref.from.upside, ~ref.to.upside,
         pair_by_symbol(catalog, ref) # 0,
         is_upside(catalog[pair_by_symbol(catalog, ref)]),
         NEW i \in DOMAIN catalog
  PROVE  symbol(catalog[i]) # base_symbol(catalog[pair_by_symbol(catalog, ref)])
<1> DEFINE found == pair_by_symbol(catalog, ref)
<1>1. BaseMatches(catalog, ref) = {found}
  BY UpsideFoundByBase
<1> HIDE DEF found
<1>2. ref.sep = "alone" /\ catalog[found].from = ref.from
  BY <1>1 DEF BaseMatches
<1>3. strip_upside_suffix(ref.from) = ref.from
  BY DEF strip_upside_suffix, Plain, Syms
<1> SUFFICES ASSUME symbol(catalog[i]) = base_symbol(catalog[found])
             PROVE  FALSE
  BY DEF found
<1>4. /\ catalog[i].from = ref.from
      /\ catalog[i].to = strip_upside_suffix(catalog[found].to)
  BY <1>2, <1>3 DEF symbol, base_symbol
<1>5. i = found
  <2>1. i \in BaseMatches(catalog, ref)
    BY <1>2, <1>4 DEF BaseMatches
  <2> QED
    BY <1>1, <2>1
<1>6. ~catalog[i].to.upside
  BY <1>4 DEF strip_upside_suffix, Plain
<1> QED
  BY <1>2, <1>5, <1>6 DEF is_upside, found

LEMMA PairStep ==
  ASSUME KindNeverGuessed, [QuestionNext]_questionVars
  PROVE  KindNeverGuessed'
<1>1. CASE UNCHANGED questionVars
  BY <1>1 DEF questionVars, KindNeverGuessed
<1>2. CASE asked'.about # "pair"
  BY <1>2 DEF KindNeverGuessed
<1>3. ASSUME NEW catalog \in Catalogs, NEW ref \in Refs, AskPair(catalog, ref)
      PROVE  KindNeverGuessed'
  <2>1. /\ asked' = [about |-> "pair", catalog |-> catalog, ref |-> ref]
        /\ answer' = pair_by_symbol(catalog, ref)
    BY <1>3 DEF AskPair, Asks
  <2>2. Unambiguous(catalog, Names)
    BY CatalogsAreUnambiguous
  <2>3. ref.from \in Syms(Names)
    <3>1. \A name \in Names : Plain(name) \in Syms(Names) /\ Upside(name) \in Syms(Names)
      BY DEF Plain, Upside, Syms
    <3>2. Symbols \subseteq Syms(Names)
      BY <3>1 DEF Symbols, Names
    <3> QED
      BY <3>2 DEF Refs
  <2>4. ASSUME ~ref.from.upside, ~ref.to.upside, answer' # 0, is_upside(catalog[answer']),
               NEW i \in DOMAIN catalog
        PROVE  symbol(catalog[i]) # base_symbol(catalog[answer'])
    BY <2>1, <2>2, <2>3, <2>4, KindOf
  <2>5. ASSUME ref.sep = "/", NEW i \in DOMAIN catalog,
               symbol(catalog[i]) = <<ref.from, ref.to>>
        PROVE  answer' = i
    BY <2>1, <2>2, <2>5, OwnSymbolNames
  <2> QED
    BY <2>1, <2>4, <2>5 DEF KindNeverGuessed
<1> QED
  BY <1>1, <1>2, <1>3, OneQuestion

\* Two places change, every other stays.
Place(k, i, j) == IF k = i THEN j ELSE IF k = j THEN i ELSE k

\* One element at most, which the change takes to the other set.
Moves(S, T, i, j, n) ==
  /\ S \in SUBSET (1..n)
  /\ T \in SUBSET (1..n)
  /\ \A k \in 1..n : k \in S <=> Place(k, i, j) \in T
  /\ \A k, m \in S : k = m

\* What one pair at most satisfies is found where that pair has gone.
LEMMA OneMoves ==
  ASSUME NEW n \in Nat, NEW i \in 1..n, NEW j \in 1..n, NEW S, NEW T, Moves(S, T, i, j, n)
  PROVE  /\ S = {} <=> T = {}
         /\ S # {} => First(T) = Place(First(S), i, j)
<1>0. /\ S \in SUBSET (1..n) /\ T \in SUBSET (1..n)
      /\ \A k \in 1..n : k \in S <=> Place(k, i, j) \in T
      /\ \A k, m \in S : k = m
  BY DEF Moves
<1>1. \A k \in 1..n : Place(k, i, j) \in 1..n /\ Place(Place(k, i, j), i, j) = k
  BY DEF Place
<1>2. \A m \in T : Place(m, i, j) \in S
  BY <1>0, <1>1
<1>3. ASSUME NEW k \in S
      PROVE  First(S) = k /\ Place(k, i, j) \in T /\ First(T) = Place(k, i, j)
  <2>1. First(S) = k
    <3>1. S \in SUBSET Nat
      BY <1>0
    <3> QED
      BY <1>0, <3>1, OnlyOne
  <2>2. Place(k, i, j) \in T
    BY <1>0
  <2>3. \A m \in T : m = Place(k, i, j)
    BY <1>0, <1>1, <1>2
  <2>4. T \in SUBSET Nat
    BY <1>0
  <2>5. First(T) = Place(k, i, j)
    BY <2>2, <2>3, <2>4, OnlyOne
  <2> QED
    BY <2>1, <2>2, <2>5
<1> QED
  BY <1>0, <1>1, <1>2, <1>3

\* Of any catalog that lists no symbol twice: when two pairs change their places
\* a reference names the pair it named before.
LEMMA OrderOf ==
  ASSUME NEW names, NEW catalog, Unambiguous(catalog, names), NEW ref,
         NEW i \in DOMAIN catalog, NEW j \in DOMAIN catalog
  PROVE  LET found == pair_by_symbol(catalog, ref)
             swapped == Swapped(catalog, i, j)
             named == pair_by_symbol(swapped, ref)
         IN  IF found = 0 THEN named = 0 ELSE named # 0 /\ swapped[named] = catalog[found]
<1> DEFINE other == Swapped(catalog, i, j)
           InUsd(list) == {k \in BaseMatches(list, ref) : list[k].to = USD}
<1>1. PICK n \in Nat : /\ catalog \in [1..n -> Entries(names)]
                       /\ \A k, m \in 1..n : symbol(catalog[k]) = symbol(catalog[m]) => k = m
  BY DEF Unambiguous
<1>2. n \in Nat /\ i \in 1..n /\ j \in 1..n /\ DOMAIN catalog = 1..n /\ DOMAIN other = 1..n
  BY <1>1 DEF Swapped
<1>3. \A k \in 1..n : Place(k, i, j) \in 1..n /\ other[Place(k, i, j)] = catalog[k]
  BY <1>1, <1>2 DEF Swapped, Place
<1> HIDE DEF other
<1>4. Moves(Exact(catalog, ref), Exact(other, ref), i, j, n)
  <2>1. \A k \in 1..n : k \in Exact(catalog, ref) <=> Place(k, i, j) \in Exact(other, ref)
    BY <1>2, <1>3 DEF Exact
  <2>2. \A k, m \in Exact(catalog, ref) : symbol(catalog[k]) = symbol(catalog[m])
    BY DEF Exact
  <2>3. Exact(catalog, ref) \in SUBSET (1..n) /\ Exact(other, ref) \in SUBSET (1..n)
    BY <1>2 DEF Exact
  <2> QED
    BY <1>1, <2>1, <2>2, <2>3 DEF Moves
<1>5. /\ BaseMatches(catalog, ref) \in SUBSET (1..n)
      /\ BaseMatches(other, ref) \in SUBSET (1..n)
      /\ \A k \in 1..n :
           k \in BaseMatches(catalog, ref) <=> Place(k, i, j) \in BaseMatches(other, ref)
  BY <1>2, <1>3 DEF BaseMatches
<1>6. Moves(InUsd(catalog), InUsd(other), i, j, n)
  <2>1. \A k, m \in InUsd(catalog) : symbol(catalog[k]) = symbol(catalog[m])
    BY DEF BaseMatches, symbol
  <2> QED
    BY <1>1, <1>2, <1>3, <1>5, <2>1 DEF Moves
<1>7. Moves(Rewritten(catalog, ref), Rewritten(other, ref), i, j, n)
  <2>1. \A k \in 1..n :
          k \in Rewritten(catalog, ref) <=> Place(k, i, j) \in Rewritten(other, ref)
    BY <1>2, <1>3 DEF Rewritten
  <2>2. \A k, m \in Rewritten(catalog, ref) : symbol(catalog[k]) = symbol(catalog[m])
    BY DEF Rewritten
  <2>3. Rewritten(catalog, ref) \in SUBSET (1..n) /\ Rewritten(other, ref) \in SUBSET (1..n)
    BY <1>2 DEF Rewritten
  <2> QED
    BY <1>1, <2>1, <2>2, <2>3 DEF Moves
<1>8. /\ Cardinality(BaseMatches(catalog, ref)) = 1 <=>
           Cardinality(BaseMatches(other, ref)) = 1
      /\ Cardinality(BaseMatches(catalog, ref)) = 1 =>
           /\ First(BaseMatches(other, ref)) = Place(First(BaseMatches(catalog, ref)), i, j)
           /\ BaseMatches(catalog, ref) # {}
  <2> DEFINE S == BaseMatches(catalog, ref)
             T == BaseMatches(other, ref)
  <2> HIDE DEF S, T
  <2>1. IsFiniteSet(S) /\ IsFiniteSet(T)
    BY <1>1, <1>5, FS_Interval, FS_Subset DEF S, T
  <2>2. /\ Cardinality(S) = 1 <=> \E k : S = {k}
        /\ Cardinality(T) = 1 <=> \E k : T = {k}
    BY <2>1, FS_Singleton
  <2>3. \A k \in 1..n : Place(k, i, j) \in 1..n /\ Place(Place(k, i, j), i, j) = k
    BY <1>2 DEF Place
  <2>4. /\ S \in SUBSET (1..n) /\ T \in SUBSET (1..n)
        /\ \A k \in 1..n : k \in S <=> Place(k, i, j) \in T
    BY <1>5 DEF S, T
  <2>5. (\E k : S = {k}) <=> (\E k : T = {k})
    <3>1. ASSUME NEW k, S = {k}
          PROVE  T = {Place(k, i, j)}
      BY <2>3, <2>4, <3>1
    <3>2. ASSUME NEW k, T = {k}
          PROVE  S = {Place(k, i, j)}
      BY <2>3, <2>4, <3>2
    <3> QED
      BY <3>1, <3>2
  <2>6. ASSUME NEW k, S = {k}
        PROVE  S # {} /\ First(T) = Place(First(S), i, j)
    <3>1. Moves(S, T, i, j, n)
      BY <2>4, <2>6 DEF Moves
    <3> QED
      BY <1>2, <2>6, <3>1, OneMoves
  <2> QED
    BY <2>2, <2>5, <2>6 DEF S, T
<1>9. /\ Exact(catalog, ref) = {} <=> Exact(other, ref) = {}
      /\ Exact(catalog, ref) # {} =>
           First(Exact(other, ref)) = Place(First(Exact(catalog, ref)), i, j)
  BY <1>2, <1>4, OneMoves
<1>10. /\ InUsd(catalog) = {} <=> InUsd(other) = {}
       /\ InUsd(catalog) # {} => First(InUsd(other)) = Place(First(InUsd(catalog)), i, j)
  <2> HIDE DEF InUsd
  <2> QED
    BY <1>2, <1>6, OneMoves
<1>11. /\ Rewritten(catalog, ref) = {} <=> Rewritten(other, ref) = {}
       /\ Rewritten(catalog, ref) # {} =>
            First(Rewritten(other, ref)) = Place(First(Rewritten(catalog, ref)), i, j)
  BY <1>2, <1>7, OneMoves
<1>12. \/ pair_by_symbol(catalog, ref) = 0 /\ pair_by_symbol(other, ref) = 0
       \/ /\ pair_by_symbol(catalog, ref) \in 1..n
          /\ pair_by_symbol(other, ref) = Place(pair_by_symbol(catalog, ref), i, j)
  <2>1. \A T \in SUBSET (1..n) : T # {} => First(T) \in 1..n
    <3>1. \A T \in SUBSET (1..n) : T \in SUBSET Nat
      OBVIOUS
    <3> QED
      BY <3>1, FirstIsMember
  <2>2. \A list :
          pair_by_symbol(list, ref) =
            IF Exact(list, ref) # {} THEN First(Exact(list, ref))
            ELSE IF InUsd(list) # {} THEN First(InUsd(list))
            ELSE IF Cardinality(BaseMatches(list, ref)) = 1 THEN First(BaseMatches(list, ref))
            ELSE IF Rewritten(list, ref) # {} THEN First(Rewritten(list, ref))
            ELSE 0
    BY DEF pair_by_symbol
  <2> HIDE DEF InUsd
  <2> QED
    BY <1>4, <1>5, <1>6, <1>7, <1>8, <1>9, <1>10, <1>11, <2>1, <2>2 DEF Moves
<1>13. \A k \in 1..n : Place(k, i, j) # 0
  BY <1>3
<1> QED
  BY <1>3, <1>12, <1>13 DEF other

LEMMA OrderStep ==
  ASSUME OrderNeverDecides, [QuestionNext]_questionVars
  PROVE  OrderNeverDecides'
<1>1. CASE UNCHANGED questionVars
  BY <1>1 DEF questionVars, OrderNeverDecides
<1>2. CASE asked'.about # "pair"
  BY <1>2 DEF OrderNeverDecides
<1>3. ASSUME NEW catalog \in Catalogs, NEW ref \in Refs, AskPair(catalog, ref)
      PROVE  OrderNeverDecides'
  <2>1. /\ asked' = [about |-> "pair", catalog |-> catalog, ref |-> ref]
        /\ answer' = pair_by_symbol(catalog, ref)
    BY <1>3 DEF AskPair, Asks
  <2>2. ASSUME NEW i \in DOMAIN catalog, NEW j \in DOMAIN catalog
        PROVE  LET swapped == Swapped(catalog, i, j)
                   named == pair_by_symbol(swapped, ref)
               IN  IF answer' = 0 THEN named = 0
                   ELSE named # 0 /\ swapped[named] = catalog[answer']
    BY <2>1, <2>2, CatalogsAreUnambiguous, OrderOf
  <2> QED
    BY <2>1, <2>2 DEF OrderNeverDecides
<1> QED
  BY <1>1, <1>2, <1>3, OneQuestion

\* The Upside market of any pair of any catalog leads back to it.
LEMMA TwinOf ==
  ASSUME NEW names, NEW catalog, Unambiguous(catalog, names), NEW i \in DOMAIN catalog,
         NEW twin, twin = upside_pair_for(catalog, i), twin # 0, twin # i
  PROVE  /\ is_upside(catalog[twin])
         /\ base_symbol(catalog[twin]) = symbol(catalog[i])
<1> DEFINE twins == {j \in DOMAIN catalog :
                       /\ is_upside(catalog[j])
                       /\ base_symbol(catalog[j]) = symbol(catalog[i])
                       /\ SameFeed(catalog[i], catalog[j])}
<1>1. twins \in SUBSET Nat
  BY DEF Unambiguous
<1>2. twin = IF is_upside(catalog[i]) THEN i ELSE IF twins = {} THEN 0 ELSE First(twins)
  BY DEF upside_pair_for
<1>3. twin = First(twins) /\ twins # {}
  BY <1>2
<1>4. twin \in twins
  <2> HIDE DEF twins
  <2> QED
    BY <1>1, <1>3, FirstIsMember
<1> QED
  BY <1>4

LEMMA TwinStep ==
  ASSUME TwinIsTwin, [QuestionNext]_questionVars
  PROVE  TwinIsTwin'
<1>1. CASE UNCHANGED questionVars
  BY <1>1 DEF questionVars, TwinIsTwin
<1>2. CASE asked'.about # "twin"
  BY <1>2 DEF TwinIsTwin
<1>3. ASSUME NEW catalog \in Catalogs, NEW i \in 1..MaxPairs, i \in DOMAIN catalog,
             AskTwin(catalog, i)
      PROVE  TwinIsTwin'
  <2> DEFINE twin == upside_pair_for(catalog, i)
             base == base_symbol(catalog[twin])
             ref == [from |-> base[1], to |-> base[2], sep |-> "/"]
  <2>1. /\ asked' = [about |-> "twin", catalog |-> catalog, of |-> i]
        /\ answer' = twin
    BY <1>3 DEF AskTwin, Asks
  <2>2. Unambiguous(catalog, Names)
    BY CatalogsAreUnambiguous
  <2>3. ASSUME twin # 0, twin # i
        PROVE  is_upside(catalog[twin]) /\ pair_by_symbol(catalog, ref) = i
    <3>1. is_upside(catalog[twin]) /\ base = symbol(catalog[i])
      BY <1>3, <2>2, <2>3, TwinOf
    <3>2. symbol(catalog[i]) = <<ref.from, ref.to>> /\ ref.sep = "/"
      BY <3>1 DEF symbol
    <3> HIDE DEF ref
    <3> QED
      BY <1>3, <2>2, <3>1, <3>2, OwnSymbolNames
  <2> HIDE DEF twin
  <2> QED
    BY <2>1, <2>3 DEF TwinIsTwin
<1> QED
  BY <1>1, <1>2, <1>3, OneQuestion

\* In a catalog that lists no symbol twice, a reference without an Upside symbol
\* never names an Upside pair whose plain twin is listed, a pair's own symbol
\* names it, its Upside market leads back to it, and the order of the snapshot
\* decides nothing (pair_by_symbol and upside_pair_for, markets/models.py and
\* markets/api.py).
THEOREM PairsKept == QuestionSpec => []PairsKeepTheirKind
<1>1. QuestionInit => KindNeverGuessed /\ OrderNeverDecides /\ TwinIsTwin
  BY DEF QuestionInit, KindNeverGuessed, OrderNeverDecides, TwinIsTwin
<1>2. KindNeverGuessed /\ OrderNeverDecides /\ TwinIsTwin => PairsKeepTheirKind
  BY DEF PairsKeepTheirKind
<1> QED
  BY <1>1, <1>2, PairStep, OrderStep, TwinStep, PTL DEF QuestionSpec
=============================================================================
