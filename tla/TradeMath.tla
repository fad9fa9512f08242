----------------------------- MODULE TradeMath -----------------------------
(***************************************************************************)
(* Profit, targets and sizes (compute/pnl.py, compute/tpsl.py,             *)
(* compute/liquidation.py, account/models.py) and the scaling of amounts   *)
(* into intents (execution/local_intents.py).                              *)
(*                                                                         *)
(* A price or an amount that need not be whole is a fraction <<n, d>> with *)
(* d > 0; a percentage is a whole number of percent.                       *)
(***************************************************************************)
EXTENDS Integers, Sequences

Equal(x, y) == x[1] * y[2] = y[1] * x[2]

Direction(isLong) == IF isLong THEN 1 ELSE -1

-----------------------------------------------------------------------------
(* Profit *)

\* At the price <<n, d>>.
gross_pnl(price, open, collateral, leverage, isLong) ==
  <<(price[1] - open * price[2]) * Direction(isLong) * leverage * collateral,
    open * price[2]>>

MetTiers(tiers, profit) == {i \in DOMAIN tiers : profit >= tiers[i]}

\* Mutant: below the first tier nothing is shared.
pnl_fee_from_first_tier(tiers, profit, fees) ==
  IF MetTiers(tiers, profit) = {} THEN 0
  ELSE LET i == CHOOSE j \in MetTiers(tiers, profit) :
                  \A k \in MetTiers(tiers, profit) : k <= j
       IN  IF i <= Len(fees) THEN fees[i] ELSE 0

\* The fee of the highest tier met; below the first, the first's.
pnl_fee_by_gross_profit_p(tiers, profit, fees) ==
  IF MetTiers(tiers, profit) = {}
  THEN IF fees = <<>> THEN 0 ELSE fees[1]
  ELSE LET i == CHOOSE j \in MetTiers(tiers, profit) :
                  \A k \in MetTiers(tiers, profit) : k <= j
       IN  IF i <= Len(fees) THEN fees[i] ELSE 0

\* In hundredths of a percent.
adjusted_max_gain_p(maxGain, tiers, fees) ==
  maxGain * (100 - pnl_fee_by_gross_profit_p(tiers, maxGain, fees))

\* net_pnl of an Upside position as a percentage of its collateral, before
\* rollover and funding, in hundredths.
UpsideNet(profit, tiers, fees) ==
  IF profit > 0
  THEN profit * (100 - pnl_fee_by_gross_profit_p(tiers, profit, fees))
  ELSE profit * 100

\* net_pnl of a fixed-fee position, in parts of 10000: fee and protection in
\* percent, of the closed size and of the loss.
FixedNet(gross, collateral, leverage, feeP, protectionP) ==
  gross * 10000 - (collateral * leverage + gross) * feeP * 100
    + (IF gross < 0
       THEN 100 * protectionP * (IF -gross < collateral THEN -gross ELSE collateral)
       ELSE 0)

-----------------------------------------------------------------------------
(* Targets *)

Offset(base, percent, leverage, kept) ==
  <<base * percent, leverage * kept>>

At(base, offset, up) ==
  <<base * offset[2] + (IF up THEN offset[1] ELSE -offset[1]), offset[2]>>

\* The percentage of a profit that the profit share leaves.
Kept(isUpside, feeP) == IF isUpside THEN 100 - feeP ELSE 100

\* Mutant: the share of the profit is taken off the move, not added to it.
tp_percent_to_price_share_off(base, percent, leverage, isLong, isUpside, feeP) ==
  At(base, Offset(base, percent, leverage, IF isUpside THEN 100 + feeP ELSE 100), isLong)

\* So that what is left after the profit share is the percentage asked for,
\* unless nothing is.
tp_percent_to_price(base, percent, leverage, isLong, isUpside, feeP) ==
  At(base, Offset(base, percent, leverage, Kept(isUpside /\ feeP < 100, feeP)), isLong)

tp_price_to_percent(base, price, leverage, isLong, isUpside, feeP) ==
  <<(price[1] - base * price[2]) * Direction(isLong) * leverage * Kept(isUpside, feeP),
    base * price[2]>>

sl_percent_to_price(base, percent, leverage, isLong) ==
  At(base, Offset(base, percent, leverage, 100), ~isLong)

sl_price_to_percent(base, price, leverage, isLong) ==
  <<(base * price[2] - price[1]) * Direction(isLong) * 100 * leverage,
    base * price[2]>>

LIQ_THRESHOLD_P == 85

\* fees: rollover and funding.  Without a position there is no price: 0.
estimate_liquidation_price(open, collateral, leverage, isLong, fees) ==
  IF collateral * leverage <= 0
  THEN <<0, 1>>
  ELSE At(open, <<open * (collateral * LIQ_THRESHOLD_P - 100 * fees),
                  100 * collateral * leverage>>, ~isLong)

-----------------------------------------------------------------------------
(* Sizes, in raw units: usdc and p10 are the scales of USDC and of prices, *)
(* leverage and coins.                                                     *)

position_size(collateral, leverage, p10) == (collateral * leverage) \div p10

\* Mutant: the last unit is rounded up.
usdc_to_coin_rounded_up(notional, price, usdc, p10) ==
  (notional * p10 * p10 + price * usdc - 1) \div (price * usdc)

usdc_to_coin(notional, price, usdc, p10) == ((notional * p10 * p10) \div price) \div usdc

\* In whole units of the asset, a fraction: the notional itself where the asset
\* is USD.
size_in_asset(usdBase, collateral, leverage, price, usdc, p10) ==
  LET notional == position_size(collateral, leverage, p10)
  IN  CASE usdBase -> <<notional, usdc>>
        [] ~usdBase /\ price = 0 -> <<0, 1>>
        [] OTHER -> <<usdc_to_coin(notional, price, usdc, p10), p10>>

\* _scale of the decimal mantissa/digits: int() drops what is past the point.
scale(mantissa, digits, factor) ==
  IF mantissa >= 0
  THEN (mantissa * factor) \div digits
  ELSE -((-mantissa * factor) \div digits)
=============================================================================
