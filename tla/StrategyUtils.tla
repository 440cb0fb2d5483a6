----------------------------- MODULE StrategyUtils -----------------------------
(***************************************************************************)
(* Arithmetic shared by the strategies: the regime of a day and the lots it *)
(* allows (src/common/strategy_utils.py).  Prices are integers.             *)
(***************************************************************************)
EXTENDS Integers

CONSTANT NoRef    \* regime_reference is None: yesterday's candle is missing

\* What a rising spot price is good for: buying calls and selling puts.
Rising(strategy, option) == (strategy = "BUY") <=> (option = "CE")

\* detect_regime.  ref holds the high and low of yesterday and of today's first
\* candle.  A price that equals the higher of the two highs is neither.
Regime(price, ref, option, strategy) ==
  IF ref = NoRef THEN "Unknown"
  ELSE IF Rising(strategy, option)
  THEN IF price > ref.dayHigh /\ price > ref.firstHigh THEN "Uptrend"
       ELSE IF price < ref.firstHigh \/ price < ref.dayHigh THEN "Sideways" ELSE "NoTrade"
  ELSE IF price < ref.dayLow /\ price < ref.firstLow THEN "Downtrend"
       ELSE IF price > ref.firstLow \/ price > ref.dayLow THEN "Sideways" ELSE "NoTrade"

\* Python's round(a / b) for natural numbers: ties go to the even neighbour.
RoundedQuotient(a, b) ==
  LET q == a \div b  r == a % b IN
  IF 2 * r > b \/ (2 * r = b /\ q % 2 = 1) THEN q + 1 ELSE q

================================================================================
