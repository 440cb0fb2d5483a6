----------------------------- MODULE MCStrategies ------------------------------
(***************************************************************************)
(* Small instances of the strategies side by side; `part` says which of them  *)
(* a behaviour is of, and never changes:                                    *)
(*   pivots   histories of SwingPivots;                                    *)
(*   expiry   the calendar of SwingExpiry, over several months;            *)
(*   trade    trades of SwingTrade, which uses SwingExpiry too;            *)
(*   option   a day of either option strategy, with two strikes              *)
(*            (OptionEntry).                                               *)
(***************************************************************************)
EXTENDS SwingTrade, SwingPivots, SwingExpiry, OptionEntry, TLC

VARIABLE part

--------------------------------------------------------------------------------
\* Candles of no extent, and one that is a high and a low at once.
Flat(x) == [high |-> x, low |-> x]
SomeCandles == {Flat(x) : x \in 1..4} \union {[high |-> 4, low |-> 1]}

\* Five candles that go up and down in turns.
InTurns == {h \in [1..5 -> 1..4] : \A i \in 2..4 : (h[i] - h[i - 1]) * (h[i] - h[i + 1]) > 0}
SomeHistories == {[i \in 1..5 |-> Flat(h[i])] : h \in InTurns}

\* Months of 30, 31, 28, 30, 31, 30 and 31 days.
Months == {0, 30, 61, 89, 119, 150, 180, 211}

Ranges    == {[hi |-> 6, lo |-> 5], [hi |-> 8, lo |-> 7], [hi |-> NoPrice, lo |-> NoPrice]}
ClosesAt  == {-4, 3, 4, 7, 8, 22}
Nothing   == [first |-> NoPrice, second |-> NoPrice, rsi |-> NoPrice, settled |-> FALSE]
FirstDown == [open |-> 4, low |-> 3, high |-> 7]
FirstUp   == [open |-> 7, low |-> 4, high |-> 8]
Second    == [open |-> 3, low |-> 3, high |-> 4]

Finds ==
  {[Nothing EXCEPT !.first = f, !.settled = s] : f \in {NoPrice, FirstDown, FirstUp}, s \in BOOLEAN}
    \union {[Nothing EXCEPT !.second = Second, !.rsi = 1], [Nothing EXCEPT !.rsi = 3, !.settled = TRUE]}

Both(x) == [CE |-> x, PE |-> x]

SmartLevel ==
  [complete |-> TRUE, active |-> TRUE, entry |-> 6, strict |-> FALSE, bullish |-> 22, bearish |-> NoPrice,
   buys |-> Both(TRUE), sells |-> Both(FALSE), initial |-> Both(1), remaining |-> [CE |-> 1, PE |-> 0]]

\* Carries its positions, with a fixed target far away.
Plain ==
  [strategy |-> "BUY", buffer |-> 0, slBuffer |-> 0, lots |-> Both(2), smart |-> FALSE, lookups |-> <<>>,
   ref |-> NoRef, sideways |-> TRUE, percent |-> 50, target |-> "fixed", fixed |-> 8, atr |-> NoPrice,
   multiplier |-> 1, sidewaysMultiplier |-> 1, carryForward |-> TRUE, holidayExit |-> FALSE, holidays |-> {},
   rsiExit |-> FALSE, rsi |-> [ceTarget |-> 3, ceIgnore |-> 4, peTarget |-> 1, peIgnore |-> 0],
   expiryExit |-> FALSE, expirySlot |-> 3, daysBefore |-> 0]

\* Squares off every day; a target by ATR, and fewer lots in a sideways market.
Intraday ==
  [Plain EXCEPT !.strategy = "SELL", !.target = "ATR", !.atr = 4, !.multiplier = 3, !.sidewaysMultiplier = 2,
                !.carryForward = FALSE,
                !.ref = [dayHigh |-> 7, dayLow |-> 4, firstHigh |-> 8, firstLow |-> 4]]

\* A smart level, found by the second lookup; a buffer at the stop; the RSI exit.
Smart ==
  [Plain EXCEPT !.smart = TRUE, !.lookups = << <<>>, <<[SmartLevel EXCEPT !.active = FALSE], SmartLevel>> >>,
                !.rsiExit = TRUE, !.slBuffer = 1]

\* Enabled smart levels of which none is found; left before holidays and expiry.
Careful ==
  [Plain EXCEPT !.strategy = "SELL", !.target = "none", !.smart = TRUE, !.expiryExit = TRUE,
                !.daysBefore = 1, !.holidayExit = TRUE, !.holidays = {2}]

SomeConfigs == {Plain, Intraday, Smart, Careful}

OptionModes == {[sell |-> s, rows |-> 3] : s \in BOOLEAN}

\* No strike differs from the other.
StrikeSymmetry == Permutations(Strikes)

ASSUME TradeConstants /\ PivotConstants /\ ExpiryConstants /\ OptionConstants

--------------------------------------------------------------------------------
NoMarket == [hi |-> NoPrice, lo |-> NoPrice, prev |-> 3, last |-> 3, atr |-> NoPrice]

\* Where the parts that are not looked at are.
NoSwing  == conf = Plain /\ mkt = NoMarket /\ today = 0 /\ slot = 0 /\ order = NoTrade /\ watched = {}
NoOption == OptionInit /\ mode = [sell |-> TRUE, rows |-> 3]

vars == <<part, date, late, bars, tradeVars, optionVars>>

MCInit ==
  /\ ExpiryInit
  /\ \/ part = "pivots" /\ PivotInit /\ NoSwing /\ NoOption
     \/ part = "expiry" /\ bars = <<>> /\ NoSwing /\ NoOption
     \/ part = "trade"  /\ bars = <<>> /\ TradeInit /\ NoOption
     \/ part = "option" /\ bars = <<>> /\ NoSwing /\ OptionInit

Trading   == part = "trade" /\ UNCHANGED <<part, date, late, bars, optionVars>>
OfOptions  == part = "option" /\ UNCHANGED <<part, date, late, bars, tradeVars>>

\* The steps are spelled out, so that each of them is seen to happen.
OptionSteps ==
  \/ OfOptions /\ NextCandle
  \/ OfOptions /\ BuyCycle
  \/ OfOptions /\ SellCycle
  \/ OfOptions /\ BuySignal
  \/ OfOptions /\ SellSignal
  \/ OfOptions /\ NothingLeft
  \/ OfOptions /\ NoOrderPlaced
  \/ OfOptions /\ BuyMain
  \/ OfOptions /\ BuyRaises
  \/ OfOptions /\ PlaceHedge
  \/ OfOptions /\ HedgeRaises
  \/ OfOptions /\ Unhedged
  \/ OfOptions /\ UnhedgedFails
  \/ OfOptions /\ SellMain
  \/ OfOptions /\ NoMain
  \/ OfOptions /\ SellRaises
  \/ OfOptions /\ Link
  \/ OfOptions /\ LinkFails
  \/ OfOptions /\ RefusalUnwritten
  \/ OfOptions /\ Unwind
  \/ OfOptions /\ UnwindFails
  \/ OfOptions /\ UnwindUnwritten
  \/ OfOptions /\ Return
  \/ OfOptions /\ CutOff
  \/ \E o \in Rows :
       \/ OfOptions /\ MonitorExit(o)
       \/ OfOptions /\ MonitorExitFails(o)
       \/ OfOptions /\ MonitorDead(o)
       \/ OfOptions /\ MonitorComplete(o)

MCNext ==
  \/ part = "pivots" /\ NewCandle  /\ UNCHANGED <<part, date, late, tradeVars, optionVars>>
  \/ part = "expiry" /\ ExpiryTick /\ UNCHANGED <<part, bars, tradeVars, optionVars>>
  \/ Trading /\ Candle
  \/ Trading /\ TradeTick
  \/ Trading /\ TakeBuy
  \/ Trading /\ TakeSell
  \/ Trading /\ WatchBuy
  \/ Trading /\ WatchSell
  \/ OptionSteps

MCSpec == MCInit /\ [][MCNext]_vars

================================================================================
