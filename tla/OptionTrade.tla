------------------------------ MODULE OptionTrade ------------------------------
(***************************************************************************)
(* The life of one position of an option strategy: its prices as computed at   *)
(* entry (calculate_trade), the stop that evaluate_exit trails after a candle,  *)
(* and the price monitor that exits at the stop or the target.  The two        *)
(* coroutines of an OrderMonitor share _order_strategy_cache: each may act on   *)
(* a row that the other has changed since it was read.                         *)
(*                                                                         *)
(* A behaviour ends when the row has an exit status; OrderMonitor models what   *)
(* follows.                                                                *)
(***************************************************************************)
EXTENDS Integers

CONSTANTS Prices,     \* the prices of quotes and closes
          Settings,   \* configurations, with side
          Candles,    \* the candles a position may be entered on
          NoPosition

\* Buffers that depend on a range.
Buffers == [threshold : Int, small : Int, large : Int]

OptionTradeConstants ==
  /\ Prices \subseteq Int
  /\ Settings \subseteq [side : {"BUY", "SELL"}, trailing : BOOLEAN, entry : Buffers, stop : Buffers,
                         target : Buffers, multiplier : Int, sideways : Int]
  /\ Candles \subseteq [high : Int, low : Int, atr : Int]

VARIABLES setting,    \* the configuration
          price,      \* the last price
          position,   \* the row of the table orders
          cache,      \* the row in _order_strategy_cache
          look,       \* the price coroutine: the row and the quote it has
          signal,     \* the signal coroutine: the row it has
          passes      \* what the price coroutine has done since the last signal

optionTradeVars == <<setting, price, position, cache, look, signal, passes>>

--------------------------------------------------------------------------------
(***************************************************************************)
(* The prices of an entry.                                                 *)
(***************************************************************************)

\* A large buffer for small ranges.
DynamicBuffer(range, b) == IF range < b.threshold THEN b.large ELSE b.small

\* calculate_trade.  In a sideways market the target has a multiplier of its own.
BuyTrade(c, conf, multiplier) ==
  LET entry == c.high + DynamicBuffer(c.high - c.low, conf.entry) IN
  [entry  |-> entry,
   stop   |-> c.low - DynamicBuffer(c.high - c.low, conf.stop),
   target |-> entry + c.atr * multiplier - DynamicBuffer(c.atr, conf.target)]

SellTrade(c, conf, multiplier) ==
  LET entry == c.low - DynamicBuffer(c.high - c.low, conf.entry) IN
  [entry  |-> entry,
   stop   |-> c.high + DynamicBuffer(c.high - c.low, conf.stop),
   target |-> entry - (c.atr * multiplier - DynamicBuffer(c.atr, conf.target))]

\* A trailing stop has a target further away, and remembers the original one.
BuyOrder(c, conf, multiplier) ==
  LET t == BuyTrade(c, conf, multiplier) IN
  [stop |-> t.stop, orig |-> t.target, status |-> "OPEN", at |-> 0,
   target |-> IF conf.trailing THEN t.target + 5 * c.atr * conf.multiplier ELSE t.target]

SellOrder(c, conf, multiplier) ==
  LET t == SellTrade(c, conf, multiplier) IN
  [stop |-> t.stop, orig |-> t.target, status |-> "OPEN", at |-> 0,
   target |-> IF conf.trailing THEN t.target - 5 * c.atr * conf.multiplier ELSE t.target]

--------------------------------------------------------------------------------
(***************************************************************************)
(* The exit of a candle: update_trailing_stoploss, then the reversal.       *)
(***************************************************************************)

\* Trailing starts at the original target, and only tightens.
BuyTrails(row, close, new)  == close >= row.orig /\ new > row.stop /\ close > new

SellTrails(row, close, new) == close < row.orig /\ new < row.stop /\ close < new

Trails(row, close, new) ==
  /\ setting.trailing
  /\ \/ setting.side = "BUY"  /\ BuyTrails(row, close, new)
     \/ setting.side = "SELL" /\ SellTrails(row, close, new)

--------------------------------------------------------------------------------
(***************************************************************************)
(* _check_price_based_exit.  The target is looked at first.                 *)
(***************************************************************************)
AtTarget(row, quote) ==
  IF setting.side = "BUY" THEN quote >= row.target ELSE quote <= row.target

\* A mutant: a short position is stopped as a long one is.
AtLongStop(row, quote) == quote <= row.stop

AtStop(row, quote) ==
  IF setting.side = "BUY" THEN quote <= row.stop ELSE quote >= row.stop

Decided(row, quote) ==
  IF AtTarget(row, quote) THEN "EXIT_TARGET_PENDING"
  ELSE IF AtStop(row, quote) THEN "EXIT_STOPLOSS_PENDING" ELSE "OPEN"

--------------------------------------------------------------------------------
(***************************************************************************)
(* The price coroutine.                                                    *)
(***************************************************************************)

\* A mutant: the cached row is taken if there is one.
PriceReadsCached ==
  /\ look.pc = "idle" /\ position.status = "OPEN"
  /\ look' = [look EXCEPT !.pc = "read", !.row = IF cache = NoPosition THEN position ELSE cache]
  /\ passes' = IF passes = "none" THEN "begun" ELSE passes
  /\ UNCHANGED <<setting, price, position, cache, signal>>

\* The cache is cleared, and the row read.
PriceReads ==
  /\ look.pc = "idle" /\ position.status = "OPEN"
  /\ cache' = NoPosition
  /\ look' = [look EXCEPT !.pc = "read", !.row = position]
  /\ passes' = IF passes = "none" THEN "begun" ELSE passes
  /\ UNCHANGED <<setting, price, position, signal>>

\* The row that was read goes into the cache.
PriceStores ==
  /\ look.pc = "read"
  /\ cache' = look.row
  /\ look' = [look EXCEPT !.pc = "quote"]
  /\ passes' = IF passes = "begun" THEN "done" ELSE passes
  /\ UNCHANGED <<setting, price, position, signal>>

PriceQuoted ==
  /\ look.pc = "quote"
  /\ look' = [look EXCEPT !.pc = "decide", !.quote = price]
  /\ UNCHANGED <<setting, price, position, cache, signal, passes>>

\* The exit, and its status over whatever the row has by now.
PriceDecides ==
  /\ look.pc = "decide"
  /\ LET s == IF look.row.status = "OPEN" THEN Decided(look.row, look.quote) ELSE "OPEN" IN
     position' = IF s = "OPEN" THEN position ELSE [position EXCEPT !.status = s, !.at = look.quote]
  /\ look' = [look EXCEPT !.pc = "idle"]
  /\ UNCHANGED <<setting, price, cache, signal, passes>>

--------------------------------------------------------------------------------
(***************************************************************************)
(* The signal coroutine.                                                   *)
(***************************************************************************)

\* The row is the cached one, if there is one.  The price coroutine has passed
\* since the last time: its period is much shorter.
SignalBegins ==
  /\ signal.pc = "idle" /\ position.status = "OPEN"
  /\ passes = "done"
  /\ signal' = [pc |-> IF cache = NoPosition THEN "read" ELSE "candles",
                row |-> IF cache = NoPosition THEN position ELSE cache]
  /\ UNCHANGED <<setting, price, position, cache, look, passes>>

SignalStores ==
  /\ signal.pc = "read"
  /\ cache' = signal.row
  /\ signal' = [signal EXCEPT !.pc = "candles"]
  /\ UNCHANGED <<setting, price, position, look, passes>>

\* The candle it has fetched, with what trailing the stop by ATR or supertrend
\* would give.
SignalTrails ==
  /\ signal.pc = "candles"
  /\ \E new \in Prices :
       position' = IF Trails(signal.row, price, new) THEN [position EXCEPT !.stop = new] ELSE position
  /\ signal' = [signal EXCEPT !.pc = "reversal"]
  /\ UNCHANGED <<setting, price, cache, look, passes>>

\* A reversal of the supertrend; the cache is cleared in any case.
SignalEnds ==
  /\ signal.pc = "reversal"
  /\ \/ position' = position
     \/ position' = [position EXCEPT !.status = "EXIT_REVERSAL"]
  /\ cache' = NoPosition
  /\ signal' = [pc |-> "idle", row |-> NoPosition]
  /\ passes' = "none"
  /\ UNCHANGED <<setting, price, look>>

\* The market moves.
PriceMoves ==
  /\ position.status = "OPEN"
  /\ price' \in Prices \ {price}
  /\ UNCHANGED <<setting, position, cache, look, signal, passes>>

--------------------------------------------------------------------------------
TradeInit ==
  /\ setting \in Settings
  /\ price \in Prices
  /\ \E c \in Candles, m \in {setting.multiplier, setting.sideways} :
       position = IF setting.side = "BUY" THEN BuyOrder(c, setting, m) ELSE SellOrder(c, setting, m)
  /\ cache = NoPosition
  /\ look = [pc |-> "idle", row |-> NoPosition, quote |-> 0]
  /\ signal = [pc |-> "idle", row |-> NoPosition]
  /\ passes = "none"

TradeNext ==
  \/ PriceReads \/ PriceStores \/ PriceQuoted \/ PriceDecides
  \/ SignalBegins \/ SignalStores \/ SignalTrails \/ SignalEnds
  \/ PriceMoves

TradeSpec == TradeInit /\ [][TradeNext]_optionTradeVars

--------------------------------------------------------------------------------
Beyond(a, b) == IF setting.side = "BUY" THEN a >= b ELSE a <= b

OptionTradeTypeOK ==
  /\ setting \in Settings /\ price \in Prices
  /\ position.status \in {"OPEN", "EXIT_REVERSAL", "EXIT_TARGET_PENDING", "EXIT_STOPLOSS_PENDING"}

\* The stop only follows the price in favour of the position, whatever rows the
\* two coroutines have in hand (option_buy.py:829).
OptionStopTightens == [][Beyond(position'.stop, position.stop)]_optionTradeVars

\* An exit by price is due by the row as it is now, not only by the one that was
\* read (order_monitor.py:983).
ExitsAreDue ==
  /\ position.status = "EXIT_STOPLOSS_PENDING" => Beyond(position.stop, position.at)
  /\ position.status = "EXIT_TARGET_PENDING"   => Beyond(position.at, position.target)

================================================================================
