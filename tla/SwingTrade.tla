------------------------------- MODULE SwingTrade ------------------------------
(***************************************************************************)
(* The life of one swing trade: candles close, time passes, a strategy      *)
(* takes a signal (evaluate_signal), and the signal monitor of the order    *)
(* asks the strategy whether to exit it (evaluate_exit).  Either of the two *)
(* strategies may be the one; their decisions are those of SwingBuyRules    *)
(* and SwingSellRules, the expiry that of SwingExpiry.                     *)
(*                                                                         *)
(* Of the swing levels only what SwingPivots shows of them is known: the    *)
(* high is above the low.                                                  *)
(***************************************************************************)
EXTENDS Integers, FiniteSets, Sequences

CONSTANTS NoPrice, NoLevel, NoRef,
          Closes,        \* the closes of candles
          Levels,        \* pairs of swing levels [hi, lo], or both unknown
          Configs,       \* configurations of a symbol
          Views,         \* what else an evaluation may find: first, second, rsi, settled
          MonthStarts, LastDay

VARIABLES conf, mkt, today, slot, order,
          watched    \* the days on which the order was evaluated in slot 3

tradeVars == <<conf, mkt, today, slot, order, watched>>

Buy    == INSTANCE SwingBuyRules
Sell   == INSTANCE SwingSellRules
Expiry == INSTANCE SwingExpiry WITH
  FirstDays <- MonthStarts, CalendarDays <- LastDay, date <- today, late <- slot >= conf.expirySlot

\* The rows of smart_levels.
SmartLevels ==
  [complete : BOOLEAN, active : BOOLEAN, strict : BOOLEAN, entry : Int,
   bullish : Int \union {NoPrice}, bearish : Int \union {NoPrice},
   buys : [CE : BOOLEAN, PE : BOOLEAN], sells : [CE : BOOLEAN, PE : BOOLEAN],
   initial : [CE : Nat, PE : Nat], remaining : [CE : Nat, PE : Nat]]

ConfigFields ==
  {"strategy", "buffer", "slBuffer", "lots", "smart", "lookups", "ref", "sideways", "percent", "target",
   "fixed", "atr", "multiplier", "sidewaysMultiplier", "carryForward", "holidayExit", "holidays", "rsiExit",
   "rsi", "expiryExit", "expirySlot", "daysBefore"}

TradeConstants ==
  /\ LastDay \in Nat
  /\ NoLevel \notin SmartLevels
  /\ \A l \in Levels : l.hi = NoPrice <=> l.lo = NoPrice
  /\ \A l \in Levels : l.hi # NoPrice => l.lo < l.hi
  /\ \A c \in Configs :
       /\ DOMAIN c = ConfigFields
       /\ c.buffer >= 0 /\ c.slBuffer >= 0 /\ c.daysBefore \in Nat
       /\ c.lots \in [CE : Nat, PE : Nat]
       /\ c.lookups \in Seq(Seq(SmartLevels))
  /\ \A v \in Views : DOMAIN v = {"first", "second", "rsi", "settled"}

\* t of the rules.
Now == [day |-> today, slot |-> slot]

NoTrade == [status |-> "NONE"]

Open == order.status = "OPEN"

--------------------------------------------------------------------------------
TradeInit ==
  /\ conf \in Configs
  /\ \E l \in Levels, p \in Closes, q \in Closes :
       mkt = [hi |-> l.hi, lo |-> l.lo, prev |-> p, last |-> q, atr |-> conf.atr]
  /\ today = 0 /\ slot = 0
  /\ order = NoTrade /\ watched = {}

\* A candle closes; a swing may be confirmed by it.  Levels once known stay known.
Candle ==
  /\ \E l \in Levels, p \in Closes :
       /\ mkt.hi # NoPrice => l.hi # NoPrice
       /\ mkt' = [mkt EXCEPT !.hi = l.hi, !.lo = l.lo, !.prev = mkt.last, !.last = p]
  /\ UNCHANGED <<conf, today, slot, order, watched>>

TradeTick ==
  /\ slot < 3 \/ today < LastDay
  /\ slot' = (slot + 1) % 4
  /\ today' = IF slot = 3 THEN today + 1 ELSE today
  /\ UNCHANGED <<conf, mkt, order, watched>>

\* The row place_order writes for signal s.
Row(s, rsi) ==
  [status |-> "OPEN", dir |-> s.dir, stop |-> s.stop, target |-> s.target, day |-> today, rsi |-> rsi,
   expiry |-> Expiry!Weekly(today, slot >= conf.expirySlot, IF conf.expiryExit THEN conf.daysBefore ELSE 0)]

\* A cycle of the runner, from the end of the first candle to square_off_time.
Take(signals) ==
  /\ order = NoTrade /\ slot \in {1, 2}
  /\ \E s \in signals, v \in Views : order' = Row(s, v.rsi)
  /\ UNCHANGED <<conf, mkt, today, slot, watched>>

Buys == conf.strategy = "BUY"

TakeBuy  == \E re \in BOOLEAN : Buys /\ ~Buy!SetupFails(conf) /\ Take(Buy!Signals(mkt, conf, re))
TakeSell == \E re \in BOOLEAN : ~Buys /\ ~Sell!SetupFails(conf) /\ Take(Sell!Signals(mkt, conf, re))

\* What an evaluation finds, the market included.
Found(v) == [x \in DOMAIN v \union DOMAIN mkt |-> IF x \in DOMAIN v THEN v[x] ELSE mkt[x]]

\* An iteration of the signal monitor that gets at least two candles and whose statements
\* succeed.  Without the candles evaluate_exit returns at once; a status that cannot be
\* written leaves the order as it is, or, by the rules of the time of day and of the RSI,
\* to the rules after it.  Dates are those of the exchange's time zone.
Watch(verdict(_)) ==
  /\ Open
  /\ \E v \in Views :
       LET x == verdict(Found(v)) IN
       /\ v.settled => slot >= 2
       /\ order' = [order EXCEPT !.status = x.status, !.stop = x.stop]
  /\ watched' = IF slot = 3 THEN watched \union {today} ELSE watched
  /\ UNCHANGED <<conf, mkt, today, slot>>

WatchBuy  == Buys /\ Watch(LAMBDA m : Buy!Exit(order, m, conf, Now))
WatchSell == ~Buys /\ Watch(LAMBDA m : Sell!Exit(order, m, conf, Now))

TradeNext == Candle \/ TradeTick \/ TakeBuy \/ TakeSell \/ WatchBuy \/ WatchSell

TradeSpec == TradeInit /\ [][TradeNext]_tradeVars

--------------------------------------------------------------------------------
Statuses == {"OPEN", "EXIT_STOPLOSS", "EXIT_TARGET", "EXIT_HOLIDAY", "EXIT_RSI_TARGET", "EXIT_EXPIRY", "EXIT_EOD"}

TradeTypeOK ==
  /\ conf \in Configs
  /\ mkt.prev \in Closes /\ mkt.last \in Closes
  /\ today \in 0..LastDay /\ slot \in 0..3 /\ watched \subseteq 0..today
  /\ order # NoTrade => order.status \in Statuses /\ order.day \in 0..today

\* conf with what it says of calls and puts, of buying and selling, exchanged.
Exchanged(f) == [CE |-> f.PE, PE |-> f.CE]

MirroredLevel(v) ==
  [v EXCEPT !.buys = Exchanged(v.sells), !.sells = Exchanged(v.buys),
            !.initial = Exchanged(v.initial), !.remaining = Exchanged(v.remaining)]

Mirrored(c) ==
  [c EXCEPT !.lots = Exchanged(c.lots),
            !.lookups = [i \in DOMAIN c.lookups |->
                           [j \in DOMAIN c.lookups[i] |-> MirroredLevel(c.lookups[i][j])]]]

\* The two files take the same signals with the options exchanged, as long as a
\* smart level is found: without one the buyer fails to set up, while the seller
\* trades without the checks that were enabled.
SignalTwins ==
  ~Buy!SetupFails(conf) =>
    \A re \in BOOLEAN :
      Sell!Signals(mkt, Mirrored(conf), re)
        = {[s EXCEPT !.option = Sell!Option[s.dir]] : s \in Buy!Signals(mkt, conf, re)}

\* They also exit alike, as long as positions are carried and the first candle
\* is there.
ExitTwins ==
  Open /\ conf.carryForward =>
    \A v \in Views : v.first # NoPrice =>
      Buy!Exit(order, Found(v), conf, Now) = Sell!Exit(order, Found(v), conf, Now)

\* Whatever either strategy does, the other does to the mirror image
\* (swing_highlow_sell.py:1777).
SwingTwins == SignalTwins /\ ExitTwins

\* Once evaluated late in a day, its statements succeeding, a position is kept over
\* night only if positions are carried, no holiday follows that is to be avoided, and the option is
\* not to be left because of its expiry.
LeftInTime ==
  Open => \A d \in watched :
    /\ conf.carryForward
    /\ conf.holidayExit => ~Buy!Holiday(d + 1, conf)
    /\ conf.expiryExit => d < order.expiry - conf.daysBefore

================================================================================
