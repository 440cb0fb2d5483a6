----------------------------- MODULE SwingSellRules ----------------------------
(***************************************************************************)
(* The decisions of src/strategies/swing_highlow_sell.py, over the same     *)
(* market, configuration, order and time as SwingBuyRules.  The file is a   *)
(* copy of its twin with the options swapped; it is translated on its own,  *)
(* so that the two can be compared.                                        *)
(***************************************************************************)
EXTENDS Integers, Sequences, SequencesExt, FiniteSetsExt, StrategyUtils

CONSTANTS NoPrice, NoLevel

Directions == {"UP", "DOWN"}
Option     == [UP |-> "PE", DOWN |-> "CE"]

--------------------------------------------------------------------------------
\* load_smart_levels: the rows of the first lookup that has any, and of these
\* the first that is complete and active.
Level(c) ==
  LET i    == SelectInSeq(c.lookups, LAMBDA l : l # <<>>)
      rows == c.lookups[i]
      j    == SelectInSeq(rows, LAMBDA v : v.complete /\ v.active)
  IN  IF i = 0 \/ j = 0 THEN NoLevel ELSE rows[j]

\* Nothing is raised when smart levels are enabled and there is none.
SetupFails(c) == FALSE

SmartOn(c) == c.smart /\ Level(c) # NoLevel

\* A mutant: the flags of the buyer are left in.
SmartValidBuys(d, m, c, re) ==
  LET v == Level(c) IN
  /\ IF d = "UP" THEN m.last > v.entry ELSE m.last < v.entry
  /\ v.strict => IF d = "UP" THEN m.hi > v.entry ELSE m.lo < v.entry
  /\ v.buys[Option[d]]
  /\ re => v.remaining[Option[d]] > 0

\* validate_smart_level_entry
SmartValid(d, m, c, re) ==
  LET v == Level(c) IN
  /\ IF d = "UP" THEN m.last > v.entry ELSE m.last < v.entry
  /\ v.strict => IF d = "UP" THEN m.hi > v.entry ELSE m.lo < v.entry
  /\ d = "UP" /\ v.bullish # NoPrice => m.last < v.bullish
  /\ d = "DOWN" /\ v.bearish # NoPrice => m.last > v.bearish
  /\ v.sells[Option[d]]
  /\ re => v.remaining[Option[d]] > 0

\* The lots of a signal before the regime is looked at.
BaseLots(d, c, re) ==
  IF SmartOn(c)
  THEN LET v == Level(c) IN (IF re THEN v.remaining ELSE v.initial)[Option[d]] * c.lots[Option[d]]
  ELSE c.lots[Option[d]]

--------------------------------------------------------------------------------
(***************************************************************************)
(* evaluate_signal                                                         *)
(***************************************************************************)
Breaks(d, m, c) ==
  \/ d = "UP"   /\ m.prev > m.hi + c.buffer /\ m.last > m.prev
  \/ d = "DOWN" /\ m.prev < m.lo - c.buffer /\ m.last < m.prev

Stop(d, m) == IF d = "UP" THEN m.lo ELSE m.hi

Sideways(d, m, c) == Regime(m.last, c.ref, Option[d], "SELL") = "Sideways"

\* In a sideways market the lots shrink, and may become none.
Lots(d, m, c, re) ==
  IF Sideways(d, m, c) THEN RoundedQuotient(BaseLots(d, c, re) * c.percent, 100)
  ELSE BaseLots(d, c, re)

SidewaysTaken(d, m, c, re) == c.sideways /\ c.percent # 0 /\ Lots(d, m, c, re) # 0

\* How far the target is to be, if it is known.
Points(d, m, c) ==
  IF c.target = "fixed" THEN c.fixed
  ELSE IF c.target # "ATR" \/ m.atr = NoPrice THEN NoPrice
  ELSE m.atr * (IF c.sideways /\ Sideways(d, m, c) THEN c.sidewaysMultiplier ELSE c.multiplier)

Target(d, m, c) ==
  LET p == Points(d, m, c) IN
  IF p = NoPrice THEN NoPrice
  ELSE IF d = "UP" THEN m.hi + c.buffer + p ELSE m.lo - c.buffer - p

\* At least three quarters of the way are still ahead.
TargetAhead(d, m, c) ==
  LET gap == IF d = "UP" THEN Target(d, m, c) - m.last ELSE m.last - Target(d, m, c)
  IN  gap > 0 /\ 4 * gap >= 3 * Points(d, m, c)

Taken(d, m, c, re) ==
  /\ m.hi # NoPrice /\ m.lo # NoPrice
  /\ Breaks(d, m, c)
  /\ SmartOn(c) => SmartValid(d, m, c, re)
  /\ Sideways(d, m, c) => SidewaysTaken(d, m, c, re)
  /\ Points(d, m, c) # NoPrice => TargetAhead(d, m, c)

\* The signal, or none.
Signals(m, c, re) ==
  {[dir |-> d, option |-> Option[d], lots |-> Lots(d, m, c, re), entry |-> m.last,
    stop |-> Stop(d, m), target |-> Target(d, m, c)] : d \in {x \in Directions : Taken(x, m, c, re)}}

--------------------------------------------------------------------------------
(***************************************************************************)
(* evaluate_exit.  Here m also has first and second, the first candles of   *)
(* the day, and rsi, each of which may be missing (NoPrice), and settled:   *)
(* whether prev came after the second candle of the day.                   *)
(***************************************************************************)
NextDay(o, t) == t.day > o.day

\* Priority 1: when the market has opened beyond the stop, the stop moves to the
\* far end of the first candle there is; looked at for one candle only.
GapStop(o, m, t) ==
  LET f == IF m.first # NoPrice THEN m.first ELSE m.second IN
  IF /\ NextDay(o, t) /\ t.slot = 1 /\ f # NoPrice
     /\ IF o.dir = "UP" THEN f.open < o.stop ELSE f.open > o.stop
  THEN IF o.dir = "UP" THEN f.low ELSE f.high
  ELSE o.stop

\* Priorities 2 and 5: two closes beyond the stop, the second the farther.
StopHit(d, stop, m) ==
  \/ d = "UP"   /\ m.prev < stop /\ m.last < m.prev
  \/ d = "DOWN" /\ m.prev > stop /\ m.last > m.prev

Buffered(d, stop, c) == IF d = "UP" THEN stop - c.slBuffer ELSE stop + c.slBuffer

TargetHit(o, m) ==
  /\ o.target # NoPrice
  /\ IF o.dir = "UP" THEN m.last >= o.target ELSE m.last <= o.target

\* Priority 4: the stop follows the swings, in the favourable direction only.
Trailed(d, stop, m) ==
  IF m.hi = NoPrice \/ m.lo = NoPrice THEN stop
  ELSE IF d = "UP" THEN Max({stop, m.lo}) ELSE Min({stop, m.hi})

\* Priority 5, without the buffer, and only while carry_forward is enabled.
NextDayHit(o, stop, m, c, t) ==
  c.carryForward /\ NextDay(o, t) /\ m.settled /\ StopHit(o.dir, stop, m)

\* Day 0 is a Monday.  Without a list of holidays, c.holidays is empty.
Holiday(day, c) == day % 7 \in {5, 6} \/ day \in c.holidays

HolidayExit(c, t) == c.holidayExit /\ Holiday(t.day + 1, c) /\ t.slot = 3

\* Priority 7: unless the order was entered beyond the level to ignore.
RsiExit(o, m, c) ==
  /\ c.rsiExit /\ m.rsi # NoPrice
  /\ IF o.dir = "UP"
     THEN m.rsi >= c.rsi.ceTarget /\ ~(o.rsi # NoPrice /\ o.rsi >= c.rsi.ceIgnore)
     ELSE m.rsi <= c.rsi.peTarget /\ ~(o.rsi # NoPrice /\ o.rsi <= c.rsi.peIgnore)

\* A mutant: the order is kept on the day it should leave.
ExpiryExitLater(o, c, t) == c.expiryExit /\ t.slot = 3 /\ t.day > o.expiry - c.daysBefore

ExpiryExit(o, c, t) == c.expiryExit /\ t.slot = 3 /\ t.day >= o.expiry - c.daysBefore

SquareOff(c, t) == ~c.carryForward /\ t.slot = 3

\* The status the order gets, "OPEN" for none, and the stop it is left with: the
\* first reason that holds, in the order of priority.
Exit(o, m, c, t) ==
  LET gap     == GapStop(o, m, t)
      trailed == Trailed(o.dir, gap, m)
      reasons == << <<StopHit(o.dir, Buffered(o.dir, gap, c), m), "EXIT_STOPLOSS", gap>>,
                    <<TargetHit(o, m), "EXIT_TARGET", gap>>,
                    <<NextDayHit(o, trailed, m, c, t), "EXIT_STOPLOSS", trailed>>,
                    <<HolidayExit(c, t), "EXIT_HOLIDAY", trailed>>,
                    <<RsiExit(o, m, c), "EXIT_RSI_TARGET", trailed>>,
                    <<ExpiryExit(o, c, t), "EXIT_EXPIRY", trailed>>,
                    <<SquareOff(c, t), "EXIT_EOD", trailed>>,
                    <<TRUE, "OPEN", trailed>> >>
      first   == reasons[SelectInSeq(reasons, LAMBDA r : r[1])]
  IN  [status |-> first[2], stop |-> first[3]]

================================================================================
