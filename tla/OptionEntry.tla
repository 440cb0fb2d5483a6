------------------------------ MODULE OptionEntry ------------------------------
(***************************************************************************)
(* How the two option strategies enter, over one trading day: process_cycle  *)
(* with its limit and its strikes, the memory of positions and of the last   *)
(* direction that each cycle takes from the table orders, and process_order   *)
(* with the hedge of the seller, in option_buy.py and option_sell.py.  The    *)
(* monitors close orders meanwhile, a cycle may be cut off, the process may   *)
(* be restarted and forget what is not in the table, and each call of the     *)
(* order manager may fail: "faults" keeps which did.                        *)
(*                                                                         *)
(* "own" is the direction a strategy trades in: BUY for the buyer, SELL for   *)
(* the seller.                                                             *)
(***************************************************************************)
EXTENDS Integers, FiniteSets

CONSTANTS Strikes,      \* what setup() has chosen for the day
          MaxOrders,    \* bound: the rows of a day
          MaxTrades,    \* max_trades of the symbol
          MaxCuts,      \* bound: cycles that are cut off, restarts, and faults
          Modes,        \* configurations: the seller or not; rows is a bound too
          NoOrder, NoStrike

Rows == 1..MaxOrders

OptionConstants ==
  /\ MaxOrders \in Nat /\ MaxTrades \in Nat /\ MaxCuts \in Nat
  /\ Modes \subseteq [sell : BOOLEAN, rows : Rows]
  /\ NoOrder \notin 1..MaxOrders /\ NoStrike \notin Strikes

VARIABLES mode,     \* the configuration
          chart,    \* the supertrend of the last two candles, by strike
          row,      \* the rows of the table orders
          held,     \* the orders a broker has
          last,     \* the strikes whose _last_signal_direction is own
          run,      \* the cycle of the runner
          cut,      \* the orders of cycles that were cut off
          faults,   \* the calls that failed: at what, and of which order
          cuts      \* how many cycles were cut off, and calls failed

optionVars == <<mode, chart, row, held, last, run, cut, faults, cuts>>

\* No row yet.  A hedge is `of` its main order.
NoRow == [kind |-> "none", of |-> NoOrder, strike |-> NoStrike, status |-> "none", answer |-> "none"]

\* left are the strikes that are still to be evaluated after this one.
Idle == [pc |-> "idle", left |-> {}, strike |-> NoStrike, hedge |-> NoOrder, main |-> NoOrder]

At(pc)  == run.pc = pc
Go(pc)  == run' = [run EXCEPT !.pc = pc]
OfCycle == {run.hedge, run.main} \ {NoOrder}
RowsOf(s) == {o \in Rows : row[o].strike = s}
SetStatus(o, s) == row' = [row EXCEPT ![o].status = s]

Fault(what, o) ==
  /\ cuts < MaxCuts
  /\ cuts' = cuts + 1
  /\ faults' = faults \union {<<what, o>>}

\* Orders whose place_order raised, hedges that were not linked, and orders whose exit failed.
Unplaced == {o \in Rows : <<"placing", o>> \in faults}
Unlinked == {h \in Rows : <<"link", h>> \in faults}
Unexited == {h \in Rows : <<"exit", h>> \in faults}

--------------------------------------------------------------------------------
(***************************************************************************)
(* The cycle.                                                              *)
(***************************************************************************)

\* The directions of the next candle.  A cycle evaluates the candles it has fetched.
NextCandle ==
  /\ At("idle")
  /\ \E d \in [Strikes -> {"own", "other"}] :
       chart' = [s \in Strikes |-> [prev |-> chart[s].curr, curr |-> d[s]]]
  /\ UNCHANGED <<mode, row, held, last, run, cut, faults, cuts>>

\* check_trade_limits counts the completed orders of the day, hedges included.
Completed == {o \in Rows : row[o].status \in {"EXITED", "CLOSED"}}

\* sync_open_positions: the strikes with open rows are the _positions of the cycle,
\* and none of these is evaluated; the side of the latest row, whatever its status,
\* is the last direction.
Synced == {s \in Strikes : \E o \in RowsOf(s) : row[o].status = "AWAITING"}

Latest == last \union {s \in Strikes : RowsOf(s) # {}}

\* A mutant: sync_open_positions is not called.
CycleUnsynced ==
  /\ At("idle")
  /\ Cardinality(Completed) < MaxTrades
  /\ last' = last
  /\ run' = [Idle EXCEPT !.pc = "strikes", !.left = Strikes]
  /\ UNCHANGED <<mode, chart, row, held, cut, faults, cuts>>

Cycle ==
  /\ At("idle")
  /\ Cardinality(Completed) < MaxTrades
  /\ last' = Latest
  /\ run' = [Idle EXCEPT !.pc = "strikes", !.left = Strikes \ Synced]
  /\ UNCHANGED <<mode, chart, row, held, cut, faults, cuts>>

BuyCycle  == ~mode.sell /\ Cycle
SellCycle == mode.sell /\ Cycle

--------------------------------------------------------------------------------
(***************************************************************************)
(* evaluate_signal, for one strike after the other.                        *)
(***************************************************************************)
Flipped(s) == chart[s].curr = "other"

\* No stacking in the same direction; a reversal is not entered on its first candle.
MayEnter(s) == chart[s].prev = "own" /\ chart[s].curr = "own" /\ s \notin last

\* No signal.  A candle of the other direction resets the last direction, but
\* not if it is too large to be looked at.
Skip(s) ==
  /\ At("strikes") /\ s \in run.left
  /\ run' = [run EXCEPT !.left = @ \ {s}]
  /\ \/ last' = last
     \/ Flipped(s) /\ last' = last \ {s}
  /\ UNCHANGED <<mode, chart, row, held, cut, faults, cuts>>

\* The strike is remembered before anything is placed.
Enter(s) ==
  /\ At("strikes") /\ s \in run.left
  /\ MayEnter(s)
  /\ last' = last \union {s}
  /\ run' = [run EXCEPT !.left = @ \ {s}, !.strike = s, !.pc = IF mode.sell THEN "hedge" ELSE "main"]
  /\ UNCHANGED <<mode, chart, row, held, cut, faults, cuts>>

BuySignal  == ~mode.sell /\ \E s \in run.left : Skip(s) \/ Enter(s)
SellSignal == mode.sell /\ \E s \in run.left : Skip(s) \/ Enter(s)

NothingLeft ==
  /\ At("strikes") /\ run.left = {}
  /\ run' = Idle
  /\ UNCHANGED <<mode, chart, row, held, last, cut, faults, cuts>>

--------------------------------------------------------------------------------
(***************************************************************************)
(* process_order.  When it returns None, or raises, the next strike is      *)
(* evaluated.                                                              *)
(***************************************************************************)
NextStrike == run' = [Idle EXCEPT !.pc = "strikes", !.left = run.left]

\* No hedge symbol, no row, or an exception before there is a row.
NoOrderPlaced ==
  /\ run.pc \in {"hedge", "main"} /\ run.hedge = NoOrder
  /\ NextStrike
  /\ UNCHANGED <<mode, chart, row, held, last, cut, faults, cuts>>

Unused == {o \in 1..mode.rows : row[o].kind = "none"}
Fresh  == CHOOSE o \in Unused : \A u \in Unused : o <= u

\* Taken by some broker, failed at all of them, or not taken without all of them
\* saying so, as in SwingEntry.
Answers == {"taken", "failed", "unclear"}

\* The strike_symbol of a hedge is none of the strikes of the strategy.
Place(kind, strike, answer) ==
  /\ Unused # {}
  /\ row' = [row EXCEPT ![Fresh] = [kind |-> kind, of |-> NoOrder, strike |-> strike,
                                    status |-> "AWAITING", answer |-> answer]]
  /\ held' = IF answer = "taken" THEN held \union {Fresh} ELSE held

\* place_order raises once there is a row, its commit at the latest: whatever the
\* brokers answered, the strategy does not know the order.
PlaceRaises(kind, strike) ==
  /\ \E answer \in Answers : Place(kind, strike, answer)
  /\ Fault("placing", Fresh)

BuyMain ==
  /\ ~mode.sell /\ At("main")
  /\ \E answer \in Answers : Place("main", run.strike, answer)
  /\ run' = [run EXCEPT !.main = Fresh, !.pc = "return"]
  /\ UNCHANGED <<mode, chart, last, cut, faults, cuts>>

BuyRaises ==
  /\ ~mode.sell /\ At("main")
  /\ PlaceRaises("main", run.strike)
  /\ NextStrike
  /\ UNCHANGED <<mode, chart, last, cut>>

PlaceHedge ==
  /\ mode.sell /\ At("hedge")
  /\ \E answer \in Answers :
       /\ Place("hedge", NoStrike, answer)
       /\ run' = [run EXCEPT !.hedge = Fresh, !.pc = IF answer = "failed" THEN "unhedged" ELSE "main"]
  /\ UNCHANGED <<mode, chart, last, cut, faults, cuts>>

HedgeRaises ==
  /\ mode.sell /\ At("hedge")
  /\ PlaceRaises("hedge", NoStrike)
  /\ NextStrike
  /\ UNCHANGED <<mode, chart, last, cut>>

\* All hedge orders failed.
Unhedged ==
  /\ At("unhedged")
  /\ SetStatus(run.hedge, "CLOSED")
  /\ NextStrike
  /\ UNCHANGED <<mode, chart, held, last, cut, faults, cuts>>

\* The exit of nothing, or the status, fails.
UnhedgedFails ==
  /\ At("unhedged")
  /\ NextStrike
  /\ Fault("status", run.hedge)
  /\ UNCHANGED <<mode, chart, row, held, last, cut>>

SellMain ==
  /\ mode.sell /\ At("main")
  /\ \E answer \in Answers : Place("main", run.strike, answer)
  /\ run' = [run EXCEPT !.main = Fresh, !.pc = "link"]
  /\ UNCHANGED <<mode, chart, last, cut, faults, cuts>>

\* The except branch: the main order has no row, ...
NoMain ==
  /\ mode.sell /\ At("main")
  /\ Go("unwind")
  /\ UNCHANGED <<mode, chart, row, held, last, cut, faults, cuts>>

\* ... or it has one, and brokers that took it.
SellRaises ==
  /\ mode.sell /\ At("main")
  /\ PlaceRaises("main", run.strike)
  /\ Go("unwind")
  /\ UNCHANGED <<mode, chart, last, cut>>

\* set_parent_order_id; and the status of an order that all brokers say failed.
\* When either cannot be written that is logged, and the cycle goes on.
Linked     == [row EXCEPT ![run.hedge].of = run.main]
Refused    == row[run.main].answer = "failed"
Written(r) == IF Refused THEN [r EXCEPT ![run.main].status = "ENTRY_FAILED"] ELSE r
AfterMain  == Go(IF Refused THEN "unwind" ELSE "return")

Link ==
  /\ At("link")
  /\ row' = Written(Linked)
  /\ AfterMain
  /\ UNCHANGED <<mode, chart, held, last, cut, faults, cuts>>

LinkFails ==
  /\ At("link")
  /\ row' = Written(row)
  /\ AfterMain
  /\ Fault("link", run.hedge)
  /\ UNCHANGED <<mode, chart, held, last, cut>>

RefusalUnwritten ==
  /\ At("link") /\ Refused
  /\ row' = Linked
  /\ AfterMain
  /\ Fault("status", run.main)
  /\ UNCHANGED <<mode, chart, held, last, cut>>

\* A mutant: the hedge stays.
UnwindNothing ==
  /\ At("unwind")
  /\ SetStatus(run.hedge, "EXITED")
  /\ Go("return")
  /\ UNCHANGED <<mode, chart, held, last, cut, faults, cuts>>

\* The hedge is exited, and its row returned in place of an order; not if the request
\* of the main order could not be made, but what is returned is told apart in
\* SwingEntry only.
Unwind ==
  /\ At("unwind")
  /\ held' = held \ {run.hedge}
  /\ SetStatus(run.hedge, "EXITING")
  /\ Go("return")
  /\ UNCHANGED <<mode, chart, last, cut, faults, cuts>>

\* The exit raises, and the row is returned all the same; or it does nothing and
\* does not say so, as when a broker has no object.
UnwindFails ==
  /\ At("unwind")
  /\ row' = row \/ SetStatus(run.hedge, "EXITING")
  /\ Go("return")
  /\ Fault("exit", run.hedge)
  /\ UNCHANGED <<mode, chart, held, last, cut>>

\* The exit is made and its status not written: nothing is returned.
UnwindUnwritten ==
  /\ At("unwind")
  /\ held' = held \ {run.hedge}
  /\ NextStrike
  /\ Fault("status", run.hedge)
  /\ UNCHANGED <<mode, chart, row, last, cut>>

\* The runner queues what was placed.
Return ==
  /\ At("return")
  /\ run' = Idle
  /\ UNCHANGED <<mode, chart, row, held, last, cut, faults, cuts>>

--------------------------------------------------------------------------------
(***************************************************************************)
(* The monitors, and what cuts a cycle off.                                *)
(***************************************************************************)

\* A runner that is cancelled, with the instance kept for the next one or not.
CutOff ==
  /\ cuts < MaxCuts
  /\ cuts' = cuts + 1
  /\ cut' = cut \union OfCycle
  /\ run' = Idle
  /\ last' \in {last, {}}
  /\ UNCHANGED <<mode, chart, row, held, faults>>

\* Orders that may have a monitor: those of the cycle have none yet.  What a fault
\* has hidden gets one with the next restart.
Watched(o) == o \notin OfCycle /\ row[o].status \in {"AWAITING", "EXITING"}

MonitorExit(o) ==
  /\ Watched(o) /\ o \in held
  /\ row[o].of = NoOrder /\ row[o].status = "AWAITING"
  /\ held' = held \ {o}
  /\ SetStatus(o, "EXITING")
  /\ UNCHANGED <<mode, chart, last, run, cut, faults, cuts>>

\* The exit does nothing and does not say so.
MonitorExitFails(o) ==
  /\ Watched(o) /\ o \in held
  /\ row[o].of = NoOrder /\ row[o].status = "AWAITING"
  /\ SetStatus(o, "EXITING")
  /\ Fault("exit", o)
  /\ UNCHANGED <<mode, chart, held, last, run, cut>>

Hedges(o) == {h \in Rows : row[h].of = o}

Ended(o, status) ==
  [r \in Rows |-> IF r = o THEN [row[r] EXCEPT !.status = status]
                  ELSE IF r \in Hedges(o) THEN [row[r] EXCEPT !.status = "CLOSED"] ELSE row[r]]

\* With an order its hedges are closed, or their exit fails and they stay: when it
\* raises their rows stay too.
Closing(o, status) ==
  \/ /\ row' = Ended(o, status)
     /\ held' = held \ Hedges(o)
     /\ UNCHANGED <<faults, cuts>>
  \/ /\ row' = Ended(o, status) \/ SetStatus(o, status)
     /\ \E h \in Hedges(o) : Fault("exit", h)
     /\ held' = held

MonitorDead(o) ==
  /\ Watched(o) /\ o \notin held
  /\ row[o].status = "AWAITING"
  /\ Closing(o, "FAILED")
  /\ UNCHANGED <<mode, chart, last, run, cut>>

\* EXIT_CLOSED, the end of an unwound hedge, is not CLOSED.
MonitorComplete(o) ==
  /\ Watched(o)
  /\ row[o].status = "EXITING" /\ Closing(o, IF row[o].of = NoOrder THEN "EXITED" ELSE "EXIT_CLOSED")
  /\ UNCHANGED <<mode, chart, last, run, cut>>

--------------------------------------------------------------------------------
OptionInit ==
  /\ mode \in Modes
  /\ chart = [s \in Strikes |-> [prev |-> "other", curr |-> "other"]]
  /\ row = [o \in Rows |-> NoRow]
  /\ held = {} /\ last = {} /\ cut = {} /\ faults = {} /\ cuts = 0
  /\ run = Idle

OptionNext ==
  \/ NextCandle \/ BuyCycle \/ SellCycle \/ BuySignal \/ SellSignal \/ NothingLeft
  \/ NoOrderPlaced \/ BuyMain \/ BuyRaises \/ PlaceHedge \/ HedgeRaises \/ Unhedged \/ UnhedgedFails
  \/ SellMain \/ NoMain \/ SellRaises \/ Link \/ LinkFails \/ RefusalUnwritten
  \/ Unwind \/ UnwindFails \/ UnwindUnwritten \/ Return
  \/ CutOff
  \/ \E o \in Rows : MonitorExit(o) \/ MonitorExitFails(o) \/ MonitorDead(o) \/ MonitorComplete(o)

OptionSpec == OptionInit /\ [][OptionNext]_optionVars

--------------------------------------------------------------------------------
OptionTypeOK ==
  /\ mode \in Modes
  /\ chart \in [Strikes -> [prev : {"own", "other"}, curr : {"own", "other"}]]
  /\ \A o \in Rows : row[o].of \in Rows \union {NoOrder} /\ row[o].strike \in Strikes \union {NoStrike}
  /\ last \subseteq Strikes
  /\ \A o \in held : row[o].kind \in {"main", "hedge"}
  /\ faults \subseteq {"placing", "link", "exit", "status"} \X Rows

\* While an order of a strike is open no other is placed there, though cycles are
\* cut off, calls fail, and what the strategy remembers is lost (option_buy.py:624).
OneOpenPerStrike == \A s \in Strikes : Cardinality({o \in RowsOf(s) : row[o].status = "AWAITING"}) <= 1

\* The seller has the hedge, placed just before, of every order it has sold, if
\* the answers to the hedge were clear, but for cycles that were cut off, orders
\* whose place_order raised or whose exit failed, and hedges that could not be linked.
OptionsHedged ==
  mode.sell => \A o \in held \ (cut \union Unplaced \union Unexited) :
    row[o].kind = "main" => o - 1 \in held \union Unlinked \/ row[o - 1].answer = "unclear"

\* A hedge does not outlive its order, unless a call failed at placing, linking or
\* exiting it: its cycle is still at it, or it is linked to an order whose end will
\* end it too.
OptionHedgesEnd ==
  \A h \in held \ (OfCycle \union cut \union Unplaced \union Unlinked \union Unexited) :
    row[h].kind = "hedge" => row[h].of # NoOrder /\ row[row[h].of].status \in {"AWAITING", "EXITING"}

\* Order and hedge come and go together, whichever orders the brokers refuse and
\* whichever calls fail, but for those that failed at this very pair
\* (option_sell.py:651, option_sell.py:827).
OptionHedging == OptionsHedged /\ OptionHedgesEnd

================================================================================
