------------------------------ MODULE SwingEntry -------------------------------
(***************************************************************************)
(* How the two swing strategies enter, over one trading day of one symbol:   *)
(* process_cycle with its limit, its positions and its re-entries,           *)
(* process_order with the hedge of the seller, the confirmation on the next  *)
(* candle, and the hand-over to the monitors, in swing_highlow_buy.py and    *)
(* swing_highlow_sell.py.  Between two awaits the monitors move, the runner   *)
(* may be cancelled, an exception may end the cycle, the process may be       *)
(* restarted, and a call may fail and be passed over: "faults" keeps which.  *)
(*                                                                         *)
(* Whether there is a signal, a pullback or a confirmation is left open.  An  *)
(* order is held while some broker has it; exit_order closes it (ExitOrder    *)
(* says how).  The monitor of an order is what OrderMonitor promises.        *)
(***************************************************************************)
EXTENDS Integers, FiniteSets

CONSTANTS MaxOrders,    \* bound: the rows of a day
          MaxTrades,    \* max_trades of the symbol
          MaxCuts,      \* bound: cycles that are cut off, restarts, and faults
          Modes,        \* configurations: sell, atomic, smart; rows is a bound too
          NoOrder

Rows == 1..MaxOrders

EntryConstants ==
  /\ MaxOrders \in Nat /\ MaxTrades \in Nat /\ MaxCuts \in Nat
  /\ Modes \subseteq [sell : BOOLEAN, atomic : BOOLEAN, smart : BOOLEAN, rows : Rows]
  /\ NoOrder \notin 1..MaxOrders

VARIABLES mode,       \* the configuration
          row,        \* the rows of the table orders
          held,       \* the orders a broker has
          watched,    \* the orders that have a monitor
          track,      \* the rows of re_entry_tracking, by parent
          run,        \* the cycle of the runner
          cut,        \* the orders of cycles that ended before the hand-over
          faults,     \* the calls that failed: at what, and of which order
          cuts        \* how many cycles ended so, and calls failed

entryVars == <<mode, row, held, watched, track, run, cut, faults, cuts>>

\* No row yet.  A hedge is `of` its main order, a re-entry comes `after` its parent.
NoRow == [kind |-> "none", of |-> NoOrder, after |-> NoOrder, status |-> "none", answer |-> "none"]

\* The tracking of an order is new until its pullback is touched.  Its record is
\* made by calculate_and_store_pullback_level, which may fail, or by the look for a
\* re-entry: whether there is one yet makes no difference.
NewTracks == [o \in Rows |-> "new"]

\* left are the positions still to be looked at for a re-entry after parent.
Idle == [pc |-> "idle", left |-> {}, parent |-> NoOrder, hedge |-> NoOrder, main |-> NoOrder]

Live      == {"AWAITING", "EXITING", "ATOMIC_PENDING"}
OfCycle   == {run.hedge, run.main} \ {NoOrder}
At(pc)    == run.pc = pc
Go(pc)    == run' = [run EXCEPT !.pc = pc]
ReEntry   == run.parent # NoOrder
Open(o)   == row[o].status = "AWAITING"
SetStatus(o, s) == row' = [row EXCEPT ![o].status = s]

Fault(what, o) ==
  /\ cuts < MaxCuts
  /\ cuts' = cuts + 1
  /\ faults' = faults \union {<<what, o>>}

\* Orders whose place_order raised, whose status was not written, whose exit failed;
\* hedges that were not linked, or not returned; and parents whose re-entry was
\* not recorded.
Unplaced   == {o \in Rows : <<"placing", o>> \in faults}
Unmarked   == {o \in Rows : <<"status", o>> \in faults}
Unexited   == {o \in Rows : <<"exit", o>> \in faults}
Unlinked   == {h \in Rows : <<"link", h>> \in faults}
Unreturned == {h \in Rows : <<"return", h>> \in faults}
Unrecorded == {p \in Rows : <<"attempt", p>> \in faults}

--------------------------------------------------------------------------------
(***************************************************************************)
(* The cycle.                                                              *)
(***************************************************************************)

\* A mutant: only what a broker has counts.
HeldPositions == {o \in held : Open(o)}

\* sync_open_positions: the rows of the day whose status counts as open, be they
\* of main orders or of hedges.
Positions == {o \in Rows : Open(o)}

\* check_trade_limits counts whatever has one of the completed statuses, a hedge
\* that was closed with its order or never taken among them; but nothing that is
\* still on its way out.
Completed == {o \in Rows : row[o].status \in {"EXITED", "CLOSED", "ATOMIC_FAILED"}}

Cycle ==
  /\ At("idle")
  /\ Cardinality(Completed) < MaxTrades
  /\ \/ Positions = {} /\ Go("signal")
     \/ Positions # {} /\ mode.smart /\ run' = [run EXCEPT !.pc = "look", !.left = Positions]
  /\ UNCHANGED <<mode, row, held, watched, track, cut, faults, cuts>>

BuyCycle  == ~mode.sell /\ Cycle
SellCycle == mode.sell /\ Cycle

Order == IF mode.sell THEN "hedge" ELSE "main"

Evaluate ==
  /\ At("signal")
  /\ Go(Order) \/ run' = Idle
  /\ UNCHANGED <<mode, row, held, watched, track, cut, faults, cuts>>

--------------------------------------------------------------------------------
(***************************************************************************)
(* check_re_entry_logic and _check_position_re_entry.                       *)
(***************************************************************************)

\* Positions come with the latest first.
Looked(p) == At("look") /\ p \in run.left /\ \A q \in run.left : q <= p

\* The flags are only ever set.
Touched(p)   == [track EXCEPT ![p] = IF @ = "new" THEN "touched" ELSE @]
Attempted(p) == [track EXCEPT ![p] = "attempted"]

\* The record of the position is created when it is missing.  The touch of the
\* pullback is written, and seen by the next cycle only.  Either may fail.
Touch(p) ==
  /\ Looked(p) /\ row[p].kind = "main"
  /\ track[p] = "new"
  /\ track' \in {track, Touched(p)}
  /\ run' = [run EXCEPT !.left = @ \ {p}]
  /\ UNCHANGED <<mode, row, held, watched, cut, faults, cuts>>

\* Nothing to be done for this position: a hedge, a re-entry already made, or
\* no signal in the direction of the position.
Pass(p) ==
  /\ Looked(p)
  /\ row[p].kind = "hedge" \/ track[p] \in {"touched", "attempted"}
  /\ run' = [run EXCEPT !.left = @ \ {p}]
  /\ UNCHANGED <<mode, row, held, watched, track, cut, faults, cuts>>

Again(p) ==
  /\ Looked(p) /\ row[p].kind = "main"
  /\ track[p] = "touched"
  /\ run' = [run EXCEPT !.pc = Order, !.left = @ \ {p}, !.parent = p]
  /\ UNCHANGED <<mode, row, held, watched, track, cut, faults, cuts>>

LookedAtAll ==
  /\ At("look") /\ run.left = {}
  /\ run' = Idle
  /\ UNCHANGED <<mode, row, held, watched, track, cut, faults, cuts>>

BuyLook  == ~mode.sell /\ (LookedAtAll \/ \E p \in run.left : Touch(p) \/ Pass(p) \/ Again(p))
SellLook == mode.sell /\ (LookedAtAll \/ \E p \in run.left : Touch(p) \/ Pass(p) \/ Again(p))

--------------------------------------------------------------------------------
(***************************************************************************)
(* process_order.                                                          *)
(***************************************************************************)
Unused == {o \in 1..mode.rows : row[o].kind = "none"}
Fresh  == CHOOSE o \in Unused : \A u \in Unused : o <= u

\* What the brokers answer: some broker took the order, all of them say it failed,
\* or it is not taken and not all say so.  A broker that raised, or is not up, is
\* {"status": False}, which is none of the statuses of a failure, and an order in
\* slices has no broker_responses.
Answers == {"taken", "failed", "unclear"}

\* place_order: the row says AWAITING_ENTRY whether the brokers take it or not.
Place(kind, after, answer) ==
  /\ Unused # {}
  /\ row' = [row EXCEPT ![Fresh] = [kind |-> kind, of |-> NoOrder, after |-> after,
                                    status |-> "AWAITING", answer |-> answer]]
  /\ held' = IF answer = "taken" THEN held \union {Fresh} ELSE held

\* It returns None: a first entry ends the cycle, a re-entry goes on with the
\* next position.
GivenUp ==
  run' = IF ReEntry THEN [Idle EXCEPT !.pc = "look", !.left = run.left] ELSE Idle

\* There is no row: no symbol for the hedge, or place_order returned None.
NoOrderPlaced ==
  /\ At(Order) /\ run.hedge = NoOrder
  /\ GivenUp
  /\ UNCHANGED <<mode, row, held, watched, track, cut, faults, cuts>>

\* place_order raises once there is a row, its commit at the latest: whatever the
\* brokers answered, the strategy does not know the order.
PlaceRaises(kind, after) ==
  /\ \E answer \in Answers : Place(kind, after, answer)
  /\ Fault("placing", Fresh)

\* A mutant: a hedge that no broker took does not stop the order it protects.
PlaceHedgeAnyway ==
  /\ At("hedge")
  /\ \E answer \in Answers :
       /\ Place("hedge", NoOrder, answer)
       /\ run' = [run EXCEPT !.hedge = Fresh, !.pc = "main"]
  /\ UNCHANGED <<mode, watched, track, cut, faults, cuts>>

PlaceHedge ==
  /\ At("hedge")
  /\ \E answer \in Answers :
       /\ Place("hedge", NoOrder, answer)
       /\ run' = [run EXCEPT !.hedge = Fresh, !.pc = IF answer = "failed" THEN "unhedged" ELSE "main"]
  /\ UNCHANGED <<mode, watched, track, cut, faults, cuts>>

HedgeRaises ==
  /\ At("hedge")
  /\ PlaceRaises("hedge", NoOrder)
  /\ GivenUp
  /\ UNCHANGED <<mode, watched, track, cut>>

\* All hedge orders failed.
Unhedged ==
  /\ At("unhedged")
  /\ SetStatus(run.hedge, "CLOSED")
  /\ GivenUp
  /\ UNCHANGED <<mode, held, watched, track, cut, faults, cuts>>

\* The exit of nothing, or the status, fails.
UnhedgedFails ==
  /\ At("unhedged")
  /\ GivenUp
  /\ Fault("status", run.hedge)
  /\ UNCHANGED <<mode, row, held, watched, track, cut>>

BuyMain ==
  /\ ~mode.sell /\ At("main")
  /\ \E answer \in Answers : Place("main", run.parent, answer)
  /\ run' = [run EXCEPT !.main = Fresh, !.pc = "placed"]
  /\ UNCHANGED <<mode, watched, track, cut, faults, cuts>>

BuyRaises ==
  /\ ~mode.sell /\ At("main")
  /\ PlaceRaises("main", run.parent)
  /\ GivenUp
  /\ UNCHANGED <<mode, watched, track, cut>>

SellMain ==
  /\ mode.sell /\ At("main")
  /\ \E answer \in Answers : Place("main", run.parent, answer)
  /\ run' = [run EXCEPT !.main = Fresh, !.pc = "link"]
  /\ UNCHANGED <<mode, watched, track, cut, faults, cuts>>

\* The except branch: the main order has no row, ...
NoMain ==
  /\ mode.sell /\ At("main")
  /\ Go("unwind")
  /\ UNCHANGED <<mode, row, held, watched, track, cut, faults, cuts>>

\* ... or it has one, and brokers that took it; ...
SellRaises ==
  /\ mode.sell /\ At("main")
  /\ PlaceRaises("main", run.parent)
  /\ Go("unwind")
  /\ UNCHANGED <<mode, watched, track, cut>>

\* ... or there is not even its request, of which the result would be made.
Unbuilt ==
  /\ mode.sell /\ At("main")
  /\ Go("unbuilt")
  /\ Fault("return", run.hedge)
  /\ UNCHANGED <<mode, row, held, watched, track, cut>>

\* set_parent_order_id; and the status of an order that all brokers say failed.
\* When either cannot be written that is logged, and the cycle goes on.
Linked     == [row EXCEPT ![run.hedge].of = run.main]
Failed     == row[run.main].answer = "failed"
Written(r) == IF Failed THEN [r EXCEPT ![run.main].status = "FAILED"] ELSE r
AfterMain  == Go(IF Failed THEN "unwind" ELSE "placed")

Link ==
  /\ At("link")
  /\ row' = Written(Linked)
  /\ AfterMain
  /\ UNCHANGED <<mode, held, watched, track, cut, faults, cuts>>

LinkFails ==
  /\ At("link")
  /\ row' = Written(row)
  /\ AfterMain
  /\ Fault("link", run.hedge)
  /\ UNCHANGED <<mode, held, watched, track, cut>>

FailureUnwritten ==
  /\ At("link") /\ Failed
  /\ row' = Linked
  /\ AfterMain
  /\ Fault("status", run.main)
  /\ UNCHANGED <<mode, held, watched, track, cut>>

\* A mutant: the hedge is only marked.
UnwindNothing ==
  /\ At("unwind")
  /\ SetStatus(run.hedge, "EXITING")
  /\ run' = [run EXCEPT !.main = NoOrder, !.pc = "placed"]
  /\ UNCHANGED <<mode, held, watched, track, cut, faults, cuts>>

\* The hedge is exited, and its row returned in place of an order.
Unwind ==
  /\ At("unwind")
  /\ held' = held \ {run.hedge}
  /\ SetStatus(run.hedge, "EXITING")
  /\ run' = [run EXCEPT !.main = NoOrder, !.pc = "placed"]
  /\ UNCHANGED <<mode, watched, track, cut, faults, cuts>>

\* The exit raises, and the row is returned all the same; or it does nothing and
\* does not say so, as when a broker has no object.
UnwindFails ==
  /\ At("unwind")
  /\ row' = row \/ SetStatus(run.hedge, "EXITING")
  /\ run' = [run EXCEPT !.main = NoOrder, !.pc = "placed"]
  /\ Fault("exit", run.hedge)
  /\ UNCHANGED <<mode, held, watched, track, cut>>

\* The exit is made and its status not written: nothing is returned.
UnwindUnwritten ==
  /\ At("unwind")
  /\ held' = held \ {run.hedge}
  /\ GivenUp
  /\ Fault("status", run.hedge)
  /\ UNCHANGED <<mode, row, watched, track, cut>>

\* Without the request nothing is returned, whatever becomes of the exit.
NotReturned ==
  /\ At("unbuilt")
  /\ held' \in {held, held \ {run.hedge}}
  /\ row' = row \/ SetStatus(run.hedge, "EXITING")
  /\ GivenUp
  /\ UNCHANGED <<mode, watched, track, cut, faults, cuts>>

--------------------------------------------------------------------------------
(***************************************************************************)
(* Confirmation on the next candle, and the hand-over.                      *)
(***************************************************************************)

\* An entry that all brokers say failed is returned at once.
Refused == ~ReEntry /\ mode.atomic /\ run.main # NoOrder /\ row[run.main].answer = "failed"

Placed ==
  /\ At("placed")
  /\ Go(IF ~Refused /\ (mode.atomic \/ ReEntry) THEN "confirm" ELSE "return")
  /\ UNCHANGED <<mode, row, held, watched, track, cut, faults, cuts>>

BuyPlaced  == ~mode.sell /\ Placed
SellPlaced == mode.sell /\ Placed

\* A mutant: what is marked as attempted is the re-entry itself.
ConfirmedSelf ==
  /\ At("confirm")
  /\ track' = IF ReEntry /\ run.main # NoOrder THEN Attempted(run.main) ELSE track
  /\ Go("return")
  /\ UNCHANGED <<mode, row, held, watched, cut, faults, cuts>>

\* A re-entry that is confirmed is the last one of its parent, even if it was
\* the hedge alone that was returned.
Confirmed ==
  /\ At("confirm")
  /\ track' = IF ReEntry THEN Attempted(run.parent) ELSE track
  /\ Go("return")
  /\ UNCHANGED <<mode, row, held, watched, cut, faults, cuts>>

\* The attempt cannot be written: that is logged.
AttemptUnwritten ==
  /\ At("confirm") /\ ReEntry
  /\ Go("return")
  /\ Fault("attempt", run.parent)
  /\ UNCHANGED <<mode, row, held, watched, track, cut>>

\* The order manager exits what is not confirmed.  The seller's re-entry calls the
\* strategy's own exit_order, which does nothing.
BuyUnconfirmed ==
  /\ ~mode.sell /\ At("confirm")
  /\ held' = held \ {run.main}
  /\ Go("mark")
  /\ UNCHANGED <<mode, row, watched, track, cut, faults, cuts>>

SellUnconfirmed ==
  /\ mode.sell /\ At("confirm")
  /\ held' = IF ReEntry THEN held ELSE held \ {run.main}
  /\ Go("mark")
  /\ UNCHANGED <<mode, row, watched, track, cut, faults, cuts>>

\* The exit does nothing and does not say so.
UnconfirmedStays ==
  /\ At("confirm") /\ run.main \in held
  /\ Go("mark")
  /\ Fault("exit", run.main)
  /\ UNCHANGED <<mode, row, held, watched, track, cut>>

Mark ==
  /\ At("mark")
  /\ row' = IF run.main = NoOrder THEN row ELSE [row EXCEPT ![run.main].status = "ATOMIC_PENDING"]
  /\ Go("return")
  /\ UNCHANGED <<mode, held, watched, track, cut, faults, cuts>>

\* A mutant: the hedge is not queued.
ReturnMain ==
  /\ At("return")
  /\ watched' = watched \union ({run.main} \ {NoOrder})
  /\ run' = Idle
  /\ UNCHANGED <<mode, row, held, track, cut, faults, cuts>>

\* The runner queues the order and its hedge, and each gets a monitor.
Return ==
  /\ At("return")
  /\ watched' = watched \union OfCycle
  /\ run' = Idle
  /\ UNCHANGED <<mode, row, held, track, cut, faults, cuts>>

\* The runner is cancelled, or an exception ends the cycle, or the re-entry, with None.
CutOff ==
  /\ ~At("idle") /\ cuts < MaxCuts
  /\ cuts' = cuts + 1
  /\ run' = Idle \/ GivenUp
  /\ cut' = cut \union OfCycle
  /\ UNCHANGED <<mode, row, held, watched, track, faults>>

--------------------------------------------------------------------------------
(***************************************************************************)
(* The monitors, and a restart.                                            *)
(***************************************************************************)

\* Hedges are exited with their main order; one that has not been linked to it is
\* no hedge to its monitor.
MonitorExit(o) ==
  /\ o \in watched \intersect held
  /\ row[o].of = NoOrder /\ row[o].status = "AWAITING"
  /\ held' = held \ {o}
  /\ SetStatus(o, "EXITING")
  /\ UNCHANGED <<mode, watched, track, run, cut, faults, cuts>>

\* The exit does nothing and does not say so.
MonitorExitFails(o) ==
  /\ o \in watched \intersect held
  /\ row[o].of = NoOrder /\ row[o].status = "AWAITING"
  /\ SetStatus(o, "EXITING")
  /\ Fault("exit", o)
  /\ UNCHANGED <<mode, held, watched, track, run, cut>>

Hedges(o) == {h \in Rows : row[h].of = o}

Ended(o, status) ==
  [r \in Rows |-> IF r = o THEN [row[r] EXCEPT !.status = status]
                  ELSE IF r \in Hedges(o) THEN [row[r] EXCEPT !.status = "CLOSED"] ELSE row[r]]

\* With an order its hedges are closed, whatever their status is; or their exit fails
\* and they stay: when it raises their rows stay too, and their monitors.
Closing(o, status) ==
  \/ /\ row' = Ended(o, status)
     /\ held' = held \ Hedges(o)
     /\ watched' = watched \ ({o} \union Hedges(o))
     /\ UNCHANGED <<faults, cuts>>
  \/ /\ \/ row' = Ended(o, status) /\ watched' = watched \ ({o} \union Hedges(o))
        \/ SetStatus(o, status) /\ watched' = watched \ {o}
     /\ \E h \in Hedges(o) : Fault("exit", h)
     /\ held' = held

\* An entry that no broker took, or the exchange rejected.
MonitorDead(o) ==
  /\ o \in watched \ held
  /\ row[o].status = "AWAITING"
  /\ Closing(o, "FAILED")
  /\ UNCHANGED <<mode, track, run, cut>>

\* A pending exit is completed without a look at the position; a hedge that was
\* exited for lack of its main order ends as EXIT_CLOSED, which is not CLOSED.
MonitorComplete(o) ==
  /\ o \in watched
  /\ \/ row[o].status = "EXITING" /\ Closing(o, IF row[o].of = NoOrder THEN "EXITED" ELSE "EXIT_CLOSED")
     \/ row[o].status = "ATOMIC_PENDING" /\ Closing(o, "ATOMIC_FAILED")
  /\ UNCHANGED <<mode, track, run, cut>>

\* After a restart get_all_open_orders finds what is to be monitored.
Reload ==
  /\ cuts < MaxCuts
  /\ cuts' = cuts + 1
  /\ run' = Idle
  /\ watched' = {o \in Rows : row[o].status \in Live}
  /\ cut' = cut \union OfCycle
  /\ UNCHANGED <<mode, row, held, track, faults>>

--------------------------------------------------------------------------------
EntryInit ==
  /\ mode \in Modes
  /\ row = [o \in Rows |-> NoRow]
  /\ held = {} /\ watched = {} /\ cut = {} /\ faults = {} /\ cuts = 0
  /\ track = NewTracks
  /\ run = Idle

EntryNext ==
  \/ BuyCycle \/ SellCycle \/ Evaluate
  \/ BuyLook \/ SellLook
  \/ NoOrderPlaced \/ PlaceHedge \/ HedgeRaises \/ Unhedged \/ UnhedgedFails
  \/ BuyMain \/ BuyRaises \/ SellMain \/ NoMain \/ SellRaises \/ Unbuilt
  \/ Link \/ LinkFails \/ FailureUnwritten
  \/ Unwind \/ UnwindFails \/ UnwindUnwritten \/ NotReturned
  \/ BuyPlaced \/ SellPlaced \/ Confirmed \/ AttemptUnwritten \/ BuyUnconfirmed \/ SellUnconfirmed
  \/ UnconfirmedStays
  \/ Mark \/ Return \/ CutOff
  \/ \E o \in Rows : MonitorExit(o) \/ MonitorExitFails(o) \/ MonitorDead(o) \/ MonitorComplete(o)
  \/ Reload

EntrySpec == EntryInit /\ [][EntryNext]_entryVars

--------------------------------------------------------------------------------
EntryTypeOK ==
  /\ mode \in Modes
  /\ \A o \in Rows : row[o].of \in Rows \union {NoOrder} /\ row[o].after \in Rows \union {NoOrder}
  /\ held \subseteq Rows /\ watched \subseteq Rows /\ cut \subseteq Rows
  /\ faults \subseteq {"placing", "status", "exit", "link", "return", "attempt"} \X Rows
  /\ \A o \in held \union watched : row[o].kind \in {"main", "hedge"}
  /\ track \in [Rows -> {"new", "touched", "attempted"}]

\* Whoever placed an order that is not finished still has it in hand, or has
\* passed it on to a monitor; unless the cycle was cut off, or place_order, the
\* writing of its status or its return failed (swing_highlow_sell.py:1634).
NothingUnwatched ==
  \A o \in Rows : row[o].status \in Live =>
    o \in watched \union OfCycle \union cut \union Unplaced \union Unmarked \union Unreturned

\* The seller has the hedge, placed just before, of every order it has sold, if the
\* answers to the hedge were clear; but for a cycle that was cut off, an order whose
\* place_order raised, which loses its hedge, or whose exit failed, and a hedge that
\* could not be linked.  An order is taken to be closed when it is marked for lack
\* of confirmation (swing_highlow_sell.py:1432).
SoldAreHedged ==
  mode.sell => \A o \in held \ (cut \union Unplaced \union Unexited) :
    row[o].kind = "main" /\ row[o].status \in {"AWAITING", "EXITING"} =>
      o - 1 \in held \union Unlinked \/ row[o - 1].answer = "unclear"

\* A hedge is not left behind, unless a call failed at placing, linking, exiting or
\* returning it: its cycle is still at it, or it is linked to an order whose end
\* will end it too (swing_highlow_sell.py:1634).
HedgesEnd ==
  \A h \in held \ (cut \union Unplaced \union Unlinked \union Unexited \union Unreturned) :
    row[h].kind = "hedge" /\ h # run.hedge => row[h].of # NoOrder /\ row[row[h].of].status \in Live

\* One first entry at a time, however cycles are cut off and restarted and calls
\* fail (swing_highlow_buy.py:726).
OneEntry ==
  Cardinality({o \in Rows : Open(o) /\ row[o].kind = "main" /\ row[o].after = NoOrder}) <= 1

\* One re-entry after each order, but for orders that were cut off, lost by place_order,
\* or not marked as failed, before they were recorded, and parents whose record could
\* not be written (swing_highlow_buy.py:1226).
OneReEntry ==
  \A p \in Rows \ Unrecorded :
    Cardinality({o \in Rows \ (cut \union Unplaced \union Unmarked) :
                   Open(o) /\ row[o].kind = "main" /\ row[o].after = p}) <= 1

================================================================================
