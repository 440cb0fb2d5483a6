----------------------------- MODULE OrderMonitor -----------------------------
(***************************************************************************)
(* OrderMonitor: the two coroutines that follow a logical order from its   *)
(* entry to its end.  The price loop reads the order, applies the rules    *)
(* about time, brings the ENTRY row and the order's status up to date,     *)
(* exits on price or loss and completes an exit whose status ends in       *)
(* _PENDING; the signal loop asks the strategy and exits on its word.      *)
(* Both keep running until `running` is cleared; both read the order       *)
(* through one cache, and every await lets the other one run.              *)
(*                                                                         *)
(* Each order has one ENTRY row here, worth one position, and exit_order   *)
(* is one step: ExitOrder models what happens inside it.  A status is a    *)
(* pair: its name, and whether it carries the suffix _PENDING.             *)
(***************************************************************************)
EXTENDS StatusMapping

CONSTANTS
  Orders,      \* logical orders
  ParentOf,    \* orders.parent_order_id
  NoOrder,     \* parent of an order that is not a hedge
  Kind,        \* the broker the orders are placed with
  Delivery,    \* the strategy's product type is DELIVERY
  Prices,      \* what the quotes may say, a subset of Quotes
  Verdicts,    \* exit statuses the strategy's evaluate_exit may choose
  Manual,      \* the API may exit an order
  BrokerFails, \* a broker may refuse an exit or fail to answer
  DbFails,     \* a statement of the monitor may fail at the database
  Restarts     \* the process may be restarted

\* No quote; a quote within the limits; target or stop loss hit; the loss limit
\* of the trade exceeded; both.
Quotes == {"none", "quiet", "hit", "loss", "both"}

\* EXIT_STOPLOSS stands for EXIT_TARGET as well.
Bases == {"EXIT_STOPLOSS", "EXIT_MAX_LOSS", "EXIT_EOD", "EXIT_MANUAL",
          "EXIT_REVERSAL", "EXIT_RSI_TARGET"}

Names == Bases \cup
  {"AWAITING_ENTRY", "OPEN", "CLOSED", "CANCELLED", "REJECTED", "FAILED"}

Plain(name)   == <<name, "">>
Pend(base)    == <<base, "_PENDING">>
IsPending(s)  == s[2] = "_PENDING"
Final(s)      == Plain(s[1])
Statuses      == Names \X {"", "_PENDING"}
NoRow         == <<"NONE", "">>

\* What the theorems assume of the constants; every instance that is checked satisfies it.
OrderMonitorConstants ==
  /\ ParentOf \in [Orders -> Orders \cup {NoOrder}]
  /\ NoOrder \notin Orders
  /\ Kind \in Kinds
  /\ Prices \subseteq Quotes
  /\ Verdicts \subseteq Bases \ {"EXIT_MANUAL"}
  /\ Delivery \in BOOLEAN /\ Manual \in BOOLEAN /\ Restarts \in BOOLEAN
  /\ BrokerFails \in BOOLEAN /\ DbFails \in BOOLEAN

VARIABLES
  clock,       \* "day", "square_off", "15:25" or "15:30"
  truth,       \* [Orders -> Truths]: the entry order at the exchange
  listed,      \* what the order cache has of it; ABSENT before its first poll
  held,        \* the position of the order is open
  status,      \* orders.status
  entry,       \* status of the ENTRY row
  exitRow,     \* status of the EXIT row, "none" without one
  running,     \* OrderMonitor._running
  cached,      \* _order_strategy_cache: the status of the row in it
  isHedge,     \* OrderMonitor.is_hedge
  price,       \* where the price loop is
  row,         \* the status in its order_row
  last,        \* last_main_status
  seen,        \* the status of the ENTRY row in agg, then its live status
  lastEntry,   \* last_broker_statuses
  quote,       \* current_ltp
  signal,      \* where the signal loop is
  verdict,     \* the status it has re-read
  asked        \* orders an exit has been requested for

marketVars == <<clock, truth, listed, held>>
dbVars     == <<status, entry, exitRow>>
sharedVars == <<running, cached, isHedge>>
loopVars   == <<row, last, seen, lastEntry, quote>>
priceVars  == <<price, loopVars>>
signalVars == <<signal, verdict>>
monitorVars == <<marketVars, dbVars, sharedVars, priceVars, signalVars, asked>>

Hedge(o)    == ParentOf[o] # NoOrder
Times       == {"day", "square_off", "15:25", "15:30"}
AtLeast1525 == clock \in {"15:25", "15:30"}

PriceAt(o, label)  == price' = [price EXCEPT ![o] = label]
SignalAt(o, label) == signal' = [signal EXCEPT ![o] = label]
Stop(o)            == running' = [running EXCEPT ![o] = FALSE]

\* _clear_order_cache forgets, with the row, that the order is a hedge.
ClearCache(o) ==
  /\ cached' = [cached EXCEPT ![o] = NoRow]
  /\ isHedge' = [isHedge EXCEPT ![o] = FALSE]

\* _get_order_and_strategy: the cached row, or a fresh one.
Lookup(o) == IF cached[o] = NoRow THEN status[o] ELSE cached[o]

\* A read that puts s in the cache also finds out whether the order is a hedge.
FillCache(o, s) ==
  /\ cached' = [cached EXCEPT ![o] = s]
  /\ isHedge' = [isHedge EXCEPT ![o] = Hedge(o)]

--------------------------------------------------------------------------------
(***************************************************************************)
(* exit_order and exit_child_orders, as one step.                          *)
(***************************************************************************)
LiveChildren(o) ==
  {h \in Orders : /\ ParentOf[h] = o
                  /\ status[h] \notin {Plain("CANCELLED"), Plain("REJECTED"),
                                       Plain("FAILED")}}

\* Writes that may fail one by one when the database does.
Kept(T) == IF DbFails THEN SUBSET T ELSE {T}

\* The legs of the orders T are closed or cancelled by what their rows say, or,
\* with check_live_status, by what the broker says.  S: the legs whose broker
\* does what it is asked; C: the orders whose EXIT rows are committed.
Unwind(T, C, live) ==
  \E S \in IF BrokerFails THEN SUBSET T ELSE {T} :
    LET st        == [x \in T |-> IF live /\ x \in S THEN View(Kind, truth[x])
                                                     ELSE entry[x]]
        cancelled == {x \in S : /\ st[x] \in {"AWAITING_ENTRY", "PENDING", "TRIGGER_PENDING"}
                                /\ truth[x] \in Cancellable}
    IN  /\ held' = [x \in Orders |-> IF x \in S /\ st[x] = "FILLED" THEN FALSE ELSE held[x]]
        /\ truth' = [x \in Orders |-> IF x \in cancelled THEN "CANCELLED" ELSE truth[x]]
        /\ entry' = [x \in Orders |-> IF x \in cancelled THEN "CANCELLED"
                                      ELSE IF x \in T THEN st[x] ELSE entry[x]]
        /\ exitRow' = [x \in Orders |->
             IF x \notin T THEN exitRow[x]
             ELSE IF exitRow[x] = "none"
                    THEN IF st[x] = "FILLED" /\ x \in C THEN "PENDING" ELSE "none"
             ELSE IF live /\ x \in S THEN st[x] ELSE exitRow[x]]

\* The order after its children; a child whose own call succeeded is set to
\* CLOSED, the order keeps its status unless the reason is 'manual'.
Close(o, C, live, own) ==
  \E D \in Kept(C \ {o}) :
    /\ Unwind({o} \cup LiveChildren(o), C, live)
    /\ status' = [x \in Orders |-> IF x \in D THEN Plain("CLOSED")
                                   ELSE IF x = o THEN own ELSE status[x]]
    /\ asked' = asked \cup {o} \cup LiveChildren(o)

ExitOrder(o, live, own) ==
  \E C \in Kept(LiveChildren(o)) : Close(o, {o} \cup C, live, own)

\* A call that ends in an exception has come to nothing, or only its last step,
\* the commit of the EXIT rows, has failed.
ExitRaises(o, live) ==
  /\ DbFails
  /\ \/ UNCHANGED <<truth, held, dbVars, asked>>
     \/ \E C \in SUBSET LiveChildren(o) : Close(o, C, live, status[o])

\* exit_child_orders; its exceptions are caught.
ExitChildOrders(o) ==
  \/ /\ DbFails
     /\ UNCHANGED <<truth, held, dbVars, asked>>
  \/ \E C \in Kept(LiveChildren(o)) : \E D \in Kept(C) :
       /\ Unwind(LiveChildren(o), C, TRUE)
       /\ status' = [x \in Orders |-> IF x \in D THEN Plain("CLOSED") ELSE status[x]]
       /\ asked' = asked \cup LiveChildren(o)

--------------------------------------------------------------------------------
(***************************************************************************)
(* The price loop.                                                         *)
(***************************************************************************)
\* Variant: a pending exit is not looked for.
QuickCheckSkipped(o) ==
  /\ price[o] = "top"
  /\ PriceAt(o, IF running[o] THEN "load" ELSE "gone")
  /\ UNCHANGED <<marketVars, dbVars, sharedVars, loopVars, signalVars, asked>>

\* The loop condition, then the fresh read of the status alone.
QuickCheck(o) ==
  /\ price[o] = "top"
  /\ IF ~running[o] THEN PriceAt(o, "gone") /\ UNCHANGED <<row, isHedge>>
     ELSE \/ /\ PriceAt(o, IF IsPending(status[o]) THEN "complete" ELSE "load")
             /\ row' = [row EXCEPT ![o] = status[o]]
             /\ isHedge' = [isHedge EXCEPT ![o] = Hedge(o)]
          \/ DbFails /\ PriceAt(o, "load") /\ UNCHANGED <<row, isHedge>>
  /\ UNCHANGED <<marketVars, dbVars, running, cached, last, seen, lastEntry, quote,
                 signalVars, asked>>

\* Variant: the suffix is left on.
CompleteStatusKept(o) ==
  /\ price[o] = "complete"
  /\ PriceAt(o, "rows")
  /\ UNCHANGED status
  /\ ClearCache(o)
  /\ UNCHANGED <<marketVars, entry, exitRow, running, loopVars, signalVars, asked>>

\* _check_and_complete_pending_exits: the status read at the top of the loop is
\* written without its suffix; what the brokers say of the exit only decides
\* between the two kinds of EXIT rows.  When that fails, the emergency closure
\* fails too, on the column `notes` that orders does not have.
Complete(o) ==
  /\ price[o] = "complete"
  /\ \/ /\ status' = [status EXCEPT ![o] = Final(row[o])]
        /\ PriceAt(o, "rows")
        /\ ClearCache(o)
        /\ UNCHANGED running
     \/ DbFails /\ Stop(o) /\ PriceAt(o, "top") /\ UNCHANGED <<status, cached, isHedge>>
  /\ UNCHANGED <<marketVars, entry, exitRow, loopVars, signalVars, asked>>

\* Variant: the rows are left for later.
CompleteRowsSkipped(o) ==
  /\ price[o] = "rows"
  /\ Stop(o)
  /\ PriceAt(o, "top")
  /\ UNCHANGED <<marketVars, dbVars, cached, isHedge, loopVars, signalVars, asked>>

\* An EXIT row that exists is completed, with details or without; one that has
\* to be inserted is never committed.  A failure is logged.
CompleteRows(o) ==
  /\ price[o] = "rows"
  /\ \/ \E end \in {"FILLED", "CLOSED"} :
          exitRow' = [exitRow EXCEPT ![o] = IF @ = "none" THEN @ ELSE end]
     \/ DbFails /\ UNCHANGED exitRow
  /\ Stop(o)
  /\ PriceAt(o, "top")
  /\ UNCHANGED <<marketVars, status, entry, cached, isHedge, loopVars, signalVars, asked>>

\* The aggregate of the ENTRY row, and the row the iteration works with; this one
\* may be an old one from the cache.  When the first read fails the iteration is
\* over, when the second does the coroutine ends in an exception.
Load(o) ==
  /\ price[o] = "load"
  /\ LET found == Standardized(Kind, entry[o])
     IN  \/ /\ row' = [row EXCEPT ![o] = Lookup(o)]
            /\ FillCache(o, Lookup(o))
            /\ last' = [last EXCEPT ![o] = IF @ = NoRow THEN Lookup(o) ELSE @]
            /\ seen' = [seen EXCEPT ![o] = found]
            /\ lastEntry' = [lastEntry EXCEPT ![o] = IF @ = "UNKNOWN" THEN found ELSE @]
            /\ PriceAt(o, "clock")
         \/ /\ DbFails /\ \E label \in {"top", "gone"} : PriceAt(o, label)
            /\ UNCHANGED <<row, cached, isHedge, last, seen, lastEntry>>
  /\ UNCHANGED <<marketVars, dbVars, running, quote, signalVars, asked>>

\* Variants: hedges are not spared; the rule holds for an instant only.
SquareOffDueForAll(o)  == ~Delivery /\ clock # "day"
SquareOffDueAtOnce(o)  == ~isHedge[o] /\ ~Delivery /\ clock = "square_off"

\* The rules about time, for orders that are not hedges.
SquareOffDue(o) == ~isHedge[o] /\ ~Delivery /\ clock # "day"
StopDue(o)      == ~isHedge[o] /\ Delivery /\ clock = "15:30"
CancelDue(o)    == ~isHedge[o] /\ AtLeast1525 /\ row[o] = Plain("AWAITING_ENTRY")

CheckClock(o) ==
  /\ price[o] = "clock"
  /\ IF SquareOffDue(o)   THEN PriceAt(o, "square_off") /\ UNCHANGED running
     ELSE IF StopDue(o)   THEN PriceAt(o, "gone") /\ Stop(o)
     ELSE IF CancelDue(o) THEN PriceAt(o, "cancel") /\ UNCHANGED running
     ELSE PriceAt(o, "sync") /\ UNCHANGED running
  /\ UNCHANGED <<marketVars, dbVars, cached, isHedge, loopVars, signalVars, asked>>

\* Square-off: exit, set the status, and complete it in the next iteration.  An
\* exception is logged and the iteration goes on with the next rule.
AfterSquareOff(o) == PriceAt(o, IF CancelDue(o) THEN "cancel" ELSE "sync")

SquareOff(o) ==
  /\ price[o] = "square_off"
  /\ \/ ExitOrder(o, FALSE, status[o]) /\ PriceAt(o, "mark_eod")
     \/ ExitRaises(o, FALSE) /\ AfterSquareOff(o)
  /\ UNCHANGED <<clock, listed, sharedVars, loopVars, signalVars>>

MarkEod(o) ==
  /\ price[o] = "mark_eod"
  /\ \/ /\ status' = [status EXCEPT ![o] = Pend("EXIT_EOD")]
        /\ ClearCache(o)
        /\ PriceAt(o, "top")
     \/ DbFails /\ AfterSquareOff(o) /\ UNCHANGED <<status, cached, isHedge>>
  /\ UNCHANGED <<marketVars, entry, exitRow, running, loopVars, signalVars, asked>>

\* 15:25: exit, CANCELLED, stop.  After an exception the loop ends as well, but
\* without stop().
CancelAwaiting(o) ==
  /\ price[o] = "cancel"
  /\ \/ ExitOrder(o, FALSE, status[o]) /\ PriceAt(o, "mark_cancelled")
     \/ ExitRaises(o, FALSE) /\ PriceAt(o, "gone")
  /\ UNCHANGED <<clock, listed, sharedVars, loopVars, signalVars>>

MarkCancelled(o) ==
  /\ price[o] = "mark_cancelled"
  /\ \/ /\ status' = [status EXCEPT ![o] = Plain("CANCELLED")]
        /\ ClearCache(o)
        /\ Stop(o)
     \/ DbFails /\ UNCHANGED <<status, sharedVars>>
  /\ PriceAt(o, "gone")
  /\ UNCHANGED <<marketVars, entry, exitRow, loopVars, signalVars, asked>>

\* The status of the entry order: the order cache's, or else the aggregate's.
Live(o) == IF listed[o] = "ABSENT" THEN Renormalised(Kind, seen[o]) ELSE Synced(Kind, listed[o])

\* Variant: a change of status is noticed but not written.
SyncEntryUnwritten(o) ==
  /\ price[o] = "sync"
  /\ seen' = [seen EXCEPT ![o] = Live(o)]
  /\ lastEntry' = [lastEntry EXCEPT ![o] = Live(o)]
  /\ PriceAt(o, "decide")
  /\ UNCHANGED <<marketVars, dbVars, sharedVars, row, last, quote, signalVars, asked>>

SyncEntry(o) ==
  /\ price[o] = "sync"
  /\ seen' = [seen EXCEPT ![o] = Live(o)]
  /\ \/ /\ entry' = [entry EXCEPT ![o] = IF Live(o) # lastEntry[o] THEN Live(o) ELSE @]
        /\ lastEntry' = [lastEntry EXCEPT ![o] = Live(o)]
     \/ DbFails /\ UNCHANGED <<entry, lastEntry>>
  /\ PriceAt(o, "decide")
  /\ UNCHANGED <<marketVars, status, exitRow, sharedVars, row, last, quote, signalVars, asked>>

\* The status of the order: kept when the row of this iteration is that of an
\* exit or of a finished order, derived from the ENTRY row otherwise.
Preserved(s) == s[1] \notin {"AWAITING_ENTRY", "OPEN"}

Derived(o) == IF Preserved(row[o]) THEN row[o] ELSE Plain(MainStatus({seen[o]}))

\* A status that cannot be written ends the coroutine in an exception.
Decide(o) ==
  /\ price[o] = "decide"
  /\ IF Derived(o) \in {Plain("NONE"), last[o]}
       THEN PriceAt(o, "refresh") /\ UNCHANGED <<status, cached, isHedge, last>>
       ELSE \/ /\ last' = [last EXCEPT ![o] = Derived(o)]
               /\ IF Derived(o) = row[o] THEN UNCHANGED <<status, cached, isHedge>>
                  ELSE status' = [status EXCEPT ![o] = Derived(o)] /\ ClearCache(o)
               /\ PriceAt(o, IF Derived(o)[1] \in DeadStatuses THEN "orphans" ELSE "refresh")
            \/ /\ DbFails /\ Derived(o) # row[o] /\ PriceAt(o, "gone")
               /\ UNCHANGED <<status, cached, isHedge, last>>
  /\ seen' = [seen EXCEPT ![o] = "UNKNOWN"]
  /\ UNCHANGED <<marketVars, entry, exitRow, running, row, lastEntry, quote, signalVars, asked>>

\* An order that never came to anything: its children are closed, the loop ends.
CloseOrphans(o) ==
  /\ price[o] = "orphans"
  /\ IF isHedge[o] THEN UNCHANGED <<truth, held, dbVars, asked>>
     ELSE ExitChildOrders(o)
  /\ Stop(o)
  /\ PriceAt(o, "gone")
  /\ UNCHANGED <<clock, listed, cached, isHedge, loopVars, signalVars>>

\* The row is read afresh before positions are looked at.
Refresh(o) ==
  /\ price[o] = "refresh"
  /\ \/ row' = [row EXCEPT ![o] = status[o]] /\ FillCache(o, status[o])
     \/ DbFails /\ UNCHANGED row /\ ClearCache(o)
  /\ PriceAt(o, IF row'[o] = Plain("OPEN") THEN "quote" ELSE "top")
  /\ UNCHANGED <<marketVars, dbVars, running, last, seen, lastEntry, quote, signalVars, asked>>

\* The quote is written to the order, which clears the cache; the price limits
\* are checked with it (without one, _check_price_based_exit asks again).
GetQuote(o) ==
  /\ price[o] = "quote"
  /\ \E q \in Prices, again \in Prices :
       LET p == IF q = "none" THEN again ELSE q
       IN  /\ quote' = [quote EXCEPT ![o] = q]
           /\ \/ q # "none" /\ ClearCache(o)
              \/ (q = "none" \/ DbFails) /\ UNCHANGED <<cached, isHedge>>
           /\ PriceAt(o, IF ~isHedge'[o] /\ p \in {"hit", "both"} THEN "exit_price"
                                                                ELSE "risk")
  /\ UNCHANGED <<marketVars, dbVars, running, row, last, seen, lastEntry, signalVars, asked>>

\* Variant: an exit that raised is taken for done.
ExitOnPriceAssumed(o) ==
  /\ price[o] = "exit_price"
  /\ ExitOrder(o, FALSE, status[o]) \/ ExitRaises(o, FALSE)
  /\ PriceAt(o, "mark_price")
  /\ UNCHANGED <<clock, listed, sharedVars, loopVars, signalVars>>

ExitOnPrice(o) ==
  /\ price[o] = "exit_price"
  /\ \/ ExitOrder(o, FALSE, status[o]) /\ PriceAt(o, "mark_price") /\ UNCHANGED running
     \/ ExitRaises(o, FALSE) /\ PriceAt(o, "risk") /\ Stop(o)
  /\ UNCHANGED <<clock, listed, cached, isHedge, loopVars, signalVars>>

MarkPrice(o) ==
  /\ price[o] = "mark_price"
  /\ \/ status' = [status EXCEPT ![o] = Pend("EXIT_STOPLOSS")] /\ UNCHANGED running
     \/ DbFails /\ UNCHANGED status /\ Stop(o)
  /\ PriceAt(o, "risk")
  /\ UNCHANGED <<marketVars, entry, exitRow, cached, isHedge, loopVars, signalVars, asked>>

\* The loss limit of the trade; the loss is that of the FILLED rows.
CheckLoss(o) ==
  /\ price[o] = "risk"
  /\ \/ PriceAt(o, IF /\ quote[o] \in {"loss", "both"}
                      /\ entry[o] = "FILLED"
                      /\ ~isHedge[o]
                   THEN "exit_loss" ELSE "top")
     \/ DbFails /\ PriceAt(o, "top")
  /\ quote' = [quote EXCEPT ![o] = "none"]
  /\ UNCHANGED <<marketVars, dbVars, sharedVars, row, last, seen, lastEntry, signalVars, asked>>

ExitOnLoss(o) ==
  /\ price[o] = "exit_loss"
  /\ \/ ExitOrder(o, FALSE, status[o]) /\ PriceAt(o, "mark_loss")
     \/ ExitRaises(o, FALSE) /\ PriceAt(o, "top")
  /\ UNCHANGED <<clock, listed, sharedVars, loopVars, signalVars>>

MarkLoss(o) ==
  /\ price[o] = "mark_loss"
  /\ \/ status' = [status EXCEPT ![o] = Pend("EXIT_MAX_LOSS")] /\ ClearCache(o)
     \/ DbFails /\ UNCHANGED <<status, cached, isHedge>>
  /\ PriceAt(o, "top")
  /\ UNCHANGED <<marketVars, entry, exitRow, running, loopVars, signalVars, asked>>

PriceStep(o) ==
  \/ QuickCheck(o) \/ Complete(o) \/ CompleteRows(o) \/ Load(o)
  \/ CheckClock(o) \/ SquareOff(o) \/ MarkEod(o) \/ CancelAwaiting(o) \/ MarkCancelled(o)
  \/ SyncEntry(o) \/ Decide(o) \/ CloseOrphans(o) \/ Refresh(o)
  \/ GetQuote(o) \/ ExitOnPrice(o) \/ MarkPrice(o)
  \/ CheckLoss(o) \/ ExitOnLoss(o) \/ MarkLoss(o)

--------------------------------------------------------------------------------
(***************************************************************************)
(* The signal loop.                                                        *)
(***************************************************************************)
\* exit_statuses: with these the strategy is not asked again.
Skipped(s) == s[1] \in Bases \ {"EXIT_MANUAL"}

SignalRead(o) ==
  /\ signal[o] = "top"
  /\ IF ~running[o] THEN SignalAt(o, "gone") /\ UNCHANGED <<cached, isHedge>>
     ELSE /\ FillCache(o, Lookup(o))
          /\ SignalAt(o, IF Skipped(Lookup(o)) THEN "top" ELSE "evaluate")
  /\ UNCHANGED <<marketVars, dbVars, running, priceVars, verdict, asked>>

\* evaluate_exit waits for the candles; a verdict is written to the order
\* whatever has become of its status.
Evaluate(o) ==
  /\ signal[o] = "evaluate"
  /\ \/ SignalAt(o, "top") /\ UNCHANGED status /\ ClearCache(o)
     \/ \E v \in Verdicts : /\ status' = [status EXCEPT ![o] = Plain(v)]
                            /\ SignalAt(o, "exit")
                            /\ ClearCache(o)
     \/ DbFails /\ SignalAt(o, "top") /\ UNCHANGED <<status, cached, isHedge>>
  /\ UNCHANGED <<marketVars, entry, exitRow, running, priceVars, verdict, asked>>

SignalExit(o) ==
  /\ signal[o] = "exit"
  /\ \/ ExitOrder(o, TRUE, status[o]) /\ SignalAt(o, "reread")
     \/ ExitRaises(o, TRUE) /\ SignalAt(o, "again")
  /\ UNCHANGED <<clock, listed, sharedVars, priceVars, verdict>>

\* A tenth of a second later the status is read back ...
Reread(o) ==
  /\ signal[o] = "reread"
  /\ \/ /\ FillCache(o, status[o])
        /\ verdict' = [verdict EXCEPT ![o] = status[o]]
        /\ SignalAt(o, IF Skipped(status[o]) /\ ~IsPending(status[o]) THEN "mark" ELSE "again")
     \/ DbFails /\ ClearCache(o) /\ SignalAt(o, "again") /\ UNCHANGED verdict
  /\ UNCHANGED <<marketVars, dbVars, running, priceVars, asked>>

\* ... and its pending form is written.
MarkVerdict(o) ==
  /\ signal[o] = "mark"
  /\ \/ status' = [status EXCEPT ![o] = Pend(verdict[o][1])] /\ SignalAt(o, "top")
     \/ DbFails /\ UNCHANGED status /\ SignalAt(o, "again")
  /\ verdict' = [verdict EXCEPT ![o] = NoRow]
  /\ UNCHANGED <<marketVars, entry, exitRow, sharedVars, priceVars, asked>>

\* Any other status, or a failure: a second exit, and both loops are told to stop.
ExitAgain(o) ==
  /\ signal[o] = "again"
  /\ ExitOrder(o, FALSE, status[o]) \/ ExitRaises(o, FALSE)
  /\ verdict' = [verdict EXCEPT ![o] = NoRow]
  /\ Stop(o)
  /\ SignalAt(o, "gone")
  /\ UNCHANGED <<clock, listed, cached, isHedge, priceVars>>

SignalStep(o) ==
  \/ SignalRead(o) \/ Evaluate(o) \/ SignalExit(o)
  \/ Reread(o) \/ MarkVerdict(o) \/ ExitAgain(o)

--------------------------------------------------------------------------------
(***************************************************************************)
(* The environment.                                                        *)
(***************************************************************************)
Tick ==
  /\ clock' = IF clock = "day" THEN "square_off"
              ELSE IF clock = "square_off" THEN "15:25"
              ELSE "15:30"
  /\ UNCHANGED <<truth, listed, held, dbVars, sharedVars, priceVars, signalVars, asked>>

\* The entry order is executed, rejected or cancelled.
Settle(o) ==
  /\ truth[o] = "RESTING"
  /\ \/ truth' = [truth EXCEPT ![o] = "FILLED"] /\ held' = [held EXCEPT ![o] = TRUE]
     \/ \E t \in {"REJECTED", "CANCELLED"} :
          truth' = [truth EXCEPT ![o] = t] /\ UNCHANGED held
  /\ UNCHANGED <<clock, listed, dbVars, sharedVars, priceVars, signalVars, asked>>

Poll(o) ==
  /\ listed' = [listed EXCEPT ![o] = truth[o]]
  /\ UNCHANGED <<clock, truth, held, dbVars, sharedVars, priceVars, signalVars, asked>>

\* POST /orders/{id}/exit with the reason 'manual'.
ManualExit(o) ==
  /\ Manual
  /\ ExitOrder(o, TRUE, Pend("EXIT_MANUAL"))
  /\ UNCHANGED <<clock, listed, sharedVars, priceVars, signalVars>>

\* get_all_open_orders: the orders that get a monitor when the process starts.
Reopened(s) ==
  s \in {Plain("OPEN"), Plain("AWAITING_ENTRY")} \cup
        {Pend(b) : b \in {"EXIT_STOPLOSS", "EXIT_REVERSAL", "EXIT_EOD", "EXIT_MANUAL"}}

FreshMonitors ==
  /\ running' = [o \in Orders |-> Reopened(status[o])]
  /\ cached' = [o \in Orders |-> NoRow]
  /\ isHedge' = [o \in Orders |-> FALSE]
  /\ price' = [o \in Orders |-> IF Reopened(status[o]) THEN "top" ELSE "gone"]
  /\ row' = [o \in Orders |-> NoRow]
  /\ last' = [o \in Orders |-> NoRow]
  /\ seen' = [o \in Orders |-> "UNKNOWN"]
  /\ lastEntry' = [o \in Orders |-> "UNKNOWN"]
  /\ quote' = [o \in Orders |-> "none"]
  /\ signal' = [o \in Orders |-> IF Reopened(status[o]) /\ ~Hedge(o) /\ Verdicts # {}
                                   THEN "top" ELSE "gone"]
  /\ verdict' = [o \in Orders |-> NoRow]

Restart ==
  /\ Restarts
  /\ FreshMonitors
  /\ UNCHANGED <<marketVars, dbVars, asked>>

\* The orders have been placed and each has its monitor, except those of R: every
\* broker rejected them, and their monitors have ended.
Placed(R) ==
  /\ clock = "day"
  /\ truth = [o \in Orders |-> IF o \in R THEN "REJECTED" ELSE "RESTING"]
  /\ listed = [o \in Orders |-> IF o \in R THEN "REJECTED" ELSE "ABSENT"]
  /\ held = [o \in Orders |-> FALSE]
  /\ status = [o \in Orders |-> Plain(IF o \in R THEN "REJECTED" ELSE "AWAITING_ENTRY")]
  /\ entry = [o \in Orders |-> IF o \in R THEN "REJECTED" ELSE "PENDING"]
  /\ exitRow = [o \in Orders |-> "none"]
  /\ running = [o \in Orders |-> o \notin R]
  /\ cached = [o \in Orders |-> NoRow]
  /\ isHedge = [o \in Orders |-> FALSE]
  /\ price = [o \in Orders |-> IF o \in R THEN "gone" ELSE "top"]
  /\ row = [o \in Orders |-> NoRow]
  /\ last = [o \in Orders |-> NoRow]
  /\ seen = [o \in Orders |-> "UNKNOWN"]
  /\ lastEntry = [o \in Orders |-> "UNKNOWN"]
  /\ quote = [o \in Orders |-> "none"]
  /\ signal = [o \in Orders |-> IF o \notin R /\ ~Hedge(o) /\ Verdicts # {} THEN "top" ELSE "gone"]
  /\ verdict = [o \in Orders |-> NoRow]
  /\ asked = {}

Init == \E R \in SUBSET Orders : Placed(R)

Market == Tick \/ \E o \in Orders : Settle(o) \/ Poll(o) \/ ManualExit(o)

Next == \/ \E o \in Orders : PriceStep(o) \/ SignalStep(o)
        \/ Market
        \/ Restart

Spec == Init /\ [][Next]_monitorVars

\* asyncio resumes every coroutine whose await is over, and every await of the
\* monitors has a timeout or an end.
FairSpec == Spec /\ \A o \in Orders : WF_monitorVars(PriceStep(o)) /\ WF_monitorVars(SignalStep(o))

--------------------------------------------------------------------------------
(***************************************************************************)
(* Properties.                                                             *)
(***************************************************************************)
PriceLabels  == {"top", "complete", "rows", "load", "clock", "square_off", "mark_eod",
                 "cancel", "mark_cancelled", "sync", "decide", "orphans", "refresh",
                 "quote", "exit_price", "mark_price", "risk", "exit_loss", "mark_loss",
                 "gone"}
SignalLabels == {"top", "evaluate", "exit", "reread", "mark", "again", "gone"}

MarketType ==
  /\ clock \in Times
  /\ truth \in [Orders -> Truths]
  /\ listed \in [Orders -> Truths \cup {"ABSENT"}]
  /\ held \in [Orders -> BOOLEAN]

DbType ==
  /\ status \in [Orders -> Statuses]
  /\ entry \in [Orders -> ExecStatuses]
  /\ exitRow \in [Orders -> ExecStatuses \cup {"none"}]
  /\ asked \in SUBSET Orders

SharedType ==
  /\ running \in [Orders -> BOOLEAN]
  /\ cached \in [Orders -> Statuses \cup {NoRow}]
  /\ isHedge \in [Orders -> BOOLEAN]

PriceType ==
  /\ price \in [Orders -> PriceLabels]
  /\ row \in [Orders -> Statuses \cup {NoRow}]
  /\ last \in [Orders -> Statuses \cup {NoRow}]
  /\ seen \in [Orders -> ExecStatuses]
  /\ lastEntry \in [Orders -> ExecStatuses]
  /\ quote \in [Orders -> Quotes]
  /\ \A o \in Orders : price[o] = "complete" => row[o] \in Statuses

SignalType ==
  /\ signal \in [Orders -> SignalLabels]
  /\ verdict \in [Orders -> Statuses \cup {NoRow}]
  /\ \A o \in Orders : signal[o] = "mark" => verdict[o] \in Statuses

\* Every variable has its type; a loop that is to write a status has read one.
TypeOK == MarketType /\ DbType /\ SharedType /\ PriceType /\ SignalType

Finished(s) == ~IsPending(s) /\ s[1] \notin {"OPEN", "AWAITING_ENTRY"}

\* An order whose monitor has stopped is finished: no order is left in a pending
\* exit, or open, with nobody to follow it (order_monitor.py:1822).
NoneAbandoned == \A o \in Orders : running[o] \/ Finished(status[o])

\* The part of it the completion of exits promises: nobody has stopped looking
\* after an order whose exit is pending.
NeverStuck == \A o \in Orders : running[o] \/ ~IsPending(status[o])

\* A status that says an exit is pending, or was made, is only given to an order
\* whose exit has been requested: the request comes first, in every interleaving
\* of the two loops, the API and the parent's exit (order_monitor.py:2305).
PendingAfterExit ==
  \A o \in Orders :
    IsPending(status[o]) \/ status[o] = Plain("CLOSED") => o \in asked

\* Neither square-off nor the 15:25 rule touches a hedge: those statuses are
\* only given to main orders (order_monitor.py:329).
HedgeIgnoresClock ==
  \A o \in Orders :
    price[o] \in {"square_off", "mark_eod", "cancel", "mark_cancelled"} => ~Hedge(o)

\* Why both hold: what the loops have in hand when they write those statuses.
ExitInv ==
  \A o \in Orders :
    /\ IsPending(status[o]) => status[o][1] # "CLOSED"
    /\ price[o] \in {"mark_eod", "mark_price", "mark_loss"} => o \in asked
    /\ price[o] = "complete" => row[o][1] # "CLOSED"
    /\ signal[o] \in {"reread", "mark"} => o \in asked
    /\ signal[o] = "mark" => verdict[o][1] # "CLOSED"

HedgeInv ==
  \A o \in Orders :
    /\ Hedge(o) => signal[o] = "gone"
    /\ price[o] = "clock" => isHedge[o] = Hedge(o)

\* A hedge is never exited by its own monitor, on price or on loss
\* (order_monitor.py:864, 1003).
HedgeProtected ==
  \A o \in Orders : price[o] \in {"exit_price", "exit_loss"} => ~Hedge(o)

\* "Don't overwrite exit statuses with broker-derived OPEN status"
\* (order_monitor.py:656).
ExitPreserved ==
  [][\A o \in Orders : status[o][1] \in Bases => status'[o] # Plain("OPEN")]_monitorVars

\* A completed exit has closed the position, when no broker fails
\* (order_manager.py:1763).
ExitedHoldsNothing ==
  \A o \in Orders : status[o][1] \in Bases /\ ~running[o] => ~held[o]

\* When the loop of an exited order is over, none of its EXIT rows is pending
\* (order_monitor.py:1587).
RowsCompleted ==
  \A o \in Orders : price[o] = "gone" /\ status[o][1] \in Bases => exitRow[o] # "PENDING"

\* A pending exit is completed.
PendingCompletes == \A o \in Orders : IsPending(status[o]) ~> ~IsPending(status[o])

\* From the square-off time on, every main order comes to its end.
SquaredOff ==
  \A o \in Orders : clock # "day" /\ ~Hedge(o) ~> Finished(status[o]) /\ price[o] = "gone"

================================================================================
