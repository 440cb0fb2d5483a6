---------------------------- MODULE StrategyManager ----------------------------
(***************************************************************************)
(* run_poll_loop, the tasks it starts and the state they share: one runner *)
(* per strategy symbol, the cache of strategy instances, the queue that    *)
(* hands new orders to order_monitor_loop, and the monitors it creates.    *)
(*                                                                         *)
(* Every action is what one coroutine does between two awaits.  Cancelling *)
(* a task ends it at the await it is in: nothing under strategies/ or      *)
(* core/ that a runner calls catches CancelledError.                       *)
(*                                                                         *)
(* Time is the set of symbols that are in their trading window, from       *)
(* start_time to square_off_time; it changes at any moment.  The rules of  *)
(* a strategy are free: a cycle may place an order for any strike that     *)
(* sync_open_positions found no open order of.                             *)
(* What becomes of an order with a monitor is in OrderMonitor.             *)
(***************************************************************************)
EXTENDS Integers, Sequences, FiniteSets

CONSTANTS
  Symbols,      \* strategy_symbols.id
  Orders,       \* orders.id
  SymbolOf,     \* orders.strategy_symbol_id
  StrikeOf,     \* orders.strike_symbol
  OldOrders,    \* orders of today that may be open when the program starts
  Windows,      \* the sets of symbols that may be in their trading window at a time
  Smart,        \* symbols with enable_smart_levels
  Edited,       \* the symbols whose configurations change
  MaxVersion,   \* bound on the configurations of one of them
  MaxTroubles   \* bound on failing calls and restarts, taken together

Versions == 1..MaxVersion
None     == <<0, "none">>
NoOrder  == "none"
NoSymbol == "none"

ASSUME StrategyManagerConstants ==
  /\ IsFiniteSet(Orders) /\ SymbolOf \in [Orders -> Symbols]
  /\ DOMAIN StrikeOf = Orders
  /\ \A o, p \in Orders : StrikeOf[o] = StrikeOf[p] => SymbolOf[o] = SymbolOf[p]
  /\ \A o, p \in OldOrders : StrikeOf[o] = StrikeOf[p] => o = p
  /\ OldOrders \subseteq Orders
  /\ Windows \subseteq SUBSET Symbols
  /\ Smart \subseteq Symbols
  /\ Edited \subseteq Symbols
  /\ {MaxVersion, MaxTroubles} \subseteq Nat
  /\ MaxVersion > 0
  /\ NoOrder \notin Orders /\ NoSymbol \notin Symbols

VARIABLES
  open,        \* the market is open
  window,      \* the symbols that are in their trading window
  active,      \* symbols with status active of enabled strategies
  stamp,       \* latest updated_at of a symbol's configuration
  pc,          \* where the poll loop is
  now,         \* the window when the iteration began
  rows,        \* the configurations the query returned; 0 for none
  todo,        \* symbols of rows the iteration has not come to
  making,      \* the symbol it makes an instance for
  running,     \* running_tasks: the instance of each runner
  cache,       \* strategy_cache
  timestamps,  \* config_timestamps; 0 for a symbol not in it
  step,        \* where the runner of a symbol is
  hand,        \* the order it is placing
  queue,       \* order_queue: orders, and whether with a strategy
  taken,       \* the order order_monitor_loop is looking up a strategy for
  found,       \* the configuration it makes one of; 0 before it knows
  monitored,   \* order_monitors
  status,      \* orders.status: "none" without a row, "open", "exiting" or "over"
  sent,        \* orders that were given to a broker, and are not over
  troubles     \* calls that failed, and restarts

dbVars     == <<active, stamp>>
loopVars   == <<pc, now, rows, todo, making>>
clockVars  == <<open, window>>
runnerVars == <<step, hand>>
queueVars  == <<queue, taken, found, monitored>>
orderVars  == <<status, sent>>
managerVars == <<clockVars, dbVars, loopVars, running, cache, timestamps, runnerVars,
                 queueVars, orderVars, troubles>>

\* An instance: the configuration it was made with, and what it was made for.
\* One that is made for an order does not know about smart levels.
Instances == Versions \X {"symbol", "order"}
HasSmart(s, purpose) == purpose = "symbol" /\ s \in Smart

Fail == troubles < MaxTroubles /\ troubles' = troubles + 1
Fine == UNCHANGED troubles

\* create_lightweight_strategy_instance: the cached instance, if its smart levels
\* are those that are wanted.
Usable(s, purpose) ==
  /\ cache[s] # None
  /\ HasSmart(s, cache[s][2]) = HasSmart(s, purpose)

\* A runner is started with the instance.
Launch(s, inst) ==
  /\ running' = [running EXCEPT ![s] = inst]
  /\ step' = [step EXCEPT ![s] = "setup"]

\* Variant: the tasks are forgotten and not cancelled.
Forgotten(S) ==
  /\ running' = [s \in Symbols |-> IF s \in S THEN None ELSE running[s]]
  /\ cache'   = [s \in Symbols |-> IF s \in S THEN None ELSE cache[s]]
  /\ UNCHANGED <<runnerVars, orderVars>>

\* Tasks are cancelled, taken out of running_tasks, and their instances out of the
\* cache.  A call to a broker that is under way when its runner is cancelled may
\* still have got through.
Cancelled(S) ==
  /\ running' = [s \in Symbols |-> IF s \in S THEN None ELSE running[s]]
  /\ cache'   = [s \in Symbols |-> IF s \in S THEN None ELSE cache[s]]
  /\ step'    = [s \in Symbols |-> IF s \in S THEN "none" ELSE step[s]]
  /\ hand'    = [s \in Symbols |-> IF s \in S THEN NoOrder ELSE hand[s]]
  /\ \E through \in SUBSET {hand[s] : s \in {t \in S : step[t] = "placing"}} :
       sent' = sent \cup through
  /\ UNCHANGED status

Live == {s \in Symbols : running[s] # None}

--------------------------------------------------------------------------------
(***************************************************************************)
(* run_poll_loop.                                                          *)
(***************************************************************************)
OpenOrders == {o \in Orders : status[o] \in {"open", "exiting"}}

\* get_strategy_for_order puts an instance for each open order into the cache;
\* when it fails, the orders are queued without one.
Startup ==
  /\ pc = "start"
  /\ pc' = "top"
  /\ IF ~open THEN Fine /\ UNCHANGED <<queue, cache>>
     ELSE \/ \E made \in BOOLEAN :
               /\ IF made THEN Fine ELSE Fail
               /\ queue' \in {q \in [1..Cardinality(OpenOrders) -> OpenOrders \X {made}] :
                                {q[i][1] : i \in DOMAIN q} = OpenOrders}
               /\ cache' = [s \in Symbols |->
                              IF made /\ \E o \in OpenOrders : SymbolOf[o] = s
                                THEN <<stamp[s], "order">> ELSE None]
          \/ Fail /\ UNCHANGED <<queue, cache>>
  /\ UNCHANGED <<clockVars, dbVars, now, rows, todo, making, running, timestamps,
                 runnerVars, taken, found, monitored, orderVars>>

\* The time is read once per iteration.  A closed market stops every runner.
Top ==
  /\ pc = "top"
  /\ IF open
       THEN /\ pc' = "query"
            /\ now' = window
            /\ UNCHANGED <<running, cache, runnerVars, orderVars>>
       ELSE Cancelled(Live) /\ UNCHANGED <<pc, now>>
  /\ UNCHANGED <<clockVars, dbVars, rows, todo, making, timestamps, queueVars, troubles>>

\* The iteration is over; its local variables are forgotten.
Sleep ==
  /\ pc' = "top"
  /\ now' = {}
  /\ rows' = [s \in Symbols |-> 0]
  /\ todo' = {}
  /\ making' = NoSymbol

\* Variant: a runner is looked at only when its symbol is returned.
QueryKeeps ==
  /\ pc = "query"
  /\ IF active # {}
       THEN /\ rows' = [s \in Symbols |-> IF s \in active THEN stamp[s] ELSE 0]
            /\ todo' = active
            /\ pc' = "symbols"
            /\ UNCHANGED <<now, making>>
       ELSE Sleep
  /\ UNCHANGED <<clockVars, dbVars, running, cache, timestamps, runnerVars, queueVars,
                 orderVars, troubles>>

\* The query, after the risk limits have been looked at.  Runners of symbols it
\* does not return are stopped, unless it returns nothing at all.
Query ==
  /\ pc = "query"
  /\ IF active # {}
       THEN \/ /\ rows' = [s \in Symbols |-> IF s \in active THEN stamp[s] ELSE 0]
               /\ todo' = active
               /\ Cancelled(Live \ active)
               /\ pc' = "symbols"
               /\ UNCHANGED <<now, making>>
               /\ Fine
            \/ Sleep /\ Fail /\ UNCHANGED <<running, cache, runnerVars, orderVars>>
       ELSE Sleep /\ Fine /\ UNCHANGED <<running, cache, runnerVars, orderVars>>
  /\ UNCHANGED <<clockVars, dbVars, timestamps, queueVars>>

\* Variant: a configuration is new from the second change on.
ChangedLate(s) == timestamps[s] # 0 /\ rows[s] > timestamps[s] + 1

Changed(s) == timestamps[s] # 0 /\ rows[s] > timestamps[s]

\* Variant: only a new configuration starts a runner.
StartsChanged(s) == s \in now /\ (timestamps[s] = 0 \/ Changed(s))

Starts(s) == s \in now /\ (s \notin Live \/ Changed(s))
Stops(s)  == s \in Live /\ (s \notin now \/ Changed(s))

\* One symbol: a runner with an old configuration is stopped; in its window a
\* symbol without a runner gets one, outside it loses the one it has.  Only the
\* making of an instance waits for something.
Symbol(s) ==
  /\ pc = "symbols"
  /\ s \in todo
  /\ timestamps' = [timestamps EXCEPT ![s] = rows[s]]
  /\ todo' = todo \ {s}
  /\ \/ /\ Starts(s) /\ ~Stops(s) /\ Usable(s, "symbol")
        /\ Launch(s, cache[s])
        /\ UNCHANGED <<pc, making, cache, hand, orderVars>>
     \/ /\ Starts(s) /\ (Stops(s) \/ ~Usable(s, "symbol"))
        /\ Cancelled({s})
        /\ pc' = "make"
        /\ making' = s
     \/ /\ ~Starts(s) /\ Stops(s)
        /\ Cancelled({s})
        /\ UNCHANGED <<pc, making>>
     \/ /\ ~Starts(s) /\ ~Stops(s)
        /\ UNCHANGED <<pc, making, running, cache, runnerVars, orderVars>>
  /\ UNCHANGED <<clockVars, dbVars, now, rows, queueVars, troubles>>

\* The new instance is cached and gets its runner.  When there is none the loop
\* goes on, or an exception ends the iteration.
Make ==
  /\ pc = "make"
  /\ \/ /\ cache' = [cache EXCEPT ![making] = <<rows[making], "symbol">>]
        /\ Launch(making, <<rows[making], "symbol">>)
        /\ pc' = "symbols" /\ making' = NoSymbol
        /\ UNCHANGED <<now, rows, todo>>
        /\ Fine
     \/ /\ Fail
        /\ \/ pc' = "symbols" /\ making' = NoSymbol /\ UNCHANGED <<now, rows, todo>>
           \/ Sleep
        /\ UNCHANGED <<cache, running, step>>
  /\ UNCHANGED <<clockVars, dbVars, timestamps, hand, queueVars, orderVars>>

EndIteration ==
  /\ pc = "symbols"
  /\ todo = {}
  /\ Sleep
  /\ UNCHANGED <<clockVars, dbVars, running, cache, timestamps, runnerVars, queueVars,
                 orderVars, troubles>>

PollStep == Startup \/ Top \/ Query \/ (\E s \in Symbols : Symbol(s)) \/ Make \/ EndIteration

--------------------------------------------------------------------------------
(***************************************************************************)
(* run_strategy_config, and OrderManager.place_order inside it.            *)
(***************************************************************************)
Goes(s, label) == step' = [step EXCEPT ![s] = label]

\* setup is repeated until it raises no exception.  One that found no strikes is
\* over all the same, and the cycles that follow never place an order.
Setup(s) ==
  /\ step[s] = "setup"
  /\ Goes(s, "idle")
  /\ UNCHANGED <<hand, orderVars>>

\* sync_open_positions: an order whose exit is pending does not count.
Positions == {o \in Orders : status[o] = "open"}

\* process_cycle, up to the signals: it looks at strikes without a position in the
\* database, and may come to one it wants an order for.
Cycle(s) ==
  /\ step[s] = "idle"
  /\ \E o \in Orders :
       /\ SymbolOf[o] = s /\ status[o] = "none"
       /\ \A p \in Positions : StrikeOf[p] # StrikeOf[o]
       /\ hand' = [hand EXCEPT ![s] = o]
  /\ Goes(s, "signal")
  /\ UNCHANGED orderVars

\* Variant: the row of the order is left to the transaction of the executions.
PlaceRowLate(s) ==
  /\ step[s] = "signal"
  /\ Goes(s, "placing")
  /\ UNCHANGED <<hand, orderVars>>

\* place_order commits the row of the order before any broker is called; without
\* a row it does not go on.
PlaceRow(s) ==
  /\ step[s] = "signal"
  /\ \/ /\ status' = [status EXCEPT ![hand[s]] = "open"]
        /\ Goes(s, "placing")
        /\ UNCHANGED hand
     \/ /\ Goes(s, "idle")
        /\ hand' = [hand EXCEPT ![s] = NoOrder]
        /\ UNCHANGED status
  /\ UNCHANGED sent

CallBroker(s) ==
  /\ step[s] = "placing"
  /\ sent' \in {sent, sent \cup {hand[s]}}
  /\ Goes(s, "answered")
  /\ UNCHANGED <<hand, status>>

\* The rows of all brokers in one commit; when it fails the cycle has no result.
Record(s) ==
  /\ step[s] = "answered"
  /\ \/ Goes(s, "placed") /\ Fine /\ UNCHANGED hand
     \/ /\ Fail
        /\ Goes(s, "idle")
        /\ hand' = [hand EXCEPT ![s] = NoOrder]
  /\ UNCHANGED orderVars

Enqueue(s) ==
  /\ step[s] = "placed"
  /\ queue' = Append(queue, <<hand[s], TRUE>>)
  /\ hand' = [hand EXCEPT ![s] = NoOrder]
  /\ Goes(s, "idle")
  /\ UNCHANGED <<taken, found, monitored, orderVars>>

RunnerStep(s) ==
  /\ \/ /\ Setup(s) \/ Cycle(s) \/ PlaceRow(s) \/ CallBroker(s)
        /\ UNCHANGED <<queueVars, troubles>>
     \/ Record(s) /\ UNCHANGED queueVars
     \/ Enqueue(s) /\ UNCHANGED troubles
  /\ UNCHANGED <<clockVars, dbVars, loopVars, running, cache, timestamps>>

--------------------------------------------------------------------------------
(***************************************************************************)
(* order_monitor_loop.                                                     *)
(***************************************************************************)
\* Variant: an order that comes without a strategy is passed over, too.
TakeWithStrategy ==
  /\ pc # "start"
  /\ taken = NoOrder
  /\ queue # <<>>
  /\ queue' = Tail(queue)
  /\ monitored' = IF open /\ Head(queue)[2] THEN monitored \cup {Head(queue)[1]} ELSE monitored
  /\ UNCHANGED <<taken, found>>

\* An order that comes while the market is closed is passed over.
Take ==
  /\ pc # "start"
  /\ taken = NoOrder
  /\ queue # <<>>
  /\ queue' = Tail(queue)
  /\ IF ~open THEN UNCHANGED <<taken, monitored>>
     ELSE IF Head(queue)[2]
       THEN monitored' = monitored \cup {Head(queue)[1]} /\ UNCHANGED taken
     ELSE taken' = Head(queue)[1] /\ UNCHANGED monitored
  /\ UNCHANGED found

\* The order gets its monitor, with a strategy or without.
Monitor ==
  /\ monitored' = monitored \cup {taken}
  /\ taken' = NoOrder /\ found' = 0
  /\ UNCHANGED queue

\* get_strategy_for_order: an instance in the cache will do if it has no smart
\* levels; one that has them is taken out.
Lookup ==
  /\ taken # NoOrder /\ found = 0
  /\ \/ Monitor /\ Fail /\ UNCHANGED cache
     \/ Monitor /\ Usable(SymbolOf[taken], "order") /\ Fine /\ UNCHANGED cache
     \/ /\ ~Usable(SymbolOf[taken], "order") /\ Fine
        /\ cache' = [cache EXCEPT ![SymbolOf[taken]] = None]
        /\ found' = stamp[SymbolOf[taken]]
        /\ UNCHANGED <<queue, taken, monitored>>

\* The instance it made goes into the cache, whatever is there by then.
LookedUp ==
  /\ taken # NoOrder /\ found # 0
  /\ \/ Fine /\ cache' = [cache EXCEPT ![SymbolOf[taken]] = <<found, "order">>]
     \/ Fail /\ UNCHANGED cache
  /\ Monitor

MonitorLoopStep ==
  /\ \/ Take /\ UNCHANGED <<cache, troubles>>
     \/ Lookup \/ LookedUp
  /\ UNCHANGED <<clockVars, dbVars, loopVars, running, timestamps, runnerVars, orderVars>>

--------------------------------------------------------------------------------
(***************************************************************************)
(* The environment.                                                        *)
(***************************************************************************)
Clock ==
  /\ \/ open' = FALSE /\ window' = {}
     \/ open' = TRUE /\ window' \in Windows
  /\ UNCHANGED <<dbVars, loopVars, running, cache, timestamps, runnerVars, queueVars,
                 orderVars, troubles>>

\* The API edits a configuration, or switches a symbol or its strategy on or off.
Edit(s) ==
  /\ s \in Edited
  /\ stamp[s] < MaxVersion
  /\ stamp' = [stamp EXCEPT ![s] = @ + 1]
  /\ active' \in {active, active \cup {s}, active \ {s}}
  /\ UNCHANGED <<clockVars, loopVars, running, cache, timestamps, runnerVars, queueVars,
                 orderVars, troubles>>

\* The monitor of an order requests its exit, or has seen it to its end.
Finish(o) ==
  /\ o \in monitored
  /\ \/ /\ status[o] = "open"
        /\ status' = [status EXCEPT ![o] = "exiting"]
        /\ UNCHANGED sent
     \/ /\ status[o] \in {"open", "exiting"}
        /\ status' = [status EXCEPT ![o] = "over"]
        /\ sent' = sent \ {o}
  /\ UNCHANGED <<clockVars, dbVars, loopVars, running, cache, timestamps, runnerVars,
                 queueVars, troubles>>

\* The process ends, however it comes to that, and is started again.
Restart ==
  /\ Fail
  /\ pc' = "start"
  /\ now' = {} /\ rows' = [s \in Symbols |-> 0] /\ todo' = {} /\ making' = NoSymbol
  /\ \E through \in SUBSET {hand[s] : s \in {t \in Symbols : step[t] = "placing"}} :
       sent' = sent \cup through
  /\ running' = [s \in Symbols |-> None]
  /\ cache' = [s \in Symbols |-> None]
  /\ timestamps' = [s \in Symbols |-> 0]
  /\ step' = [s \in Symbols |-> "none"]
  /\ hand' = [s \in Symbols |-> NoOrder]
  /\ queue' = <<>> /\ taken' = NoOrder /\ found' = 0 /\ monitored' = {}
  /\ UNCHANGED <<clockVars, dbVars, status>>

Init ==
  /\ open \in BOOLEAN
  /\ window = {}
  /\ active \in SUBSET Symbols /\ Edited \subseteq active
  /\ stamp = [s \in Symbols |-> 1]
  /\ pc = "start" /\ now = {} /\ rows = [s \in Symbols |-> 0] /\ todo = {} /\ making = NoSymbol
  /\ running = [s \in Symbols |-> None]
  /\ cache = [s \in Symbols |-> None]
  /\ timestamps = [s \in Symbols |-> 0]
  /\ step = [s \in Symbols |-> "none"]
  /\ hand = [s \in Symbols |-> NoOrder]
  /\ queue = <<>> /\ taken = NoOrder /\ found = 0 /\ monitored = {}
  /\ sent \in SUBSET OldOrders
  /\ status = [o \in Orders |-> IF o \in sent THEN "open" ELSE "none"]
  /\ troubles = 0

Next ==
  \/ PollStep
  \/ \E s \in Symbols : RunnerStep(s)
  \/ MonitorLoopStep
  \/ Clock
  \/ \E s \in Symbols : Edit(s)
  \/ \E o \in Orders : Finish(o)
  \/ Restart

Spec == Init /\ [][Next]_managerVars

\* The poll loop sleeps poll_interval between iterations; the event loop resumes
\* both loops whenever what they wait for is there.
FairSpec == Spec /\ WF_managerVars(PollStep) /\ WF_managerVars(MonitorLoopStep)

--------------------------------------------------------------------------------
(***************************************************************************)
(* Properties.                                                             *)
(***************************************************************************)
Placing == {"signal", "placing", "answered", "placed"}

\* Every variable has its type; the loop has a symbol in hand while it makes an
\* instance for it, a runner an order while it places it.
TypeOK ==
  /\ open \in BOOLEAN /\ window \in SUBSET Symbols
  /\ active \in SUBSET Symbols
  /\ stamp \in [Symbols -> Versions]
  /\ pc \in {"start", "top", "query", "symbols", "make"}
  /\ now \in SUBSET Symbols /\ todo \in SUBSET Symbols
  /\ rows \in [Symbols -> 0..MaxVersion]
  /\ making \in Symbols \cup {NoSymbol}
  /\ running \in [Symbols -> Instances \cup {None}]
  /\ cache \in [Symbols -> Instances \cup {None}]
  /\ timestamps \in [Symbols -> 0..MaxVersion]
  /\ step \in [Symbols -> {"none", "setup", "idle", "signal", "placing", "answered",
                           "placed"}]
  /\ hand \in [Symbols -> Orders \cup {NoOrder}]
  /\ queue \in Seq(Orders \X BOOLEAN)
  /\ taken \in Orders \cup {NoOrder} /\ found \in 0..MaxVersion
  /\ monitored \in SUBSET Orders
  /\ status \in [Orders -> {"none", "open", "exiting", "over"}]
  /\ sent \in SUBSET Orders
  /\ making # NoSymbol <=> pc = "make"
  /\ \A s \in Symbols : hand[s] # NoOrder <=> step[s] \in Placing
  /\ troubles \in 0..MaxTroubles

\* No strike has two orders that are open in the database or with a broker, and
\* not about to be closed; wherever a runner was cancelled and another started
\* (option_buy.py:507).
OneOpenOrder ==
  LET Out == Positions \cup {o \in sent : status[o] = "none"}
  IN  \A o, p \in Out : StrikeOf[o] = StrikeOf[p] => o = p

\* A runner works with the configuration the poll loop has seen last, unless it
\* uses an instance that was made for an order (strategy_manager.py:709).
RunsSeenConfig ==
  \A s \in Symbols : running[s][2] = "symbol" => running[s][1] = timestamps[s]

\* Every runner there is, is in running_tasks, and can be cancelled.
RunnersKnown == \A s \in Symbols : step[s] # "none" => s \in Live

Wanted(s) == open /\ s \in active /\ s \in window

\* A symbol that stays active and in its window gets a runner, although its
\* configuration changes and calls fail (strategy_manager.py:757).
ActiveRuns == \A s \in Edited : Wanted(s) ~> s \in Live \/ ~Wanted(s)

\* An iteration that comes to its end leaves runners for the symbols of the query
\* that were in their window, and no others; whatever changed meanwhile and
\* however the symbols were ordered (strategy_manager.py:687-792).
IterationSettles ==
  [][pc = "symbols" /\ pc' = "top"
       => LET due == {s \in now : rows[s] # 0}
          IN  /\ Live' \subseteq due
              /\ troubles = 0 => Live' = due]_managerVars

\* An iteration of the poll loop leaves no runner of a symbol that is not active
\* (strategy_manager.py:676).
SweepsInactive ==
  [][pc = "query" /\ pc' \in {"symbols", "top"} /\ troubles' = troubles
       => Live' \subseteq active]_managerVars

\* A queued order gets its monitor, unless the market closes or the process is
\* restarted meanwhile (strategy_manager.py:557).
QueuedIsMonitored ==
  \A o \in Orders :
    (\E i \in DOMAIN queue : queue[i][1] = o) ~> o \in monitored \/ ~open \/ pc = "start"

================================================================================
