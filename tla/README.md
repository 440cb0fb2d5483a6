# Algosat: orders, strategies and brokers, in TLA+

Algosat trades option and swing strategies at Indian brokers. Strategies run as asyncio tasks;
what they trade are *logical orders*, each placed with several brokers at once and followed by a
monitor of its own until it is closed. This directory models the parts of the program where
mistakes cost money and tests hardly reach: how strategies decide and enter, how an order is
placed, followed and closed while other coroutines, the API, the brokers and restarts interfere,
and the machinery below (order cache, rate limiter, sessions, the shared file of strikes).

Paths are relative to the repository's source root; `order_manager.py` and the like are in `core/`.

## 1. The system

### Components, their state and operations

| component | state it keeps | operations | modelled by |
|---|---|---|---|
| `OrderManager` (`order_manager.py`) | rows of `orders` and `broker_executions` (PostgreSQL); nothing in memory | `place_order`, `split_and_place_order`, `exit_order`, `exit_child_orders`, `exit_all_orders`, `get_all_broker_order_details` | `ExitOrder`, `ExitAll`; `PlaceOrder`, and placement in `StrategyManager`, `SwingEntry`, `OptionEntry` |
| status tables (`order_manager.py`, `data_manager.py`, `order_request.py`) | none | normalise a broker's status, standardise it for the aggregate, derive the order's status | `StatusMapping` |
| `OrderMonitor` (`order_monitor.py`) | `_running`, `_order_strategy_cache`, `is_hedge`, `last_main_status`, `last_broker_statuses`, locals of two coroutines | price loop, signal loop, completion of exits | `OrderMonitor`; the decision on a price and the shared cached row in `OptionTrade` |
| poll loop (`strategy_manager.py`) | `running_tasks`, `strategy_cache`, `config_timestamps`, `order_monitors`, `order_queue` | start, stop and restart runners; create monitors | `StrategyManager` |
| `run_strategy_config` (`strategy_runner.py`) | the order it is placing | setup, cycle, queue | `StrategyManager`; its cycles in `SwingEntry`, `OptionEntry` |
| `RiskManager` (`strategy_manager.py`) | `emergency_stop_active`, `broker_emergency_stops` | check the limits, stop one broker | `ExitAll` |
| `BrokerManager` (`broker_manager.py`; set up by the API, the trading process and `broker_monitor.py`) | connected brokers, retry configurations, `broker_credentials.status` | setup, reauthenticate, fan out orders and exits | `BrokerSessions`, `BrokerCalls`; fan-out in `PlaceOrder`, the exits in `ExitOrder` |
| `OrderCache` (`order_cache.py`) | last order book per broker, a lock and an event each | refresh, `get_orders` | `OrderCache` |
| rate limiter, retry (`rate_limiter.py`, `async_retry.py`) | token bucket per broker, shared retry configurations | acquire, refill, repeat | `BrokerCalls` |
| `resilience.py` | circuit breakers, error counts | call, success, failure | no |
| option strategies (`strategies/option_*.py`) | directions, positions, `identified_strikes.json` | `setup`, `process_cycle`, `process_order`, `evaluate_signal`, `evaluate_exit`, `sync_open_positions` | `StrikeCache`, `OptionEntry`, `OptionTrade`, `StrategyUtils` |
| swing strategies (`strategies/swing_*.py`) | positions, smart levels, `re_entry_tracking` | the same, with confirmation and re-entry | `SwingPivots`, `SwingExpiry`, `SwingBuyRules`, `SwingSellRules`, `SwingTrade`, `SwingEntry` |
| `DataManager`, provider | caches of quotes and history | fetch, aggregate an order | the status it standardises |
| `db.py`, `dbschema.py` | the database | one statement each | the queries others rely on, in their modules |
| broker wrappers (`brokers/`) | a session each | place, exit, cancel, order book | exit and cancel in `ExitOrder`, place in `BrokerCalls`, `PlaceOrder` |
| REST API (`api/`) | none | edits of configurations, exits, reauthentication | `Edit`, `Call`, `ManualExit`, `ApiExitAll`, `Reauthenticate` |
| configuration, security, monitoring, logging | settings, counters | | no |
| dashboard, installer, deployment | | | no |

### How they interact

    main.py -> run_poll_loop --starts/cancels--> run_strategy_config (one per symbol)
                  |    |                              |  setup: identified_strikes.json
                  |    +-- RiskManager                |  place_order --> brokers
                  |                                   v
                  |                              order_queue
                  v                                   |
            strategy_cache  <----------------- order_monitor_loop
                                                      |  creates
                                                      v
       API --exit_order--> OrderManager <---- OrderMonitor (price loop, signal loop)
                                |                     |            |
                                v                     v            v
           BrokerManager: retry, bucket, session   orders,       OrderCache
                                |                  executions
                                v
                             brokers

Everything runs in one event loop: a step is what a coroutine does between two awaits, and no
component takes a lock around more than one statement (the order cache and the file of strikes
excepted). The database commits per statement or per session; the rows of `place_order`'s
executions and `exit_order`'s EXIT rows wait in a session that stays open across calls to brokers. The API is a process of its own, with its own broker objects.

### What is hard about it

* **Interleaving.** The price loop, the signal loop, the API and exit-all may all have `exit_order`
  under way on one order. The poll loop cancels a runner at whatever await it is in.
* **Stale state.** Both loops of a monitor decide on rows they read several awaits before, through
  a cache they clear for each other. Strategies rebuild their memory from the table of orders
  before each cycle, and overwrite it. Setups save a copy of a file that others have written since.
* **Partial failure.** One of several brokers refuses; one of several statements fails; of an option
  and its hedge only one is taken; an answer does not say whether the order was taken.
* **Restart.** The state in memory is lost between two steps; the database, files, locks and brokers
  keep theirs.
* **Several vocabularies.** Three brokers report status in their own words, and a status passes two
  or three tables on its way to a decision.
* **Time.** Square-off, 15:25, 15:30, expiries, holidays and the day's end close orders that may be
  filling or exiting already.
* **Twins.** The buyer and the seller of each strategy are copies of each other, edited by hand.

### What makes each component correct

* *Status tables*: a status that says an order has ended is never wrong.
* *Exit of an order*: hedges go first; a position is closed, not enlarged or turned round; every
  order sent to a broker leaves a trace; a call that is repeated or concurrent adds nothing.
* *Exit of many*: nothing is left out, whatever fails; a limit that is exceeded has consequences.
* *Monitor*: an exit that is pending was requested and gets completed; nobody stops following an
  order that is not finished; a hedge is left to its parent; square-off comes to an end.
* *Poll loop and runners*: one order per strike; runners work with the configuration last seen and
  can be cancelled; every symbol that is due has a runner and no other has; every queued order gets
  a monitor.
* *Strategies*: levels that have been acted on do not move; buyer and seller are mirror images; no
  option is bought that is about to expire; a strike has one open order, a day one entry at a time and one
  re-entry after each; nothing
  is sold without a hedge, and no hedge outlives its order; whatever is placed is watched.
* *Brokers and their manager*: an authentication comes to an end; calls keep to the rate of their
  buckets; a repeated call places no second order.
* *Order cache*: a reader sees a book from after its call, and gets an answer.

The hazards, each at its line and with the properties that would catch it, are in `PROJECT.json`.

## 2. The modules

    StatusMapping                  tables and the derived status; constant operators
      StatusMapping_proofs
      ExitOrder                    exit_order, step by step, any number of calls
        ExitContract               what closing promises (abstract)
        ExitOrder_proofs
        ExitScenarios              instances of ExitOrder, checked side by side
          MCExitOrder, ExitScenarios_proofs
      OrderMonitor                 the two loops of every monitor; exit_order is one step
        OrderMonitor_proofs
        MonitorScenarios           instances of OrderMonitor, checked side by side
          MCOrderMonitor, MonitorScenarios_proofs
    StrategyManager                poll loop, runners, queue, monitor creation
      MCStrategyManager, StrategyManager_proofs
    StrategyUtils                  the regime of a day; rounding
      SwingBuyRules, SwingSellRules   what each swing strategy decides; constant operators
        SwingTrade                 one swing trade under either; uses SwingExpiry
    SwingPivots                    the swing levels over a growing history
    SwingExpiry                    the expiry an option gets
    OptionEntry                    a day of an option strategy: strikes, direction, entry, hedge
      MCStrategies                 SwingTrade, SwingPivots, SwingExpiry, OptionEntry side by side
      Strategies_proofs            SwingTrade, SwingExpiry, OptionEntry
    SwingEntry                     a day of a swing strategy: entry, hedge, confirmation, re-entry
    OptionTrade                    one option position: prices, trailing, exit by price
    StrikeCache                    setup and the shared file of strikes
    BrokerCalls                    bucket, shared retry configurations, repetition
    PlaceOrder                     place_order: slices, brokers, rows of executions
    ExitAll                        exit_all_orders and the RiskManager
      MCTradingDay                 SwingEntry to ExitAll side by side
      MCExitAll
    OrderCache                     the cache of order books
      TradingDay_proofs            SwingEntry to ExitAll, and OrderCache
    BrokerSessions                 who logs a broker in, and the status column
      MCProgress                   OrderCache, BrokerSessions and OrderMonitor, with fairness

`MCStrategies`, `MCTradingDay` and `MCProgress` check several small modules in one run: the variable
`part` is chosen in the initial state and the variables of the other parts rest, which satisfies
their properties. The parts do not interact; a state of the run is a state of one of them. `scenario`
does the same for instances of one module in `ExitScenarios` and `MonitorScenarios`, where a property
of one scenario is stated `scenario = "..." =>`. A scenario with constants of its own is an instance
of the module of proofs, so that the theorems can be cited for it.

### StatusMapping

`Raw` gives the status an order in a given state (`Truths`) has at each broker: this comes from the
broker APIs and is marked external. `FYERS_STATUS_MAP`, `ZERODHA_STATUS_MAP` and `ANGEL_STATUS_MAP`
are the dictionaries of `order_manager.py`; the latter is defined twice there and the second
definition counts. `Renormalised` is the second pass of the price loop, `Standardized` the one of
the aggregate, `MainStatus` the decision on the order's own status.

### ExitOrder and ExitContract

One frame `<<caller, order>>` per activation of `exit_order`; the recursive call on a hedge has a
frame too. A frame goes through `read` (the execution rows), `fetch` (the live order book, with
`check_live_status`), `children`, `loop` and, per row, the branch its status selects: ask the
position and place the exit (`position`, `place`, `close`), cancel (`cancel`, `mark`), add the EXIT
row to the session (`insert`); `commit` ends it. Every await is a step of its own. The exchange is
the environment: it triggers, fills, rejects and cancels entry orders, and executes exit orders
at once (`Prompt`) or later.

What awaits may fail, and each failure goes where the code sends it. A read that raises ends the call
(`RowsUnread`) or is taken for no hedges (`ChildrenUnread`); an exit of a hedge that raises is logged by the
parent, which goes on with its own legs (`ChildFailed`); a broker without an object takes nothing, and the
call does not say so (`BrokerMissing`); a cancellation, a mark or the status at the end may be refused (`CancelRaises`, `MarkFails`,
`StatusUnwritten`). An insertion that fails spoils the transaction it is in, so that nothing of the call is
committed (`InsertFails`), and the commit itself may raise (`CommitRaises`). Three variables say what went
wrong: `skipped` has the hedges a call has seen fail, `spoiled` the calls whose transaction is, `lost` the
legs whose row is gone.

Abstractions: quantities are lots (an entry order is two lots, so that it can be partly filled);
prices, product types and messages are left out; a book belongs to one order.

`ExitContract` has two variables: the net positions, and the orders whose exit was requested. A
position grows lot by lot on its own side, and is closed in one step to zero, after a request only.
`ExitOrder` implements it (`held <- book`, `wanted <- asked`); `PairContract` checks every step.

### OrderMonitor

One price loop and one signal loop per order. The labels of the price loop follow
`_price_order_monitor` from top to bottom: `top` (quick read of the status), `complete`/`rows`
(completion of a pending exit), `load`, `clock` (the rules about time), `square_off`/`mark_eod`,
`cancel`/`mark_cancelled`, `sync` (ENTRY row), `decide` (order status), `orphans`, `refresh`,
`quote`, `exit_price`/`mark_price`, `risk`, `exit_loss`/`mark_loss`. The signal loop is `top`,
`evaluate`, `exit`, `reread`, `mark`, `again`. A status is a pair, its name and `"_PENDING"` or `""`,
so that completing an exit is what the code does: taking the suffix off.

Abstractions: one ENTRY row per order; `exit_order` is one step (`ExitOrder` has its inside), in
which brokers and statements may fail one by one; `EXIT_STOPLOSS` stands for `EXIT_TARGET` too,
which is reached by the same code; square-off time is not after 15:25; average prices and P&L are
left out; entries were placed with a broker order id.

### StrategyManager

`Startup`, `Top`, `Query`, `Symbol`, `Make` and `EndIteration` are `run_poll_loop` between its
awaits; `Cancelled` is what `task.cancel()` does wherever the runner is, and a call to a broker that
was under way may still get through. `Setup`, `Cycle`, `PlaceRow`, `CallBroker`, `Record` and
`Enqueue` are a runner; `Take`, `Lookup` and `LookedUp` are `order_monitor_loop`. An instance of a
strategy is the version of the configuration it was made with and whether it was made for the
symbol or for an order (the latter knows nothing of smart levels). `status` leaves three groups of
order statuses: those `sync_open_positions` reads as open, those with an exit pending, which only
`get_all_open_orders` returns, and the others.

Abstractions: time is the set of symbols in their window; a strategy may want an order for any
strike it sees no open order of; orders are those of the day; a strike belongs to one symbol (an
assumption; see section 7); hedge orders are not placed here (`SwingEntry` and `OptionEntry` place
them); what a monitor does to its order is `Finish`.

### The swing strategies: SwingPivots, SwingExpiry, the rules, SwingTrade

`SwingPivots` is `find_hhlh_pivots` of `swing_utils.py` over a history to which closed candles are
appended, computed afresh from the whole of it at each cycle, as the code does: raw pivots
(`PivotHigh`, `PivotLow`), the zigzag of the kept ones (a fold), the labels HH, LH, HL, LL from the
four preceding pivots, and the latest confirmed high and low. Prices are small integers, which the
code compares only. `SwingExpiry` is the choice of an expiry in `get_atm_strike_symbol`, weekly and
monthly, with `days_before_expiry` and the exit time.

`SwingBuyRules` and `SwingSellRules` are what the two files decide, written from each file
separately: the choice of a smart level and its checks, breakout, lots, regime, targets
(`Signals`), and the exits in the order of `evaluate_exit` (`Exit`: gap, stop, target, trailing, next
day, holiday, RSI, expiry, square-off). `SwingTrade` runs one trade under either of the two: candles
close, time passes in four slots a day, the strategy takes a signal, the signal loop asks for an
exit. It knows of the swing levels only what `SwingPivots` shows of them: the high is above the low.
RSI and ATR are inputs; the hedge's symbol, holidays fetched and lot sizes are left out, and so are the
writes of a status that the rules about time make before they give the reason to exit (a failing one is
logged and the rules go on) and the time zone that `expiry_date` is converted from.

### SwingEntry

A trading day of a swing strategy, either side (`mode.sell`), with the confirmation on the next
candle (`mode.atomic`) and smart levels with re-entry (`mode.smart`). A cycle is `Cycle`
(`check_trade_limits`, `sync_open_positions`), `Evaluate` or the look at each position for a
re-entry (`Touch`, `Again`), `PlaceHedge`, `Unhedged`, `BuyMain` or `SellMain`, `Link`
(`set_parent_order_id`), `Unwind`, `BuyPlaced`, `Confirmed` or `BuyUnconfirmed`, `Mark` and `Return` (for
the seller `SellPlaced`, `SellUnconfirmed`). It may be cut off at every label (`CutOff`), and the process
restarted (`Reload`). `track` is the table `re_entry_tracking`. What the brokers answer to an order is one
of three: some broker took it, all say it failed, or it was not taken without all saying so. Monitors
exit, give up or complete orders, with their hedges. Prices and candles do not appear: whether there
is a signal is a free choice.

Each call of `process_order` may fail, with the row it made and whatever the brokers took left behind:
`HedgeRaises`, `BuyRaises` and `SellRaises` (`place_order` raises once there is a row), `NoMain` (it returns
`None`), `Unbuilt` and `NotReturned` (there was no request yet, so the hedge is not returned), `LinkFails`,
`FailureUnwritten`, `UnhedgedFails`, `UnwindFails`, `UnwindUnwritten`, `AttemptUnwritten` (the record of the
re-entry), `UnconfirmedStays`, `MonitorExitFails`. An exit that *fails* here raises, or returns as if nothing
were wrong. `faults` remembers which call failed for which order, and the properties let go of that
order and of no other.

### OptionEntry, OptionTrade, StrikeCache

`OptionEntry` is the day of an option strategy over its strikes: the supertrend of the last two
candles, `_last_signal_direction` (taken from the rows before each cycle, reset by a flip), the
trade limit, and `process_order` with the seller's hedge, whose calls may fail as in `SwingEntry`. `OptionTrade` is one position: the prices
`calculate_trade` gives it, the trailing stop of `evaluate_exit`, the price loop's decision, and the
row the two loops cache for each other, read and stored in different steps. The price loop's period
is a fraction of the signal loop's; the module assumes one pass between two evaluations
(`passes`). `StrikeCache` is `setup` of both with `identified_strikes.json`: load, clean up by age and
by first candle, fetch, and save the copy; a lock file that a crash may leave behind; an entry that
cannot be parsed.

### PlaceOrder

One call of `place_order` or, with more than one slice, of `split_and_place_order`. `place.pc` is
`new` (`InsertOrder`: the row of the order), `brokers` and `lookup` (`BrokerManager.place_order`: each
broker is passed over, has no margin, takes or refuses the order, or takes it with the answer lost;
then its id is read), `record` (an execution for each answer that has an order id), and `returned`,
`raised` or `cut` (`Cut`: the runner is cancelled or the process gone, at any of these). `order.slices`
and `order.margin` are the request; brokers come in any order.

Two sessions are open for long: that of the executions, for the whole call, and that of the
brokers' ids, for one fan-out. This is PostgreSQL behind SQLAlchemy: once a statement has failed,
what follows in the transaction fails too, and a commit keeps nothing. Left out: the price of each
slice, the repetition of calls (`BrokerCalls`), and the order's parent.

### BrokerCalls, BrokerSessions, OrderCache, ExitAll

`BrokerCalls`: a call changes its shared `RetryConfig` (`BeginCall`), takes a token from the bucket it
read there (`Pay`), and succeeds, loses its answer, is placed again by the wrapper (Angel only) or
raises; an attempt that is repeated (`TryAgain`) reads the configuration again, which by then may name
another broker. The first call of each `BrokerManager` (`EnsureLimiter`; `ManagerOf` says whose a call is)
drops the buckets of all brokers, and full ones take their place: a bucket is a broker since a manager
came, and calls that sleep at an old one still drain it. A tick is the time a bucket needs for a token.

`BrokerSessions`: the row of one broker in `broker_credentials`, and those that log it in: the broker
monitor, which sets up for ever at its times of the day and always takes a new token; the trading
process and the API, which set up once; requests to log in anew, whose `BrokerManager` is never set up.
Reading the row and writing it are steps of their own: `Look` and `LookAtToken` read, `Begin`, `GiveUp` and
`Finish` write the status, `ReadRow` and `StoreToken` are a login that stores its token, and with it the
whole row and the status that had been read (Angel always, Zerodha and Fyers unless `Reuse`). Waiting for
another process lasts up to `Polls` looks; anything may crash anywhere, and a setup that raises is such a
crash. Whether a token is stale is left open wherever the code asks. Left out: edits of the status
through the API, and the broker objects.

`OrderCache`: one broker's refreshing task with its lock and event (set and
cleared at once), a fetch that fails or is empty, and calls of `get_orders`.

`ExitAll`: `exit_all_orders` for the API and for the poll loop's risk check, order by order. The exit of
an order asks any of the legs it goes about and *misses* the others: the exit of a hedge failed, a broker
has no object, or something raised and was logged. It may raise itself, too. Orders are placed, recorded, filled and
exited meanwhile. The `RiskManager` makes a `BrokerManager` of its own, which has no broker objects
(`ObjectsOfRiskManager`).

## 3. What is checked

State counts are of TLC's runs on the configurations as they are.

| run | instance | checked | states |
|---|---|---|---|
| `exit_calls` | *pair*: one call on a SELL order with a BUY hedge at two brokers, both traded meanwhile; *twice*: two calls one after the other on the same two, of which the first may fail anywhere, the order traded meanwhile, restarts; *race*: two concurrent calls at Angel, exits executed late | `PairHedgesFirst`, `PairExitsOnce`, `PairNeverAdds`, `PairContract` in *pair* and *twice*; `ExitsLeaveTraces`, `EntryTruthful` in all | 1,468,000 |
| `monitor_safety` | *faults*: a delivery order, API exits, failing brokers and database; *pair*: an intraday order and its hedge, restarts; *price*: a delivery order, API exits, restarts | `PendingAfterExit`, `HedgeIgnoresClock` in all; `PairNotAbandoned`; `PricedHoldsNothing` | 1,275,000 |
| `poll_loop` | two symbols, one edited; two orders for one strike, one of them from before; one failing call or restart; fairness | `OneOpenOrder`, `RunsSeenConfig`, `RunnersKnown`, `ActiveRuns`, `IterationSettles`, `QueuedIsMonitored` | 534,000 |
| `strategies` | *pivots*: histories of up to eight candles; *expiry*: 140 days; *trade*: two days of one trade under either strategy, four configurations; *option*: a day of either option strategy with failing brokers, one cycle cut off or one call failing | `LevelsStand`; `BoughtAhead`; `LeftInTime`, `SwingTwins`; `OneOpenPerStrike`, `OptionHedging` | 1,395,000 |
| `trading_day` | *swing*: a day of either side with failing brokers, one cycle cut off, one restart or one call failing; *trade*: one option position; *strikes*: three setups over two days, a crash; *calls*: three calls at two brokers by two `BrokerManager`s; *place*: an order in up to two slices at two brokers, a failing statement, a cancellation; *exits*: exit-all of three orders | `NothingUnwatched`, `OneEntry`, `OneReEntry`, `SoldAreHedged`, `HedgesEnd`; `ExitsAreDue`, `OptionStopTightens`; `StrikesOfToday`; `BrokersPaced`, `OrdersPlacedOnce`; `PlacedIsAccounted`; `AllAsked` | 1,492,000 |
| `progress` | *cache*: two readers of three books; *sessions*: the broker monitor, the trading process and a request, two crashes; *order*: an intraday order with failing brokers; fairness | `FreshAfterWait`, `ReadersReturn`; `SessionsSettle`; `RowsCompleted`, `PendingCompletes`, `SquaredOff` | 47,000 |

Six runs look for a violation and find it. Each is a disagreement between the code and what its
own comments say:

| run | property | what happens |
|---|---|---|
| `exit_partial_side` | `PartialNeverAdds` | the branch for a partly filled leg (`order_manager.py:1854`) passes no side, so the position of a BUY leg at Angel is enlarged |
| `monitor_signal_race` | `NeverStuck` | the price loop completes an exit between two steps of the signal loop, which then makes it pending again (`order_monitor.py:2345`); nobody is left to complete it |
| `monitor_hedge` | `HedgeProtected` | writing the quote clears `is_hedge` (`order_monitor.py:2049`) immediately before it is tested: hedges are exited on their own price |
| `monitor_overwrite` | `ExitPreserved` | the status to be preserved is that of a row read awaits earlier (`order_monitor.py:657`): a pending exit the API has written meanwhile becomes OPEN |
| `poll_sweep` | `SweepsInactive` | when the last active symbol is switched off the branch that cancels runners is not entered (`strategy_manager.py:680`); its runner trades on until the market closes |
| `loss_limits` | `LossStops` | the `RiskManager` asks a `BrokerManager` of its own, which has no broker objects (`strategy_manager.py:167`): it sees no losses and stops nothing |

What the properties say, and why a test would hardly find their failure, is in the comment above
each. Each is paired with a mutant of the code in `PROJECT.json` that breaks it.

Some properties are checked under a restriction of the instance because without it they do not hold;
these restrictions are the content of section 7. `PairExitsOnce` and `PairContract` need a prompt
exchange and calls after each other, and the latter, like `PairNeverAdds`, brokers without partial
fills; `PairNotAbandoned` needs a monitor without database errors and without a signal loop,
`RowsCompleted` one without a restart between the writes of a completion; `PricedHoldsNothing` a
delivery order whose brokers do what they are asked.
`PlacedIsAccounted` lets go of calls that are cut off or in which a statement failed, and of orders whose
answer was lost.

Others let go of what a failure has left behind, and name the failure in their statement.
`PairHedgesFirst` exempts a hedge whose exit this very call has seen fail; `ExitsLeaveTraces` a leg whose row
went with a failed insertion, a failed commit or a restart; `AllAsked` a leg that the exit of its own order
missed, but not one that the exit of its parent missed; `NothingUnwatched`, `SoldAreHedged`, `HedgesEnd`,
`OneReEntry` and `OptionHedging` the orders of a cycle that was cut off, and an order whose own call failed
(`Unplaced`, `Unmarked`, `Unexited`, `Unlinked`, `Unreturned`, `Unrecorded`), which leaves every other order and
every later cycle bound. `OneOpenPerStrike` needs no exemption.

`OrdersPlacedOnce` leaves out Angel, whose wrapper places again on an empty answer; `BrokersPaced` leaves out
the retries that a shared configuration has charged to another broker's bucket, and counts one bucket for
each `BrokerManager` that has come to use the limiter.

### Bounds, and why they are enough

* *Two callers* at once in *race*, *MaxCalls = 2* after each other in *twice* (`ExitOrder`): calls touch
  each other through the rows and the book only; a third repeats what the second meets. *NotManual*: in
  *pair* and *race* the order is not exited by hand, which only changes its status; *twice* has both. *Two lots
  per entry*: none, some, all.
* *One order, or an order and its hedge*: monitors of unrelated orders share no state.
* *Kind*: Zerodha and Angel differ in how a partial fill is seen and in how the side is chosen;
  Fyers closes by symbol. The kind of a scenario is the one that can break its property.
* *Two symbols* (`StrategyManager`): one whose configuration changes and one beside it that must be
  left alone. *Two orders of one strike*: enough to have one too many. *Windows*: both symbols in or
  out. *MaxVersion = 2*: one edit, which may come at any point, and with it a switch of the symbol.
  *MaxTroubles = 1*: one failing call, or one restart, anywhere.
* *MaxBars = 8* (`SwingPivots`), one candle to either side of a pivot: two highs and two lows that
  alternate, and a later one that could replace the last. *CalendarDays = 140*: every weekday as a
  month's end, and a weekly expiry on either side of a monthly one. *LastDay = 1* (`SwingTrade`): the
  day of entry and the next, which is all the carry-forward rules distinguish.
* *Rows* (`SwingEntry`): four for the seller with confirmation and re-entry, so two pairs of an order and its
  hedge, and two for the one without; for the buyer
  two with confirmation and three without, so an entry, its re-entry and one too many. *MaxTrades = 2*: the limit can be
  reached and exceeded. *MaxCuts = 1* (`OptionEntry` too): one cycle is cut off, one restart comes or one
  call fails, anywhere; what brokers refuse is not counted.
* *Two strikes, three rows* (`OptionEntry`): one strike may have to wait for the other. The strikes are
  interchangeable, and TLC is told so (`StrikeSymmetry`).
* *Three configurations, two days, LastTick = 3, one crash* (`StrikeCache`): two share an entry and their
  first candles differ, the third writes the same file; entries get one day old.
* *Three calls, two managers, Burst = 1, LastTime = 1, MaxAttempts = 2* (`BrokerCalls`): two to place and one to
  fetch, by a manager of its own, so a shared configuration changes its broker between two attempts, and a
  bucket is replaced while a call sleeps at it; a bucket runs empty and refills.
* *Two brokers, MaxSlices = 2, MaxTroubles = 1* (`PlaceOrder`): one broker or slice fails beside another
  that does not; one failed statement spoils what follows in its session.
* *Three orders, MaxCalls = 1* (`ExitAll`): a pair and an order of another strategy that comes after a
  failing one. In `trading_day` prices move only when the call of the API is over: the risk check sees none.
* *MaxVersion = 3, two readers* (`OrderCache`): a book before, during and after the call; one reader waits
  while the other is served. *Polls = 1, MaxCrashes = 2, three processes* (`BrokerSessions`): one that
  comes again and again, one that comes once, one that does not look at the status; two may die, and
  the third write over what they left.
* Callers, calls, versions, troubles, cuts, crashes, attempts and clocks are bounded in guards; the
  other bounds are sizes of constant sets.

### Fairness

`OrderMonitor!FairSpec` has weak fairness of each loop's step: asyncio resumes a coroutine when
what it awaits is there, and all that the loops await is a sleep, a statement or a broker call with
a timeout. `StrategyManager!FairSpec` has it for the poll loop and for the monitor loop, for the same
reason. `OrderCacheFairness` has it for the refreshing task, whose fetch returns or raises, and for
readers that can look again; `SessionFairness` for what a process has begun (every wait and every
authentication in `BrokerManager` has a timeout), and for the setup of the broker monitor alone: it is
kept running and its scheduler sets up again at the times of every day (`broker_monitor.py:133-151`). The API
sets up on the first request that needs a broker, if there is one, and the trading process when somebody
starts it: neither is assumed.
`ExitAllSpec` has it for the poll loop's risk check. Nothing is assumed of runners, of the market, of the API, of
brokers, of readers to come or of the clock: `ActiveRuns` and `QueuedIsMonitored` let go when the
symbol leaves its window or the market closes. Weak fairness of the whole step of a loop does not
favour one of its branches: a call that may fail may fail as often as the bounds allow.

## 4. What is proved

TLAPS checks these theorems for every value of the constants that satisfies the hypotheses:

| module | theorem | says of every behaviour | hypotheses |
|---|---|---|---|
| `StatusMapping_proofs` | `ViewDone`, `SyncedDone` | a normalised status that is final is the truth, after one table and after two | |
| `ExitOrder_proofs` | `TypeCorrect`, `Truthful`, `EntriesTruthful` | `TypeOK`, `TruthInv`, `EntryTruthful` | *C* |
| | `SentRecorded` | `SentIsRecorded`, with any number of concurrent calls, failures and restarts | *C* |
| | `ExitRowsUnique` | `OneExitRow` | *C*, one at a time |
| | `NeverReverses` | `ExitNeverReverses` | the same, own books, prompt exchange |
| | `NeverAdds` | `ExitNeverAdds` | the same, no Angel |
| | `ImplementsContract` | `ContractSpec`: `ExitOrder` implements `ExitContract` | the same |
| | `HedgesGoFirst` | `HedgesFirst` | *C*, one at a time, hedges have none |
| `ExitScenarios_proofs` | `PairHedges`, `PairExits`, `PairAddsNothing`, `PairKeepsContract` | `PairHedgesFirst`, `PairExitsOnce`, `PairNeverAdds`, `PairContract` | those of the theorem each is the scenario's form of |
| | `TracesLeft` | `ExitsLeaveTraces` | *C*, "no order" is not an order |
| `OrderMonitor_proofs` | `TypeCorrect`, `HedgesSpared`, `ExitRequestedFirst` | `TypeOK`, `HedgeIgnoresClock`, `PendingAfterExit` | *C* |
| | `OrdersFollowed` | `NoneAbandoned` | *C*, undisturbed |
| | `RowsGetCompleted` | `RowsCompleted` | *C*, undisturbed, no restart |
| | `ExitsClosePositions` | `ExitedHoldsNothing` | *C*, obliging |
| `MonitorScenarios_proofs` | `PairFollowed`, `PricedExitsClose` | `PairNotAbandoned`, `PricedHoldsNothing` | *C*; undisturbed; orders at Fyers |
| `StrategyManager_proofs` | `ManagerTypes`, `ManagerKnowsRunners`, `RunnersSeeConfig`, `OneOrderPerStrike` | `TypeOK`, `RunnersKnown`, `RunsSeenConfig`, `OneOpenOrder` | *C* |
| | `IterationsSettle` | `IterationSettles`, an action property | *C* |
| `Strategies_proofs` | `TwinsAgree`, `OverNightAllowed` | `SwingTwins`, `LeftInTime` | *C* |
| | `ExpiriesAhead` | `BoughtAhead`, an action property | *C* |
| | `StrikesHaveOneOrder`, `OptionsAreHedged` | `OneOpenPerStrike`, `OptionHedging` | *C* |
| `TradingDay_proofs` | `EntriesWatched`, `OneFirstEntry`, `HedgesAreEnded`, `SoldIsHedged`, `OnceReEntered` | `NothingUnwatched`, `OneEntry`, `HedgesEnd`, `SoldAreHedged`, `OneReEntry` | *C* |
| | `NothingPlacedTwice`, `BucketsHold` | `OrdersPlacedOnce`, `BrokersPaced` | *C* |
| | `StrikesFound`, `AllAreAsked`, `PlacedAccounted` | `StrikesOfToday`, `AllAsked`, `PlacedIsAccounted` | *C* |
| | `PriceExitsDue`, `StopOnlyTightens` | `ExitsAreDue`; `OptionStopTightens`, an action property | *C* |
| | `ReadersFresh` | `FreshAfterWait` | |

### What is assumed

*C* is the assumption on the constants of the module (`ExitOrderConstants`, `TradeConstants`, ...): their
types, that "no order" is not an order, that a field of a configuration has the type of its column,
that a month has 28 to 31 days, and in `StrategyManager` that a strike belongs to one symbol and had
at most one order when the program started. TLC evaluates each in the run of its module.

The other hypotheses leave out what is known to break the property, and name it:

* *one at a time*, *own books*, *hedges have none*, *no Angel*, *prompt exchange* (`OneAtATime`, `OwnBooks`,
  `HedgesHaveNone`, `NoneAtAngel`, `Prompt`): two calls at once write two EXIT rows and sell a position
  twice; orders in one symbol share a position; Angel alone shows partial fills, where the side is
  missing (`exit_partial_side`); a market order that is not yet executed is not seen in the position.
  No strategy gives a hedge a hedge.
* *no restart* (`~Restarts`): the status and the rows of a completed exit are written one after the other.
* *undisturbed* (`Undisturbed`): intraday orders, exited by price, loss and the clock; no failing database, no
  exit through the API, no signal loop; and, if the process restarts, no loss limit, because a restart
  does not know `EXIT_MAX_LOSS_PENDING` (`db.py:2362`). Brokers may fail.
* *obliging* (`Obliging`): delivery orders at Fyers without a signal loop, whose broker and database do as
  they are asked. Prices, the API, parents and restarts are free.

### The arguments

None of these properties is inductive by itself, unless nothing is said of it here. The invariants
that are have the name given; the comment above each says what it adds.

**Truthful** (`TruthInv`). An ENTRY row is written from the live book a call fetched earlier, from the row
it read earlier, or from the order cache. The invariant says of each of these what is claimed of the row:
whatever is remembered of a *finished* order is true, because a finished order does not change
(`DoneStays`). What is remembered of an unfinished one may be out of date, and no property relies on
it. A cancellation is written only after the broker took it (`CancelAcknowledged`). The two lemmas
about the tables carry the argument over the vocabularies.

**SentRecorded.** What is sent is followed by the insertion of its row (`SentIsPending`). A leg that waits
for it goes on waiting until the row is committed, whatever other calls do, or it enters `lost`, which only a
failed insertion, a failed commit or a restart of its own call brings about (`PendingStays`); rows are only
added (`RowsAdded`). **ExitRowsUnique** (`RowInv`): a leg
in a call's session has no row yet, and belongs to the order of the call, so that no second frame has
it too.

**NeverReverses** (`SideInv`). A call that is about to place an exit asks for no more than the
position is (`ExitFits`). The position was read one await before; since then only the entry order can
have traded, and only away from zero. **NeverAdds**: without Angel no row, no book and no call ever says
PARTIALLY_FILLED (`WholeInv`), so what is closed was FILLED, and the side is passed.

**ImplementsContract** (`PositionInv`, the conjunction of these). The initial states are those of the contract. A
step of the exchange that fills an entry is `Build`, a call of `exit_order` is `Request`, the execution
of an exit that was FILLED and whose size fits is `Close`, after a request because a frame at work has
its order in `asked` (`Owned`); every other step leaves book and requests alone.

**HedgesGoFirst** (`HedgeInv`). Past the reading of the hedges each is still to be exited, awaited, or
finished, or in `skipped` because its exit raised and this call caught it (`HedgesSeen`). A finished hedge stays so, because nobody else is at work on it: a frame of
the hedge belongs to the call that awaits it (`Nested`).

**HedgesSpared** (`HedgeIInv`). `is_hedge` is false after every clearing of the cache, also for hedges. It is
right again whenever the loop stands at the rules about time, because the read just before filled
the cache; this is what fails further down the loop, at `exit_price`.

**ExitRequestedFirst** (`ExitIInv`). At a label where a loop writes a pending status, the exit was requested; a
status the signal loop has re-read, or the completion works on, is never that of a closed child.

**OrdersFollowed** (`WatchIInv`). A loop stops over a finished order only: by the row it has in hand, which may
be old, so the invariant says that such a row is *honest*: if it says finished, the order is, and a finished
order stays finished. A pending status is one that a restart picks up.
**RowsGetCompleted** (`RowsIInv`) follows the completion: first the status, then the rows, then
the loop is told to stop; the exit of a parent, which gives its child CLOSED, takes the EXIT row along.

**ExitsClosePositions** (`HoldIInv`). An order is OPEN only if its ENTRY row says FILLED, and that is
for good (`Entered`): neither a late poll of the order cache nor a row read earlier takes it back. `exit_order`
then closes the position, so that where an exit status is given, the position is flat and the entry
order can no longer be executed (`Flat`).

**OneOrderPerStrike** (`IInv`). When a runner is about to insert the row of an order, no other order of
the strike is open (`HandInv`: rows of the strike are only made by this runner, which takes the
assumption on strikes, and an order that is over does not open again); past that point its order has
a row; whatever was sent has a row (`SentHasRow`). A cancelled runner leaves its row behind, which
keeps the next one from the strike. `RunnersKnown` is needed, because a runner outside
`running_tasks` could act for the symbol beside the new one.

**RunnersSeeConfig**, **IterationsSettle** (`ConfigsInv`). An instance made for its symbol is in the cache only
while its runner runs, and is of the version the loop has seen, which is not newer than what the
query returned (`ConfigInv`). At each symbol, those the iteration has been through have a runner
exactly if they are due, unless something failed (`SettleInv`).

**EntriesWatched**, **OneFirstEntry** (`EntryInv`). The invariant has what a cycle holds at each label
(at `unwind` the order in hand is not live, which is why the cycle may let go of it), and that a
cycle about to enter for the first time has seen no open order (`FirstInv`). The latter survives the
monitors because none of them makes an order open again (`RowsMove`), and a restart because a new
cycle reads the table first.

**HedgesAreEnded**, **SoldIsHedged** (`HedgeInv`); **OptionsAreHedged** alike. Rows are used in their order
(`NumberedInv`), so the seller's order comes right after its hedge, is linked to that and nothing else
(`LinkedInv`), and what the cycle has in hand no monitor ends (`CycleInv`). The monitor of an order
exits its hedge with it, unless that exit fails, which `faults` has then. The rows a failed call leaves
behind are never in a cycle's hands again. **OnceReEntered** (`ReInv`): while a cycle is at a re-entry its parent is recorded
as touched, and as attempted before the re-entry leaves the cycle's hands, or it is not open, or the
record failed (`Unrecorded`); a
re-entry whose parent is not recorded as attempted is the one in hand. **StrikesHaveOneOrder**
(`StrikeInv`): each cycle remembers the strikes that have a row, whatever became of it, and a strike is forgotten
only as it is evaluated; so a row is never joined by another, not even one whose `place_order` failed. That is
more than the theorem says, and more than is meant: the reset at `option_buy.py:642` is for entering a strike
again, and `:386` undoes it (section 7).

**TwinsAgree.** The reasons to exit are, for either strategy, a table of eight, of which the first that
holds counts; the tables are compared row by row, with lemmas about the least index. The signals are
compared choice by choice, where the seller looks at the smart level with calls and puts exchanged.
**OverNightAllowed** (`TradeInv`): before there is an order nothing was evaluated, and an order that is
evaluated late in a day and kept was kept by the rules of either strategy. **ExpiriesAhead** is
arithmetic over a calendar of any months.

**BucketsHold** (`PaceInv`). `BrokersPaced` bounds the calls charged to their own broker's bucket in every
interval. The invariant is about one bucket and says, for the intervals that end now, that calls and
remaining tokens together are within Burst + length; a tick moves the end and adds at most one token, a call
trades a token for a call. What is charged to a broker is the union over its buckets, which a lemma counts
(`Parts`). **NothingPlacedTwice** (`OnceInv`): a call that is still to be repeated was not taken, because the
wrappers of Zerodha and Fyers turn a lost answer into a failure that is returned, not raised, and
only what is raised is repeated.

**ReadersFresh** (`CacheInv`). If the book was being fetched when a reader came, that fetch or a later one
ends before it is woken (`LockInv`, `ServedInv`). **StrikesFound** (`FetchInv`): a setup only fetches after the
first candle. **AllAreAsked** (`FoundInv`): an order that exit-all found live at a broker is still to be
exited, has been asked for, or was missed by the exit of its own order or that exit raised; that an earlier
exit of its parent missed it only leaves it live, and to be exited.

**PlacedAccounted** (`AccountInv`). A broker takes a slice once and not before its turn (`TurnInv`); what
was taken is in the answers unless the answer was lost (`AnsweredInv`), and what was answered is in
the session that is committed unless a statement failed (`RecordedInv`).

**PriceExitsDue**, **StopOnlyTightens** (`TradeInv`). The row a coroutine has in hand may be old: its target
is that of the position, its stop one that the position has had, which was looser. The row by which a signal
trails is not old, because the price loop has read it since the last signal and before the next
(`FreshInv`), which takes the assumption on the two periods.

### Checked with TLC only

* Liveness: `PendingCompletes`, `SquaredOff`, `ActiveRuns`, `QueuedIsMonitored`, `ReadersReturn`,
  `SessionsSettle`. Liveness under fairness is beyond the prover.
* `LevelsStand`. The pivots are folds over histories; what a fold computes for every history takes an
  induction over it.

## 5. What is not modelled

* `resilience.py`: circuit breakers are defined and used by no path that places or exits orders.
* `DataManager` and the provider's caches of quotes and history: prices and candles are inputs.
  Indicators (supertrend, RSI, ATR), greeks and lot arithmetic are numerical; what they decide is an input
  or a free choice.
* Averages, P&L and charges: arithmetic without control, except where a test on them selects a
  branch, which is then a free choice.
* Edits of a broker's status through the API (`PUT /brokers/{name}`), which may write any of them; and the
  broker objects of a process, which a failed setup leaves missing (`BrokerMissing`, `Asked`).
* The SQL behind `db.py`, HTTP and formats of the broker clients, logging in at each broker
  (`broker_utils.py`), the API's parsing and authentication, configuration, security, monitoring, logging,
  performance tuning, dashboard, installer, Kubernetes and deployment files: no state that takes part in
  the life of an order.

## 6. Plan

Done: `StatusMapping`, `ExitOrder` with `ExitContract`, `OrderMonitor`, `StrategyManager`; the swing and
the option strategies; `OrderCache`, `BrokerCalls`, `BrokerSessions`, `StrikeCache`, `PlaceOrder`, `ExitAll`.

Every invariant and every action property of the runs but `LevelsStand` is a theorem. What is left:

1. `SwingEntry` and `OrderMonitor` composed: a re-entry while the exit of the first order is completed.
2. `NoneAbandoned` for orders that are exited through the API too, with the one interleaving of
   section 7 that breaks it taken out of the step and not of the constants.
3. `NeverAdds` with legs at Angel whose entry is complete.

## 7. Seen while modelling

Behaviours the models contain, or that a reading turned up, and no run is devoted to. The
properties above are stated so that they do not claim otherwise.

Orders and monitors:

* `order_monitor.py:1854`: the emergency closure writes a column `notes` that `orders` does not have;
  the error is swallowed and the order stays pending (:1822 promises the opposite).
* `db.py:2362`: the list of statuses leaves out some pending exits the docstring at :2359 includes.
* `order_monitor.py:775`: after an exit on price the same iteration goes on to the loss limit and may exit
  again with another reason.
* `order_monitor.py:391`: at 15:25 an order is CANCELLED on the strength of an old row, although its entry
  may have filled; in the same way square-off with old rows cancels nothing and leaves the position.
* `order_monitor.py:710`: a database error in one of an iteration's writes ends the price loop; the signal
  loop goes on without it.
* `order_request.py:41` says that OPEN means executed; Zerodha reports OPEN for an order that rests in
  the book.
* `order_manager.py:103` replaces the table at :67 (`complete` becomes OPEN, not FILLED); normalised once
  more by the price loop it becomes AWAITING_ENTRY.
* `order_monitor.py:1780`: rows are inserted in a session that is not committed (:1718).
* `order_manager.py:724`: two concurrent calls both find no EXIT row and both insert one (:718).
* `zerodha.py:612`: the position is read, then reversed; two calls before the first is executed sell it
  twice (:597). Positions are per symbol, so orders in one symbol close each other.
* `order_manager.py:1906`: cancelling the rest of a partly filled leg may mark it CANCELLED; later exits skip it.
* `order_manager.py:1522`, `:416`: a hedge whose exit raises is logged, and its order is exited all the same. The
  hedge stays in the market, under the monitor of its own that leaves it to its parent.
* `order_manager.py:1829`, `:1933`, `:1944`: EXIT rows are committed at the end of the call, in one transaction. One
  insertion that fails, or the commit, or a restart before it, loses those of all brokers; the orders sent
  stay. Only the failure of the commit is told to the caller.
* `broker_manager.py:811`: a broker without an object raises, and `exit_order` catches that for each leg; so it returns
  as if everything had been asked to end, and `exit_all_orders` counts the order as exited.
* `order_manager.py:203`, `:285`: placing in slices drops the parent of a hedge. A cancellation in the middle
  of `place_order` leaves an order without execution rows, although a broker may have it; its exit then
  finds no executions and does nothing (:1490).
* `order_manager.py:228`: "Continue with other brokers even if one fails" (so :713, and :310 for
  slices): the insert that fails takes the session's transaction with it, the later ones fail as
  well, and the commit at :229 keeps none, not those of earlier slices either.
* `broker_manager.py:438`: when the id of a broker cannot be read its answer is replaced by
  `{"status": False}`, without the id of the order it took; the session is of no use for the brokers
  after it, whose answers go the same way. Such an order gets no execution row.
* An order in slices comes back without `broker_responses`, so the strategies never take it as failed;
  nor one whose answers are `{"status": False}`. One broker that took a hedge is enough for the
  order to go to all of them.
* `order_manager.py:400`: children are exited without the filter by broker that :776 promises, so the stop of
  one broker closes hedges at all of them. With exit-all, hedges are exited twice, by their parent
  and as orders of their own; `strategy_id = 0` is as good as none.

Poll loop, runners, risk:

* `strategy_manager.py:557`: an order taken from the queue when the market has closed is dropped for good.
* `strategy_manager.py:603`: started before the market opens, the program does not queue open orders.
* `strategy_manager.py:425`: an instance made for an open order at startup is reused by the symbol's first
  runner with the configuration of that time; `RunsSeenConfig` speaks of the other instances.
* `strategy_manager.py:308`: the emergency stop calls `exit_all_orders` with a keyword it does not have.
  :334: the stop of one broker is repeated at every poll while its limits are exceeded. Neither is
  reached as long as :161-177 sees no positions (`loss_limits`).
* `strategy_runner.py:33`: the check of a failed setup follows the `return`.

Option strategies:

* `option_buy.py:334`: an order with an exit pending does not count as open, so its strike may be entered
  again before the exit is complete; `OneOpenOrder` leaves such orders out.
* `option_buy.py:386`: the direction is overwritten with that of the last order, which undoes the reset at :642
  (`option_sell.py:996` says it the other way round); `:430`: the trade limit does not count open trades.
* `option_buy.py:346`: two symbols whose strikes coincide may both enter them.
* `option_sell.py:1087` asks for the regime with `strategy="BUY"`; the test of it at :1111 compares with a
  word of another case.
* A failed hedge or a rejected entry counts as an entry of its direction and blocks the strike.
* `option_sell.py:827`, `swing_highlow_sell.py:1634`: when `place_order` of the main order raises after a broker took
  it (its commit, `order_manager.py:229`), the strategy exits the hedge and forgets the order: it stays sold,
  without hedge, and without monitor until a restart.
* `option_sell.py:747`, `swing_highlow_sell.py:1555`: a hedge that could not be linked is nobody's child: no exit of its
  order reaches it. One whose exit in the unwind raises is returned as if it were the order.
* The file of strikes: entries saved between another setup's load and save are lost; one that was
  computed later in the day cleans up by its own first candle; a lock file left by a crash makes
  every setup time out until somebody removes it.

Swing strategies:

* `swing_utils.py:545`: `("NIFTY")` is a string, so `is_weekly` asks for a first letter among N, I, F, T, Y.
* `swing_utils.py:595`: on the day itself `days_before_expiry` goes back to the expiry it had advanced from.
* When the seller's re-entry is not confirmed it is exited by a method of the strategy
  (`swing_highlow_sell.py:1364`, from :1183 and :1215) that asks no broker, unlike the first entry's exit and the
  buyer's.
* The trade limits count closed hedges as trades; an order whose exit is pending is not counted, so
  that `max_trades` may be exceeded.
* `sync_open_positions` reads the orders of the day: a position carried over is not seen, and the symbol
  may enter again.
* Answers that do not say so are not a failure: an order that no broker took, with an unclear
  answer, is followed as if it were in the market.
* `re_entry_db_helpers.py:169`: when the attempt at a re-entry cannot be recorded the strategy logs it
  (`swing_highlow_buy.py:1268`), and the re-entry may be made once more.
* `swing_highlow_sell.py:1634`: an exception before the request of the main order exists leaves the hedge without
  anybody to return it to.
* Re-entries are positions too, and may be entered again after a pullback of their own.
* Without a smart level the buyer's setup fails, while the seller trades without that check.
  A smart level may yield no lots.

Brokers:

* `broker_manager.py:106`, `rate_limiter.py:175`: the first call of each `BrokerManager` of a process replaces the
  buckets of all brokers by full ones, also of those just drained; calls that sleep go on with the old.
* `angel.py:314`, `broker_utils.py:1545`: a login writes the whole row it read before, so an AUTHENTICATING of that time may
  be written over the CONNECTED of another; it stays until the broker monitor's next setup gives up on it.
* `async_retry.py`: one configuration object serves all brokers; a call under way may be charged to the
  bucket of another (`BrokersPaced` leaves those out).
* `fyers.py:756`, `:778`: "Add delay before retrying", and then an answer without retrying.
  `angel.py:416`: an empty answer is a reason to place again.
* A wrapper that raises after the broker took the order leaves it FAILED.
* A setup that gives up waiting leaves a process without a broker object under the status CONNECTED, or
  writes ERROR over it; after a reauthentication by the API the main process keeps its old
  session.
* `order_cache.py`: when a fetch fails in the broker manager the book is stored as empty, not kept.
  `stop()` is never called.

## 8. Running it

    tlc -workers 2 -config PollLoop.cfg MCStrategyManager.tla     # any run of section 3
    tlapm StrategyManager_proofs.tla                              # any *_proofs module

| configuration | module |
|---|---|
| `ExitCalls`, `BadPartialSide` | `MCExitOrder` |
| `MonitorSafety`, `BadHedge`, `BadSignalRace`, `BadOverwrite` | `MCOrderMonitor` |
| `PollLoop`, `BadSweep` | `MCStrategyManager` |
| `Strategies` | `MCStrategies` |
| `TradingDay` | `MCTradingDay` |
| `Progress` | `MCProgress` |
| `LossLimits` | `MCExitAll` |

No run takes more than five minutes.
