-------------------------------- MODULE ExitAll --------------------------------
(***************************************************************************)
(* Exits of many orders: exit_all_orders of OrderManager, for the API and for  *)
(* the RiskManager, whose limits the poll loop checks while the market is     *)
(* open (order_manager.py, strategy_manager.py).  Meanwhile runners place,    *)
(* monitors exit, and prices move.                                         *)
(*                                                                         *)
(* A leg is an order at one broker.  What exit_order does to it is told by    *)
(* ExitOrder; here it is asked to end, or not.                              *)
(***************************************************************************)
EXTENDS Integers

CONSTANTS Orders,
          ParentOf,    \* orders.parent_order_id
          NoParent,
          StrategyOf,  \* the strategy of each order
          Brokers,     \* those of broker_credentials, enabled for trading
          Results,     \* what a broker may have made; the limits are 1 either way
          MaxCalls     \* bound: calls of exit-all through the API

ExitAllConstants ==
  /\ NoParent \notin Orders /\ ParentOf \in [Orders -> Orders \union {NoParent}]
  /\ DOMAIN StrategyOf = Orders
  /\ Results \subseteq Int /\ 0 \in Results
  /\ MaxCalls \in Nat

VARIABLES status,   \* of the rows in orders
          leg,      \* of each order, at each broker
          pnl,      \* of each broker, from its positions
          exits,    \* exit_all_orders as called by the poll loop, and by the API
          called    \* how often the API has called it

exitAllVars == <<status, leg, pnl, exits, called>>

\* A leg that is sent has no row in broker_executions yet.
Legs     == {"none", "sent", "live", "asked"}
Statuses == {"none", "AWAITING_ENTRY", "OPEN", "EXIT_PENDING", "CLOSED"}

\* max_loss and max_profit of a broker.
Limit      == 1
Strategies == {StrategyOf[o] : o \in Orders}
Callers    == {"poll", "api"}

\* Orders to be exited; at which brokers; the legs that were there; the orders whose exit
\* raised, and the legs that the exit of their order did not get to end.
NoCall == [pc |-> "idle", todo |-> {}, at |-> {}, found |-> {}, raised |-> {}, missed |-> {}]

--------------------------------------------------------------------------------
(***************************************************************************)
(* exit_all_orders.                                                        *)
(***************************************************************************)
OpenOf(strategies) ==
  {o \in Orders : status[o] \in {"AWAITING_ENTRY", "OPEN"} /\ StrategyOf[o] \in strategies}

Called(c, strategies, at) ==
  exits' = [exits EXCEPT ![c] =
    LET open == OpenOf(strategies) IN
    [pc |-> "exiting", todo |-> open, at |-> at, raised |-> {}, missed |-> {},
     found |-> {l \in open \X at : leg[l[1]][l[2]] = "live"}]]

Children(o) == {h \in Orders : ParentOf[h] = o /\ status[h] # "none"}
HasExecutions(o) == \E b \in Brokers : leg[o][b] \in {"live", "asked"}

\* The legs exit_order goes about, those of the children first and at all of their
\* brokers.  An order without a row in broker_executions is left alone.
Tried(o, at) ==
  {l \in Orders \X Brokers :
     /\ HasExecutions(o) /\ leg[l[1]][l[2]] = "live"
     /\ l[1] \in Children(o) \/ (l[1] = o /\ l[2] \in at)}

\* Some are missed: the exit of a child failed, the broker has no object, or it raised,
\* which is logged and no more.  So is the failure to write the status of a child.
Asked(legs) ==
  leg' = [p \in Orders |-> [b \in Brokers |-> IF <<p, b>> \in legs THEN "asked" ELSE leg[p][b]]]

StatusWritten(o, children, s) ==
  status' = [p \in Orders |-> IF p \in children THEN "CLOSED" ELSE IF p = o THEN s ELSE status[p]]

OrderExited(o, at, missed, s) ==
  /\ Asked(Tried(o, at) \ missed)
  /\ \E children \in SUBSET Children(o) :
       /\ HasExecutions(o) \/ children = {}
       /\ StatusWritten(o, children, s)

Exit(c, o) ==
  /\ o \in exits[c].todo
  /\ \E missed \in SUBSET Tried(o, exits[c].at) :
       /\ OrderExited(o, exits[c].at, missed, status[o])
       /\ exits' = [exits EXCEPT ![c].todo = @ \ {o}, ![c].missed = @ \union {l \in missed : l[1] = o}]
  /\ UNCHANGED <<pnl, called>>

\* A mutant: the exception ends the loop.
ExitRaisesOut(c, o) ==
  /\ o \in exits[c].todo
  /\ exits' = [exits EXCEPT ![c].todo = {}, ![c].raised = @ \union {o}]
  /\ UNCHANGED <<status, leg, pnl, called>>

\* The exit of one order raises, before or after it has done something, and the
\* next order is taken.
ExitRaises(c, o) ==
  /\ o \in exits[c].todo
  /\ \E missed \in SUBSET Tried(o, exits[c].at) : OrderExited(o, exits[c].at, missed, status[o])
  /\ exits' = [exits EXCEPT ![c].todo = @ \ {o}, ![c].raised = @ \union {o}]
  /\ UNCHANGED <<pnl, called>>

Done(c) == exits[c].pc = "exiting" /\ exits[c].todo = {}

Finish(c) ==
  /\ Done(c)
  /\ exits' = [exits EXCEPT ![c] = NoCall]
  /\ UNCHANGED <<status, leg, pnl, called>>

\* POST /orders/exit-all, for one strategy or for all.
ApiExitAll ==
  /\ exits["api"].pc = "idle" /\ called < MaxCalls
  /\ \E strategies \in {Strategies} \union {{s} : s \in Strategies} : Called("api", strategies, Brokers)
  /\ called' = called + 1
  /\ UNCHANGED <<status, leg, pnl>>

--------------------------------------------------------------------------------
(***************************************************************************)
(* The RiskManager.                                                        *)
(***************************************************************************)

\* The BrokerManager it makes for itself; nobody calls its setup.
ObjectsOfRiskManager == {}

\* A broker without an object has made neither loss nor profit.
BrokerPnl(b) == IF b \in ObjectsOfRiskManager THEN pnl[b] ELSE 0

Breached(b) == BrokerPnl(b) < -Limit \/ BrokerPnl(b) > Limit

EmergencyStop(b) == Called("poll", Strategies, {b})

\* The poll loop waits for the emergency stop of the broker, and then goes on.
CheckRisk ==
  /\ exits["poll"].pc = "idle"
  /\ \/ \E b \in Brokers : Breached(b) /\ EmergencyStop(b)
     \/ (\A b \in Brokers : ~Breached(b)) /\ exits' = exits
  /\ UNCHANGED <<status, leg, pnl, called>>

--------------------------------------------------------------------------------
(***************************************************************************)
(* What goes on meanwhile.                                                 *)
(***************************************************************************)

\* place_order: the row, the orders at the brokers, and their rows.
PlaceLegs(o) ==
  /\ status[o] = "none"
  /\ ParentOf[o] # NoParent => status[ParentOf[o]] # "none"
  /\ status' = [status EXCEPT ![o] = "AWAITING_ENTRY"]
  /\ leg' = [leg EXCEPT ![o] = [b \in Brokers |-> "sent"]]
  /\ UNCHANGED <<pnl, exits, called>>

RecordLegs(o) ==
  /\ \E b \in Brokers : leg[o][b] = "sent"
  /\ leg' = [leg EXCEPT ![o] = [b \in Brokers |-> IF @[b] = "sent" THEN "live" ELSE @[b]]]
  /\ UNCHANGED <<status, pnl, exits, called>>

MonitorFills(o) ==
  /\ status[o] = "AWAITING_ENTRY" /\ HasExecutions(o)
  /\ status' = [status EXCEPT ![o] = "OPEN"]
  /\ UNCHANGED <<leg, pnl, exits, called>>

MonitorExits(o) ==
  /\ status[o] = "OPEN"
  /\ \E missed \in SUBSET Tried(o, Brokers) : OrderExited(o, Brokers, missed, "EXIT_PENDING")
  /\ UNCHANGED <<pnl, exits, called>>

PricesMove(b) ==
  /\ \E r \in Results \ {pnl[b]} : pnl' = [pnl EXCEPT ![b] = r]
  /\ UNCHANGED <<status, leg, exits, called>>

--------------------------------------------------------------------------------
ExitAllInit ==
  /\ status = [o \in Orders |-> "none"]
  /\ leg = [o \in Orders |-> [b \in Brokers |-> "none"]]
  /\ pnl = [b \in Brokers |-> 0]
  /\ exits = [c \in Callers |-> NoCall] /\ called = 0

ExitAllNext ==
  \/ \E c \in Callers : Finish(c) \/ \E o \in Orders : Exit(c, o) \/ ExitRaises(c, o)
  \/ ApiExitAll \/ CheckRisk
  \/ \E o \in Orders : PlaceLegs(o) \/ RecordLegs(o) \/ MonitorFills(o) \/ MonitorExits(o)
  \/ \E b \in Brokers : PricesMove(b)

\* The poll loop goes on.
ExitAllSpec ==
  /\ ExitAllInit /\ [][ExitAllNext]_exitAllVars
  /\ WF_exitAllVars(CheckRisk)
  /\ WF_exitAllVars(Finish("poll"))
  /\ \A o \in Orders : WF_exitAllVars(Exit("poll", o))

--------------------------------------------------------------------------------
\* Whatever was in the market when the orders were read has been asked to end when
\* the call is over, though the exit of its parent did not get to it, but for the legs
\* that the exit of their own order failed to end; whoever else places, fills or exits
\* them meanwhile (order_manager.py:859).
AllAsked ==
  \A c \in Callers : Done(c) =>
    \A l \in exits[c].found :
      l[1] \in exits[c].raised \/ l \in exits[c].missed \/ leg[l[1]][l[2]] # "live"

\* "Monitors P&L and triggers emergency stops when limits are breached."
\* (strategy_manager.py:98): a broker whose loss remains beyond its limit does not
\* keep its orders.
LossStops ==
  \A b \in Brokers :
    []<>(pnl[b] >= -Limit \/ \A o \in Orders : leg[o][b] # "live")

================================================================================
