--------------------------- MODULE MonitorScenarios ---------------------------
(***************************************************************************)
(* Small instances of OrderMonitor with an order at Fyers and its hedge.    *)
(* `scenario` says which of them a behaviour is of, and never changes:      *)
(*   pair    both orders are placed, with the constants of the .cfg;       *)
(*   alone   the hedge was rejected before the behaviour begins and nobody *)
(*           asks for its exit, with the constants of the .cfg;            *)
(*   faults  the same, a delivery order with signals, exits through the    *)
(*           API, a broker that fails and a database that fails;           *)
(*   price   the same, a delivery order exited by price, loss or the API,  *)
(*           with restarts and a broker that does as it is asked.          *)
(***************************************************************************)
EXTENDS OrderMonitor

CONSTANTS main, hedge,
          Scenarios    \* the scenarios of a run

VARIABLE scenario

Faults == INSTANCE OrderMonitor WITH
  Delivery <- TRUE, Prices <- {"both"}, Verdicts <- {"EXIT_REVERSAL"}, Manual <- TRUE,
  BrokerFails <- TRUE, DbFails <- TRUE, Restarts <- FALSE

Priced == INSTANCE OrderMonitor_proofs WITH
  Delivery <- TRUE, Prices <- {"none", "quiet", "both"}, Verdicts <- {}, Manual <- TRUE,
  BrokerFails <- FALSE, DbFails <- FALSE, Restarts <- TRUE

vars == <<scenario, monitorVars>>

MCInit ==
  /\ scenario \in Scenarios
  /\ \/ scenario = "pair"   /\ Placed({})
     \/ scenario = "alone"  /\ Placed({hedge})
     \/ scenario = "faults" /\ Faults!Placed({hedge})
     \/ scenario = "price"  /\ Priced!Placed({hedge})

MCNext ==
  /\ UNCHANGED scenario
  /\ \/ scenario = "pair"   /\ Next
     \/ scenario = "alone"  /\ Next
     \/ scenario = "faults" /\ Faults!Next
     \/ scenario = "price"  /\ Priced!Next
  /\ scenario # "pair" => hedge \notin asked'

MCSpec == MCInit /\ [][MCNext]_vars

--------------------------------------------------------------------------------
\* A monitor of the pair only stops when its order is finished
\* (OrderMonitor!NoneAbandoned; order_monitor.py:1822).
PairNotAbandoned == scenario = "pair" => NoneAbandoned

\* When no broker fails, a completed exit has closed the position
\* (OrderMonitor!ExitedHoldsNothing; order_manager.py:1763).
PricedHoldsNothing == scenario = "price" => Priced!ExitedHoldsNothing

================================================================================
