------------------------ MODULE MonitorScenarios_proofs ------------------------
(***************************************************************************)
(* The theorems of OrderMonitor_proofs for the scenarios that TLC checks.  *)
(***************************************************************************)
EXTENDS MonitorScenarios, OrderMonitor_proofs

\* The same of the scenario of an order and its hedge, which is one of the
\* behaviours of Spec (order_monitor.py:1822).
THEOREM PairFollowed == OrderMonitorConstants /\ Undisturbed => (MCSpec => []PairNotAbandoned)
<1> SUFFICES ASSUME OrderMonitorConstants /\ Undisturbed PROVE MCSpec => []PairNotAbandoned
  OBVIOUS
<1> DEFINE PairInv == scenario = "pair" => WatchIInv
<1>1. MCInit => PairInv
  BY WatchInit DEF MCInit, Init
<1>2. PairInv /\ [MCNext]_vars => PairInv'
  <2> SUFFICES ASSUME PairInv, [MCNext]_vars, scenario' = "pair" PROVE WatchIInv'
    OBVIOUS
  <2>1. scenario = "pair" /\ (Next \/ UNCHANGED monitorVars)
    BY DEF MCNext, vars
  <2> QED BY <2>1, WatchStep
<1>3. PairInv => PairNotAbandoned
  BY WatchGoal DEF PairNotAbandoned
<1> HIDE DEF PairInv
<1> QED BY <1>1, <1>2, <1>3, PTL DEF MCSpec

--------------------------------------------------------------------------------
(***************************************************************************)
(* The scenario "price" has constants of its own.                          *)
(***************************************************************************)
LEMMA PricedConstants ==
  OrderMonitorConstants /\ Kind = "fyers" => Priced!OrderMonitorConstants /\ Priced!Obliging
  BY DEF OrderMonitorConstants, Priced!OrderMonitorConstants, Priced!Obliging,
     Kinds, Priced!Kinds, Quotes, Priced!Quotes, Bases, Priced!Bases

LEMMA PricedVars == UNCHANGED monitorVars => UNCHANGED Priced!monitorVars
  BY DEF monitorVars, Priced!monitorVars, marketVars, Priced!marketVars, dbVars, Priced!dbVars,
     sharedVars, Priced!sharedVars, loopVars, Priced!loopVars, priceVars, Priced!priceVars,
     signalVars, Priced!signalVars

\* A completed exit has closed its position, in every behaviour of the scenario:
\* whatever the prices, the API and restarts do (order_manager.py:1763).
THEOREM PricedExitsClose ==
  OrderMonitorConstants /\ Kind = "fyers" /\ hedge \in Orders => (MCSpec => []PricedHoldsNothing)
<1> SUFFICES ASSUME OrderMonitorConstants, Kind = "fyers", hedge \in Orders
             PROVE  MCSpec => []PricedHoldsNothing
  OBVIOUS
<1> DEFINE Inv == scenario = "price" => Priced!HoldIInv
<1>1. MCInit => Inv
  <2> SUFFICES ASSUME MCInit, scenario = "price" PROVE Priced!HoldIInv
    OBVIOUS
  <2>1. Priced!Placed({hedge})
    BY DEF MCInit
  <2> QED BY <2>1, PricedConstants, Priced!HoldInit DEF Priced!Init
<1>2. Inv /\ [MCNext]_vars => Inv'
  <2> SUFFICES ASSUME Inv, [MCNext]_vars, scenario' = "price" PROVE Priced!HoldIInv'
    OBVIOUS
  <2>1. scenario = "price" /\ [Priced!Next]_(Priced!monitorVars)
    BY PricedVars DEF MCNext, vars
  <2> QED BY <2>1, PricedConstants, Priced!HoldStep
<1>3. Inv => PricedHoldsNothing
  BY Priced!HoldGoal DEF PricedHoldsNothing
<1> HIDE DEF Inv
<1> QED BY <1>1, <1>2, <1>3, PTL DEF MCSpec

================================================================================
