---------------------------- MODULE MCOrderMonitor ----------------------------
(***************************************************************************)
(* The instance of MonitorScenarios that TLC checks: an order and its hedge.*)
(***************************************************************************)
EXTENDS MonitorScenarios, TLC

OrderAndHedge == {main, hedge}
HedgeOfMain   == (main :> NoOrder) @@ (hedge :> main)

ASSUME /\ OrderMonitorConstants
       /\ Faults!OrderMonitorConstants /\ Priced!OrderMonitorConstants

================================================================================
