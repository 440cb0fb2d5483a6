----------------------------- MODULE MCExitOrder ------------------------------
(***************************************************************************)
(* The scenarios of ExitScenarios with a SELL order at Zerodha and its BUY  *)
(* hedge at Fyers.                                                         *)
(***************************************************************************)
EXTENDS ExitScenarios, TLC

CONSTANTS hedge, h1, b2

PairOrders == m1 :> main @@ h1 :> hedge
PairKinds  == m1 :> "zerodha" @@ h1 :> "fyers"
PairBooks  == m1 :> b1 @@ h1 :> b2
PairParent == main :> NoOrder @@ hedge :> main

ASSUME /\ ExitOrderConstants /\ Prompt
       /\ OneAtATime /\ OwnBooks /\ HedgesHaveNone /\ NoneAtAngel
       /\ Race!ExitOrderConstants /\ Partial!ExitOrderConstants

================================================================================
