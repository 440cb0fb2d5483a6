------------------------------ MODULE MCExitAll --------------------------------
(***************************************************************************)
(* A small instance of ExitAll: an order with a hedge, and one of another     *)
(* strategy.                                                               *)
(***************************************************************************)
EXTENDS ExitAll, TLC

CONSTANTS main, hedge, other

ThreeOrders == {main, hedge, other}
Hedged      == main :> NoParent @@ hedge :> main @@ other :> NoParent
Owners      == main :> "sell" @@ hedge :> "sell" @@ other :> "buy"
LossOrProfit == {-2, 0, 2}

================================================================================
