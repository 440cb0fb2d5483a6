---------------------------- MODULE ExitScenarios -----------------------------
(***************************************************************************)
(* Instances of ExitOrder that are checked side by side.  They share its    *)
(* variables; `scenario` says which of them a behaviour is of, and never    *)
(* changes:                                                                *)
(*   pair     with the constants of this module: one call, on orders and    *)
(*            hedges that are traded meanwhile, and no restart; main is not *)
(*            exited by hand;                                               *)
(*   twice    with these constants as well: calls by hand, one after the    *)
(*            other, of which the first may fail or be cut off by a restart *)
(*            at any step; no stop orders, and the exchange touches m1 only; *)
(*   race     a SELL order with one leg at Angel, where partial fills are   *)
(*            visible, two callers, and an exchange that may execute a      *)
(*            market order late;                                            *)
(*   partial  one order at Angel, one call.                                *)
(***************************************************************************)
EXTENDS ExitOrder

CONSTANTS main, m1, b1, caller, other,
          Scenarios    \* the scenarios of a run

VARIABLE scenario

Race == INSTANCE ExitOrder_proofs WITH
  Callers <- {caller, other}, Orders <- {main}, Legs <- {m1}, Books <- {b1},
  OrderOf <- [l \in {m1} |-> main], KindOf <- [l \in {m1} |-> "angel"],
  BookOf <- [l \in {m1} |-> b1], ParentOf <- [o \in {main} |-> NoOrder], BuyOrders <- {},
  Prompt <- FALSE, Crashes <- FALSE, MaxCalls <- 2

Partial == INSTANCE ExitOrder WITH
  Callers <- {caller}, Orders <- {main}, Legs <- {m1}, Books <- {b1},
  OrderOf <- [l \in {m1} |-> main], KindOf <- [l \in {m1} |-> "angel"],
  BookOf <- [l \in {m1} |-> b1], ParentOf <- [o \in {main} |-> NoOrder], BuyOrders <- {main},
  Prompt <- TRUE, Crashes <- FALSE, MaxCalls <- 1

vars == <<scenario, exitVars>>

\* The scenarios in which calls come one after the other.
InTurn == scenario \in {"pair", "twice"}

MCInit ==
  /\ scenario \in Scenarios
  /\ \/ scenario = "pair"    /\ Init
     \/ scenario = "twice"   /\ Init /\ \A l \in Legs : truth[l] = "RESTING"
     \/ scenario = "race"    /\ Race!Init
     \/ scenario = "partial" /\ Partial!Init

\* Only the status of the order depends on whether its exit is by hand.
NotManual == \A f \in DOMAIN opt : f[2] = main => ~opt'[f].manual
ByHand    == \A f \in DOMAIN opt : opt'[f].manual \/ pc'[f] \in {"idle", "raised"}
OneCall      == calls' <= 1 /\ ~Crash /\ NotManual
OnlyM1Trades == pc' = pc => \A l \in Legs \ {m1} : truth'[l] = truth[l]

SecondGoesWell == calls = 2 => UNCHANGED failVars /\ ~Crash

MCNext ==
  /\ UNCHANGED scenario
  /\ \/ scenario = "pair"    /\ Next /\ OneCall
     \/ scenario = "twice"   /\ Next /\ ByHand /\ OnlyM1Trades /\ SecondGoesWell
     \/ scenario = "race"    /\ Race!Next /\ NotManual
     \/ scenario = "partial" /\ Partial!Next

MCSpec == MCInit /\ [][MCNext]_vars

--------------------------------------------------------------------------------
(***************************************************************************)
(* Each property is checked where its hypotheses hold; ExitOrder states it. *)
(***************************************************************************)
\* The hedges go first: when a call works on a leg of an order, each hedge of the
\* order has been through its own exit, or this call has seen that exit fail and said
\* so in the log (ExitOrder!HedgesFirst; order_manager.py:1735, 1525).
PairHedgesFirst == InTurn => HedgesFirst

\* Calls that come one after the other, with restarts between any two steps, write no
\* second EXIT row (order_manager.py:718) and make no trade beyond zero
\* (zerodha.py:614).
PairExitsOnce == InTurn => OneExitRow /\ ExitNeverReverses

\* The market order of an exit never makes a position larger
\* (ExitOrder!ExitNeverAdds; zerodha.py:626, "opposite of original").
PairNeverAdds == [][InTurn => NothingAdded]_vars

\* Every step of the calls and of their environment is a step of the contract
\* of ExitContract (order_manager.py:1770).
PairContract ==
  /\ InTurn => Contract!Init
  /\ [][InTurn => [Contract!Next]_<<book, asked>>]_vars

\* Every exit order sent to a broker leaves an EXIT row, now or when its call commits,
\* unless a statement has failed since or the process was restarted: calls in turn,
\* or two at once (ExitOrder!SentIsRecorded; order_manager.py:1828, 1933, 1944).
ExitsLeaveTraces ==
  /\ InTurn => SentIsRecorded
  /\ scenario = "race" => Race!SentIsRecorded

\* No position grows at Angel, where an exit may find the order partly filled
\* (angel.py:1124).
PartialNeverAdds == [][scenario = "partial" => Partial!NothingAdded]_vars

================================================================================
