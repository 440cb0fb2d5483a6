--------------------------- MODULE MCStrategyManager ---------------------------
\* Two symbols; one of them trades one strike, and may have an order for it from before.
EXTENDS StrategyManager

CONSTANTS nifty, sensex, o1, o2

TwoSymbols == {nifty, sensex}
TwoOrders  == {o1, o2}
OneOld     == {o1}
AllNifty   == [o \in {o1, o2} |-> nifty]
OneStrike  == [o \in {o1, o2} |-> "call"]
InOrOut    == {{}, {nifty, sensex}}
SmartNifty == {nifty}

================================================================================
