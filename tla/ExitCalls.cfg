SPECIFICATION MCSpec
CONSTANTS
  main = main  hedge = hedge  NoOrder = NoOrder
  m1 = m1  h1 = h1  b1 = b1  b2 = b2  caller = caller  other = other
  Scenarios = {"pair", "twice", "race"}
  Callers = {caller}
  Orders = {main, hedge}
  Legs = {m1, h1}
  Books = {b1, b2}
  OrderOf <- PairOrders
  KindOf <- PairKinds
  BookOf <- PairBooks
  ParentOf <- PairParent
  BuyOrders = {hedge}
  Prompt = TRUE
  Crashes = TRUE
  MaxCalls = 2
INVARIANTS PairHedgesFirst PairExitsOnce ExitsLeaveTraces EntryTruthful
PROPERTIES PairNeverAdds PairContract
CHECK_DEADLOCK FALSE
