SPECIFICATION ExitAllSpec
CONSTANTS
  main = main  hedge = hedge  other = other  NoParent = NoParent
  Orders <- ThreeOrders
  ParentOf <- Hedged
  StrategyOf <- Owners
  Brokers = {"fyers"}
  Results <- LossOrProfit
  MaxCalls = 1
PROPERTY LossStops
CHECK_DEADLOCK FALSE
