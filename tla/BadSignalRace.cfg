SPECIFICATION MCSpec
CONSTANTS
  main = main  hedge = hedge  NoOrder = NoOrder
  Scenarios = {"alone"}
  Orders <- OrderAndHedge
  ParentOf <- HedgeOfMain
  Kind = "fyers"
  Delivery = TRUE
  Prices = {"quiet"}
  Verdicts = {"EXIT_REVERSAL"}
  Manual = FALSE
  BrokerFails = FALSE
  DbFails = FALSE
  Restarts = FALSE
INVARIANT NeverStuck
CHECK_DEADLOCK FALSE
