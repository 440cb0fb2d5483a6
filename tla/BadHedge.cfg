SPECIFICATION MCSpec
CONSTANTS
  main = main  hedge = hedge  NoOrder = NoOrder
  Scenarios = {"pair"}
  Orders <- OrderAndHedge
  ParentOf <- HedgeOfMain
  Kind = "fyers"
  Delivery = FALSE
  Prices = {"quiet", "loss"}
  Verdicts = {}
  Manual = FALSE
  BrokerFails = FALSE
  DbFails = FALSE
  Restarts = FALSE
INVARIANT HedgeProtected
CHECK_DEADLOCK FALSE
