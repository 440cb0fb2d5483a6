SPECIFICATION MCSpec
CONSTANTS
  main = main  hedge = hedge  NoOrder = NoOrder
  Scenarios = {"alone"}
  Orders <- OrderAndHedge
  ParentOf <- HedgeOfMain
  Kind = "fyers"
  Delivery = FALSE
  Prices = {"quiet"}
  Verdicts = {}
  Manual = TRUE
  BrokerFails = FALSE
  DbFails = FALSE
  Restarts = FALSE
PROPERTY ExitPreserved
CHECK_DEADLOCK FALSE
