SPECIFICATION MCSpec
CONSTANTS
  main = main  hedge = hedge  NoOrder = NoOrder
  Scenarios = {"pair", "faults", "price"}
  Orders <- OrderAndHedge
  ParentOf <- HedgeOfMain
  Kind = "fyers"
  Delivery = FALSE
  Prices = {"none", "quiet", "hit"}
  Verdicts = {}
  Manual = FALSE
  BrokerFails = FALSE
  DbFails = FALSE
  Restarts = TRUE
INVARIANTS PendingAfterExit HedgeIgnoresClock PairNotAbandoned PricedHoldsNothing
CHECK_DEADLOCK FALSE
