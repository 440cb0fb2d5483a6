SPECIFICATION MCSpec
CONSTANTS
  main = main  hedge = hedge  NoOrder = NoOrder
  Readers = {"first", "second"}
  MaxVersion = 3
  Polls = 1
  MaxCrashes = 2
  Orders <- OrderAndHedge
  ParentOf <- HedgeOfMain
  Kind = "fyers"
  Delivery = FALSE
  Prices = {"none", "quiet", "both"}
  Verdicts = {}
  Manual = FALSE
  BrokerFails = TRUE
  DbFails = FALSE
  Restarts = FALSE
INVARIANTS FreshAfterWait RowsCompleted
PROPERTIES ReadersReturn SessionsSettle PendingCompletes SquaredOff
\* A process may wait for a request, and the monitors of finished orders end.
CHECK_DEADLOCK FALSE
