SPECIFICATION FairSpec
CONSTANTS
  nifty = nifty  sensex = sensex  o1 = o1  o2 = o2
  Symbols <- TwoSymbols
  Orders <- TwoOrders
  SymbolOf <- AllNifty
  OldOrders <- OneOld
  StrikeOf <- OneStrike
  Edited <- SmartNifty
  Windows <- InOrOut
  Smart <- SmartNifty
  MaxVersion = 2
  MaxTroubles = 1
INVARIANTS OneOpenOrder RunsSeenConfig RunnersKnown
PROPERTIES ActiveRuns IterationSettles QueuedIsMonitored
