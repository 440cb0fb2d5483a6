SPECIFICATION MCSpec
CONSTANTS
  MaxOrders = 4
  MaxTrades = 2
  MaxCuts = 1
  Modes <- SwingModes
  NoOrder = NoOrder
  Prices <- SomePrices
  Settings <- TradeSettings
  Candles <- EntryCandle
  NoPosition = NoPosition
  Configs <- ThreeConfigs
  KeyOf <- SharedKey
  CompleteAt <- LateCandle
  LastTick = 3
  LastDay = 2
  MaxCrashes = 1
  NoStrikes = NoStrikes
  CalledBrokers <- BothBrokers
  Calls <- ThreeCalls
  Kind <- KindOfCall
  Target <- TargetOf
  Managers <- TwoManagers
  ManagerOf <- MadeBy
  Burst = 1
  LastTime = 1
  MaxAttempts = 2
  Resubmits = {"angel"}
  TradingBrokers <- BothBrokers
  MaxSlices = 2
  MaxTroubles = 1
  main = main  hedge = hedge  other = other
  Orders <- ThreeOrders
  ParentOf <- Hedged
  NoParent = NoParent
  StrategyOf <- Owners
  Brokers = {"zerodha"}
  Results <- LossOrNothing
  MaxCalls = 1
INVARIANTS
  NothingUnwatched SoldAreHedged HedgesEnd OneEntry OneReEntry ExitsAreDue
  StrikesOfToday BrokersPaced OrdersPlacedOnce PlacedIsAccounted AllAsked
PROPERTIES OptionStopTightens
\* The rows of a day are used up, days and calls end, and a trade is over.
CHECK_DEADLOCK FALSE
