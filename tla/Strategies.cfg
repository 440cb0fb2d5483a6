SPECIFICATION MCSpec
CONSTANTS
  LeftBars = 1
  RightBars = 1
  MaxBars = 8
  Candles <- SomeCandles
  Histories <- SomeHistories
  MonthStarts <- Months
  FirstDays <- Months
  CalendarDays = 140
  LastDay = 1
  NoPrice = NoPrice
  NoLevel = NoLevel
  NoRef = NoRef
  Closes <- ClosesAt
  Levels <- Ranges
  Configs <- SomeConfigs
  Views <- Finds
  Strikes = {ce, pe}
  MaxOrders = 4
  MaxTrades = 2
  MaxCuts = 1
  Modes <- OptionModes
  NoOrder = NoOrder
  NoStrike = NoStrike
SYMMETRY StrikeSymmetry
INVARIANTS
  SwingTwins LeftInTime OneOpenPerStrike OptionHedging
PROPERTIES
  LevelsStand BoughtAhead
\* Each part ends: the history, the calendar or the trading days are over,
\* the rows of a day used up.
CHECK_DEADLOCK FALSE
