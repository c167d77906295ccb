SPECIFICATION Spec
CONSTANTS
  Amounts = {1, 2}
  Slippages = {2, 5}
  MaxTrade = 2
  MaxPosition = 3
  DailyLossLimit = 2
  MaxDay = 1
  MinTrade = 2
  Answers = {"filled", "accepted", "failed"}
  TradeLosses = {0}
  MaxTrades = 2
  MaxIterations = 2
  MaxStarts = 1
INVARIANT ExposureWithinLimit
CHECK_DEADLOCK FALSE
