SPECIFICATION StrategySpec
CONSTANTS
  RsiPeriod = 2
  FastPeriod = 2
  SlowPeriod = 3
  AtrPeriod = 2
  WhaleThreshold = 50000
  Closes = {1000, 1150, 1300}
  PoolPrices = {1000, 1150}
  Swaps <- ThreeSwaps
  MaxLen = 4
  Volatilities = {0, 57692, 65217, 75000, 115384, 130434, 150000, 173076, 195652, 225000, 230769, 300000}
  Signals <- Names
  Confidences <- Thousandths
  Macros <- OnlyNoMacro
  RequiredVotes = 3
  MinConfidence = 350
  Capacity = 2
  Warmup = 2
  MaxCloses = 5
  MaxSwaps = 2
INVARIANTS StrategyTypeOK PricesReadBothWays WhalesPullTheirWay
PROPERTIES KeepsConsensus
