SPECIFICATION Spec
CONSTANTS
  Senders = {bot, other}
  KnownBots = {bot}
  MaxMempoolSize = 2
  MaxSwaps = 4
  Amounts = {20, 600, 10000}
  Confidences = {350, 600, 900}
  Liquidities = {0, 700, 12000}
  SlippagePublic = 50
  SlippageBundle = 5
  MinChunk = 500
INVARIANTS TypeOK MempoolIsRecent GuardFollowsThreat GasBudgetIsSound ChunksAreWorthIt
