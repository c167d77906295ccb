SPECIFICATION Spec
CONSTANTS
  MaxTrades = 2
  Routes = {"Public", "Flashbots", "Split"}
  FeeCaps = {1, 9}
  MAX_RETRIES = 4
  MaxChunks = 3
INVARIANT NoNonceCollision
CHECK_DEADLOCK FALSE
