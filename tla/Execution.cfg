SPECIFICATION Spec
CONSTANTS
  MaxTrades = 3
  Routes = {"Public", "Flashbots", "Split"}
  FeeCaps = {1, 3}
  MAX_RETRIES = 4
  MaxChunks = 2
INVARIANTS TypeOK MinedAtMostOnce ActorNonceOwnedByOneTrade FilledIsExecuted
PROPERTIES OrderAnswered KeepsOrderLifecycle
CHECK_DEADLOCK FALSE
