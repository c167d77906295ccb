SPECIFICATION Spec
CONSTANTS
  Signals = {rsi, ema, orderbook, flow}
  RequiredVotes = 3
  MinConfidence = 350
  Confidences = {300, 600}
  Macros <- TwoMacros
  Volatilities = {5000, 10000, 30000}
  Capacity = 4
  Warmup = 3
INVARIANTS TypeOK TradesAreBacked NeitherSideFavoured
PROPERTIES RegimeGateReopens
