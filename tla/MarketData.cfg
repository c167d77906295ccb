SPECIFICATION Spec
CONSTANTS
  Prices = {10000, 10005, 11000}
  ReplayBlocks = 1
  MaxBlocks = 3
INVARIANTS TypeOK TickSurvivesRestarts
PROPERTIES DivergenceRestartsStream CellsKeepUp
CHECK_DEADLOCK FALSE
