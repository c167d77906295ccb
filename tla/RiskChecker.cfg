SPECIFICATION Spec
CONSTANTS
  Amounts = {1, 2}
  Slippages = {2, 5}
  Losses = {0, 1, 2}
  Scales = {50, 100, 150}
  MaxTrade = 2
  MaxPosition = 4
  DailyLossLimit = 2
  MaxDay = 2
INVARIANTS TypeOK PositionWithinLimit LossLimitHalts
PROPERTIES BreakerHoldsUntilMidnight ResetFollowsMidnight
\* The loop stops trading at the position limit and the last day is bounded.
CHECK_DEADLOCK FALSE
