SPECIFICATION TradeSpec
CONSTANTS
    Checkers <- MCCheckers
    c1 = c1
    MaxRetries = 1
    MaxCrashes = 0
INVARIANT HandoffEndsWithOrder
CHECK_DEADLOCK FALSE
