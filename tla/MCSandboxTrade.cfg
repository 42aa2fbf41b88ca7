SPECIFICATION TradeFairSpec
CONSTANTS
    Checkers <- MCCheckers
    c1 = c1
    MaxRetries = 1
    MaxCrashes = 1
INVARIANTS
    OrderFollowsChannel
PROPERTIES
    DecidedIsFinal
    CloseSettles
    PaymentLearned
CHECK_DEADLOCK FALSE
