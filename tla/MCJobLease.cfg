SPECIFICATION QueueFairSpec
CONSTANTS
    w1 = w1
    w2 = w2
    sim = sim
    chan = chan
    NoClaim = NoClaim
    Workers <- MCWorkers
    Ops <- MCOps
    ChannelOps <- MCChannelOps
    MaxFaults = 3
    MaxRetries = 2
INVARIANTS
    NothingTwice
    QueueConsistent
PROPERTIES
    EveryJobCompletes
    ImplementsLedger
CHECK_DEADLOCK FALSE
