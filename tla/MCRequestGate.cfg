SPECIFICATION GateSpec
CONSTANTS
    Intents <- MCIntents
    Slots <- MCSlots
    SlotOf <- MCSlotOf
    Keys <- MCKeys
    Sessions <- MCSessions
    Requests <- MCRequests
    i1 = i1
    i2 = i2
    e1 = e1
    k1 = k1
    k2 = k2
    s1 = s1
    s2 = s2
    r1 = r1
    r2 = r2
    r3 = r3
    MaxMishaps = 1
    None = None
SYMMETRY MCSymmetry
INVARIANTS
    GateSafe
    SignedOutIsRevoked
PROPERTIES
    ImplementsOnce
CHECK_DEADLOCK FALSE
