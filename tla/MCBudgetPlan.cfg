SPECIFICATION Spec
CONSTANTS
    Items <- MCItems
    Bought = i2
    Adjustments <- MCAdjustments
    Amounts = {1, 2}
    Expenses = {1}
    CashLevels = {3, 4}
    Targets = {1, 2}
    Price = 4
    Fee = 2
    Rules = {"two_batches", "delay"}
    MaxAccount = 2
    MaxPeriod = 3
    i1 = i1
    i2 = i2
    i3 = i3
    a1 = a1
    a2 = a2
    None = None
INVARIANTS
    PlanSound
PROPERTIES
    EditedAsShown
    AdjustmentFits
    FrozenPlanStays
    AdjustmentEnds
CHECK_DEADLOCK FALSE
