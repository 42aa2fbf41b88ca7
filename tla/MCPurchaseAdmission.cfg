SPECIFICATION Spec
CONSTANTS
    last = last
    this = this
    dinner = dinner
    rest = rest
    ticket = ticket
    a1 = a1
    a2 = a2
    k1 = k1
    k2 = k2
    Periods <- MCPeriods
    Current = this
    Items <- MCItems
    PeriodOf <- MCPeriodOf
    Assessments <- MCAssessments
    Intents <- MCIntents
    Prices <- MCPrices
    Estimates = {1, 2}
    Opening <- MCOpening
    Targets = {0, 1}
    CashLevels = {3, 4}
    MaxVersions = 4
SYMMETRY MCSymmetry
INVARIANTS
    IntentHoldsItem
    BasisIsCurrent
PROPERTIES
    ConfirmKeepsBudget
    ConfirmedAsShown
CHECK_DEADLOCK FALSE
