SPECIFICATION Spec
CONSTANTS
    Entries <- MCEntries
    Items <- MCItems
    Dues <- MCDues
    Opening = 4
    Target = 2
    NextTarget = 1
    MonthEnd = 2
    Window = 2
    Posted = {2}
    Amounts = {2}
    Prices = {2}
    Starts <- MCStarts
    e1 = e1
    e2 = e2
    i1 = i1
    i2 = i2
    bill = bill
    part = part
    None = None
INVARIANTS
    DayByDay
    ReviewAddsUp
PROPERTIES
    CashIsBank
    ForeseenOnce
SYMMETRY
    MCSymmetry
CHECK_DEADLOCK FALSE
