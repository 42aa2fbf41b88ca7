SPECIFICATION FairSpec
CONSTANTS
    p1 = p1
    p2 = p2
    Previews <- MCPreviews
    Amount = 5
    Fee = 2
    MaxRuleVersion = 2
INVARIANTS
    BudgetFollowsOrder
    RefundsAgree
    RequestsAccountedFor
    ArchivedWithoutPromise
PROPERTIES
    OrderSettles
    ImplementsMoney
