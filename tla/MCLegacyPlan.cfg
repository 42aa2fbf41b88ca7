SPECIFICATION Spec
CONSTANTS
    Items = {1, 2}
    Price <- MCPrice
    Fee = 2
    FirstRule <- MCFirstRule
    Rules = {"delay"}
    Modes <- MCModes
    Limits = {3, 9}
    FirstLimit = 9
    Changed = {1}
    Pauses <- MCPauses
    Rechecked <- MCRechecked
    MaxProposals = 3
    MaxVersion = 3
    MaxRuleVersion = 2
INVARIANTS
    LegacySound
    ShownMoneyAgrees
    RefundsAddUp
CHECK_DEADLOCK FALSE
