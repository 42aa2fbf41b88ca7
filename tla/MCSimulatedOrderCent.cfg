SPECIFICATION Spec
CONSTANTS
    p1 = p1
    p2 = p2
    Previews <- MCPreviews
    Amount = 3
    Fee = 2
    MaxRuleVersion = 1
INVARIANT PreviewedRefundFits
