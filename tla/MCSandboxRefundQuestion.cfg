SPECIFICATION RefundSpec
CONSTANTS
    e1 = e1
    e2 = e2
    Enquiries <- TwoEnquiries
    First = 1
    Second = 2
    Amount = 4
    MaxRefundRetries = 1
    MaxRefundCrashes = 0
INVARIANT BookedRefundAsksNobody
CHECK_DEADLOCK FALSE
