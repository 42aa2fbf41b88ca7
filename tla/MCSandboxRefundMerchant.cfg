SPECIFICATION RefundFairSpec
CONSTANTS
    e1 = e1
    e2 = e2
    Enquiries <- OneEnquiry
    First = 1
    Second = 2
    Amount = 4
    MaxRefundRetries = 1
    MaxRefundCrashes = 0
PROPERTY ScheduledRefundIsSent
CHECK_DEADLOCK FALSE
