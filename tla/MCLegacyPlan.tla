----------------------------- MODULE MCLegacyPlan -----------------------------
EXTENDS LegacyPlan

MCPrice == [i \in Items |-> IF i = 1 THEN 6 ELSE 3]
Answers(pay, close, refund) == [pay |-> pay, close |-> close, refund |-> refund]
MCModes == [i \in Items |->
    IF i = 1 THEN {Answers("SUCCESS", "SUCCESS", "SUCCESS"),
                   Answers("SUCCESS", "PENDING", "UNKNOWN"),
                   Answers("UNKNOWN", "SUCCESS", "SUCCESS")}
    ELSE {Answers("UNKNOWN", "SUCCESS", "SUCCESS")}]
MCFirstRule == [i \in Items |-> IF i = 1 THEN "two_batches" ELSE "full_refund"]
MCPauses == {{1}, {1, 2}}
MCRechecked == {<<"change", <<2, 1>>>>}
==============================================================================
