------------------------- MODULE MCPurchaseAdmission -------------------------
(* Two planned items of this month and one that may be planned in the last *)
(* month still; two assessments, two intents.                              *)
EXTENDS PurchaseAdmission, TLC

CONSTANTS last, this, dinner, ticket, rest, a1, a2, k1, k2

MCPeriods == {last, this}
MCItems == {dinner, ticket, rest}
MCPeriodOf == (dinner :> this) @@ (ticket :> this) @@ (rest :> last)
MCAssessments == {a1, a2}
MCIntents == {k1, k2}
MCPrices == <<2>>
MCOpening == {(dinner :> 1) @@ (ticket :> 1) @@ (rest :> 0)}
MCSymmetry == Permutations(MCAssessments) \cup Permutations(MCIntents)
                  \cup Permutations({dinner, ticket})
==============================================================================
