----------------------------- MODULE MCBudgetPlan -----------------------------
(* One month with three items, one of them bought, and an adjustment.      *)
EXTENDS BudgetPlan

CONSTANTS i1, i2, i3, a1, a2

MCItems == {i1, i2, i3}
MCAdjustments == {a1}
MCTwoAdjustments == {a1, a2}
==============================================================================
