------------------------------ MODULE OrderMoney ------------------------------
(***************************************************************************)
(* What the handling of one order promises the person who pays: the price  *)
(* is first held in the budget, then either leaves the account once or is  *)
(* released, and only what was paid comes back.                            *)
(***************************************************************************)
EXTENDS Naturals

CONSTANT Amount

VARIABLES
    hold,     \* "held", "spent" or "released"
    returned  \* money that came back to the account

moneyVars == <<hold, returned>>

Init == hold = "held" /\ returned = 0

Spend ==
    /\ hold = "held"
    /\ hold' = "spent"
    /\ UNCHANGED returned

ReleaseHold ==
    /\ hold = "held"
    /\ hold' = "released"
    /\ UNCHANGED returned

Return ==
    /\ hold = "spent"
    /\ \E sum \in returned + 1 .. Amount : returned' = sum
    /\ UNCHANGED hold

Next == Spend \/ ReleaseHold \/ Return

Spec == Init /\ [][Next]_moneyVars
==============================================================================
