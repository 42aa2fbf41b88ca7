------------------------------ MODULE MCCashflow ------------------------------
(* Two entries, two items, a bill with an instalment in it.                *)
EXTENDS Cashflow, TLC

CONSTANTS e1, e2, i1, i2, bill, part

MCEntries == {e1, e2}
MCItems == {i1, i2}
MCDues == {bill, part}
Owe(n, d, o) == [outstanding |-> n, on |-> d, in |-> o]

\* The bill is due on the second day and contains the instalment ...
Included == [o \in MCDues |-> Owe(1, 2, IF o = bill THEN None ELSE bill)]
\* ... or, wrongly, each contains the other.
Cycle == [o \in MCDues |-> Owe(1, 2, IF o = bill THEN part ELSE bill)]
MCStarts == {[dues |-> Included, nextMonth |-> known] : known \in BOOLEAN}
                \cup {[dues |-> Cycle, nextMonth |-> TRUE]}
MCSymmetry == Permutations(MCEntries) \cup Permutations(MCItems)
==============================================================================
