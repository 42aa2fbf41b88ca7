---------------------------- MODULE MCRequestGate -----------------------------
(* Two writes with one fingerprint, sent three times by one client.        *)
EXTENDS RequestGate, TLC

CONSTANTS i1, i2, e1, k1, k2, s1, s2, r1, r2, r3

MCIntents == {i1, i2}
MCSymmetry == Permutations(MCIntents)
MCSlots == {e1}
MCSlotOf == [i \in MCIntents |-> e1]
MCKeys == {k1, k2}
MCSessions == {s1, s2}
MCRequests == {r1, r2, r3}
==============================================================================
