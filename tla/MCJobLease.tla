------------------------------ MODULE MCJobLease -----------------------------
(* Two workers, a simulated and a channel operation.                       *)
EXTENDS JobLease

CONSTANTS w1, w2, sim, chan

MCWorkers == {w1, w2}
MCOps == {sim, chan}
MCChannelOps == {chan}
==============================================================================
