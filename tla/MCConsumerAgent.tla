-------------------------- MODULE MCConsumerAgent --------------------------
EXTENDS ConsumerAgent, TLC

CONSTANTS o1, o2

Symmetry == Permutations(Runs)
=============================================================================
