-------------------------- MODULE MCPayoutWorkflow --------------------------
EXTENDS PayoutWorkflow, TLC
Symmetry == Permutations(Payments)
=============================================================================
