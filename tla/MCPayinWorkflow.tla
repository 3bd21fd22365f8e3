-------------------------- MODULE MCPayinWorkflow --------------------------
EXTENDS PayinWorkflow, TLC
Symmetry == Permutations(Payins)
=============================================================================
