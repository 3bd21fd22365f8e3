------------------------------ MODULE MCOutbox ------------------------------
EXTENDS Outbox, TLC
Symmetry == Permutations(Relays) \cup Permutations(Aggregates)
=============================================================================
