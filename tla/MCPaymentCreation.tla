------------------------- MODULE MCPaymentCreation -------------------------
EXTENDS PaymentCreation, TLC
Symmetry == Permutations(Keys) \cup Permutations(Tenants)
=============================================================================
