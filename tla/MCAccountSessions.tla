------------------------- MODULE MCAccountSessions -------------------------
EXTENDS AccountSessions, TLC

Symmetry == Permutations(Requests)

=============================================================================
