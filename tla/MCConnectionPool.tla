-------------------------- MODULE MCConnectionPool --------------------------
EXTENDS ConnectionPool, TLC

Symmetry == Permutations(Requests) \cup Permutations(Clients)

=============================================================================
