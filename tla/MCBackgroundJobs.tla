-------------------------- MODULE MCBackgroundJobs --------------------------
EXTENDS BackgroundJobs, TLC

Symmetry == Permutations(Jobs)

=============================================================================
