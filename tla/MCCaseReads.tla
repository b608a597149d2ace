---------------------------- MODULE MCCaseReads ----------------------------
EXTENDS CaseReads, TLC

Symmetry ==
  Permutations(Requests) \cup Permutations(Complaints)
    \cup Permutations(Reviewers)

=============================================================================
