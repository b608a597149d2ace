----------------------- MODULE MCComplaintSubmission -----------------------
EXTENDS ComplaintSubmission, TLC

Symmetry == Permutations(Requests)

=============================================================================
