------------------------ MODULE MCComplaintWorkflow ------------------------
EXTENDS ComplaintCaseFile, TLC

Symmetry == Permutations(Requests) \cup Permutations(Complaints)

=============================================================================
