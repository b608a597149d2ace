SPECIFICATION FairSpec
CONSTANTS
  Requests = {r1, r2}
  Keys = {k1}
  None = None
  MaxFiles = 2
INVARIANTS FilesAccounted EvidenceHasFile
PROPERTY EverySubmissionEnds
