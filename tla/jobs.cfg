SPECIFICATION FairSpec
CONSTANTS
  Jobs = {j1, j2}
  Attempts = 2
  MaxStalled = 1
INVARIANTS TypeOK CompletedSent BoundedRepetition PendingExplained
PROPERTY EveryJobFinishes
