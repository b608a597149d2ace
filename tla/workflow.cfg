SPECIFICATION Spec
CONSTANTS
  Requests = {r1, r2, r3}
  Complaints = {c1}
  Targets = {"submitted", "under_review", "closed"}
  None = None
  Serialized = FALSE
SYMMETRY Symmetry
INVARIANTS TypeOK HistoryAudited HistoryConnected RollbackLeavesNoTrace
PROPERTIES StatusChangeRecorded ImplementsCaseRecord
