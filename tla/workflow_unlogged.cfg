SPECIFICATION Spec
CONSTANTS
  Requests = {r1, r2}
  Complaints = {c1}
  Targets = {"under_review", "closed"}
  None = None
  Serialized = FALSE
SYMMETRY Symmetry
PROPERTY EveryStatusChangeLogged
