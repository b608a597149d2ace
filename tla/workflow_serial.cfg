SPECIFICATION Spec
CONSTANTS
  Requests = {r1, r2, r3, r4}
  Complaints = {c1}
  Targets = {"under_review", "resolved"}
  None = None
  Serialized = TRUE
SYMMETRY Symmetry
PROPERTY ImplementsCaseFile
