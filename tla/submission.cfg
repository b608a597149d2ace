SPECIFICATION Spec
CONSTANTS
  Requests = {r1, r2, r3}
  Keys = {k1}
  None = None
  MaxFiles = 1
SYMMETRY Symmetry
INVARIANTS TypeOK SameKeySameAnswer AcknowledgedComplete
