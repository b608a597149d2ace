SPECIFICATION Spec
CONSTANTS
  Requests = {r1, r2, r3}
  Keys = {k1}
  None = None
  MaxFiles = 2
SYMMETRY Symmetry
INVARIANT SafeRetry
