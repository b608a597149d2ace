SPECIFICATION Spec
CONSTANTS
  Requests = {r1, r2, r3}
  None = None
  MaxAttempts = 2
  LockFor = 1
  Lifetime = 1
  MaxTime = 3
SYMMETRY Symmetry
INVARIANTS TypeOK NoEarlyLockout OneTokenUnlessRaced SessionsEnded OldPasswordOut LoggedOut
