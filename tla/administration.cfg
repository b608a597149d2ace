SPECIFICATION Spec
CONSTANTS
  r1 = r1 r2 = r2 r3 = r3
  admin = admin desk = desk e1 = e1 e2 = e2 b1 = b1 s1 = s1
  Requests = {r1, r2, r3}
  Emails = {e1, e2}
  Seeded = {e1}
  Badges = {b1}
  Codes = {s1}
  SystemRoles = {admin}
  CustomRoles = {desk}
  Permissions = {p}
  Lifetime = 1
  MaxTime = 1
  None = None
  Files <- MCFiles
  UpperCased = {desk}
  MaxEffort = 4
SYMMETRY Symmetry
INVARIANTS TypeOK RevokedStaysRevoked UploadAccounted ParserAgrees
PROPERTY StaleAccessBounded
