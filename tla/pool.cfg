SPECIFICATION FairSpec
CONSTANTS
  Requests = {r1, r2, r3}
  Clients = {p1, p2}
  Rows = {c1}
  Keys = {k1}
  None = None
INVARIANTS TypeOK ClientsReturned
PROPERTIES ServedOrExhausted ExhaustionLasts
