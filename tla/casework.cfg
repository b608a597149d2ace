SPECIFICATION Spec
CONSTANTS
  Requests = {r1, r2, r3}
  Readers = {q1}
  Complaints = {c1, c2}
  Targets = {"in_progress", "completed"}
  Verdicts = {"pending", "accepted"}
  Reviewers = {u1, u2}
  Remarks = {m1}
  Moments = {t1}
  Statuses = {"under_review", "resolved"}
  MaxChanges = 3
  None = None
SYMMETRY Symmetry
INVARIANTS TypeOK ReassignmentWhole CompletionSurvives CustodyKept ReviewAttributed
INVARIANTS TrackedStatusExplained ReportsAddUp
