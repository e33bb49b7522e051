SPECIFICATION SpecScene
CONSTANTS
  e1 = e1
  e2 = e2
  r1 = r1
  r2 = r2
  Absent = Absent
  None = None
  Value <- MCValue
  Extractions <- MCExtractions
  Corrections <- MCCorrections
  Elicitors = {e1, e2}
  Reviewers = {r1, r2}
  UndoWindow = 1
  MaxRuns = 4
  MaxCorrections = 1
  MaxTime = 1
SYMMETRY Symmetric
CHECK_DEADLOCK FALSE
INVARIANTS
  ApprovalBacked
  QuestionsFunded
  QuestionsBounded
PROPERTY
  ApprovalDurable
