SPECIFICATION SpecScene
CONSTANTS
  e1 = e1
  e2 = e2
  r1 = r1
  r2 = r2
  Absent = Absent
  None = None
  Value <- MCValue
  Extractions <- MCExtractions
  Corrections <- MCCorrections
  Elicitors = {e1}
  Reviewers = {r1}
  UndoWindow = 1
  MaxRuns = 4
  MaxCorrections = 0
  MaxTime = 0
CHECK_DEADLOCK FALSE
INVARIANT
  ApprovedStaysCommitted
