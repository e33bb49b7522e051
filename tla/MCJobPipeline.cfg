SPECIFICATION SpecAlone
CONSTANTS
  c1 = c1
  c2 = c2
  d1 = d1
  d2 = d2
  d3 = d3
  w1 = w1
  Blank = Blank
  None = None
  Cases = {c1, c2}
  Docs = {d1, d2, d3}
  Reading <- MCReading
  Unreadable = {d3}
  Webhooks = {w1}
  Moves = {"incomplete", "in_review"}
  MaxRetries = 0
  MaxDeliveries = 2
  MaxFailures = 1
  MaxCrashes = 1
SYMMETRY CaseSymmetry
CHECK_DEADLOCK FALSE
INVARIANTS
  WorkInHand
  ExtractedOnce
  LastTextWinsAlone
