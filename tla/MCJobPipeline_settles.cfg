SPECIFICATION SpecSettling
CONSTANTS
  c1 = c1
  c2 = c2
  d1 = d1
  d2 = d2
  d3 = d3
  w1 = w1
  Blank = Blank
  None = None
  Cases = {c1}
  Docs = {d1, d2}
  Reading <- MCTwo
  Unreadable = {}
  Webhooks = {w1}
  Moves = {"in_review"}
  MaxRetries = 1
  MaxDeliveries = 2
  MaxFailures = 3
  MaxCrashes = 1
CHECK_DEADLOCK FALSE
PROPERTIES
  EventuallySettled
