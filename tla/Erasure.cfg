SPECIFICATION Spec
CONSTANTS
  Clients = {c1, c2}
  Emails = {al, bo}
  Workspaces = {w1, w2}
  Closing = {w1}
  Hashes = {h}
  MaxCrashes = 1
  None = none
CHECK_DEADLOCK FALSE
INVARIANTS
  AccountsWhole
  ErasedIsGone
  LostOnlyInRace
PROPERTIES
  ErasureEnds
