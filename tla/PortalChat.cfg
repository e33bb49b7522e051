SPECIFICATION Spec
CONSTANTS
  StallTicks = 1
  LiveTicks = 1
  PollTicks = 1
  MaxMessages = 3
  MaxQuestions = 2
  MaxFaults = 1
  MaxInFlight = 2
CHECK_DEADLOCK FALSE
INVARIANTS
  ReadyWhenOrderly
  NoFalseStall
PROPERTIES
  StallGuarantee
