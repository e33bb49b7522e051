SPECIFICATION SpecCast
CONSTANTS
  w1 = w1
  w2 = w2
  h1 = h1
  q1 = q1
  q2 = q2
  Workers = {w1, w2}
  Webhooks = {h1}
  Senders = {w1, w2, h1}
  Jobbers = {w1, w2}
  Nobody = Nobody
  Questions = {q1, q2}
  NoQuestion = NoQuestion
  MaxRetries = 1
  MaxAsks = 2
  MaxFailures = 2
  MaxFaults = 2
  MaxCrashes = 1
  MaxLockLosses = 1
  MaxReapFailures = 1
CHECK_DEADLOCK FALSE
INVARIANTS
  NoSharedJob
  CopiesAccounted
  PendingInHand
PROPERTIES
  MailboxKept
  QuestionGetsOut
