SPECIFICATION Spec
CONSTANTS
  Cases = {"c1", "c2", "c3", "c4", "c5"}
  Variants = {"late_fee", "overdue_fee"}
  Heads = {"fee"}
  Concepts = {"late_fee", "overdue_fee", "fee"}
  Txns = {t1, bf}
  Backfiller = bf
  History <- MCHistory
  Mentions <- MCMentions
  HeadOf <- MCHeadOf
  Similarity <- MCSimilarity
  MergeTau = 85
  AdmitTau = 70
  PromoteHeadN = 1
  PromoteQualifierM = 2
  Protected = {}
  MaxScans = 2
  Category <- MCCategory
  Readable = {"c1", "c2", "c5"}
  BatchSize = 2
  MaxFaults = 1
  None = none
CHECK_DEADLOCK FALSE
INVARIANTS
  PromotedRecurs
  NoPromotionForgotten
PROPERTIES
  BackfillReaches
