SPECIFICATION SpecDesk
CONSTANTS
  Deltas = {"d1", "d2"}
  NoDraft = "no draft"
  Answers = {"d1", "no draft"}
  Transitions <- MCTransitions
  Notes <- MCNotes
  Inline = {"d2"}
  Complaints = {"c"}
  MaxPulls = 3
  MaxFailures = 1
  Cases = {"old", "new"}
  Age <- MCAge
  Reviewers = {"ann", "ben"}
  Values = {"u", "v"}
  NoOne = "no one"
  UndoWindow = 1
  RegisterLimit = 2
  MaxCorrections = 2
  MaxPapers = 1
  MaxTime = 1
  MaxAsides = 1
  Docs = {"note", "voice", "scan"}
  Content <- Holdings
  Letters = {"A", "C", "I", "a", "b", "c", "i", "dot", "s", "emoji", "high", "low", "nl", "sp"}
  Fold <- MCFold
  Encoded <- MCEncoded
  Fields = {"fault"}
  Quotes <- MCQuotes
  NoDoc = "no document"
  MinLayer = 4
  MaxOcrPages = 1
  MaxBegins = 4
CHECK_DEADLOCK FALSE
INVARIANTS
  HighlightHolds
  TunedRight
PROPERTIES
  ExportsReal
