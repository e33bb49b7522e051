SPECIFICATION SpecAll
CONSTANTS
  Execs = {e1, e2}
  Senders = {"al", "bo", anonymous}
  Contents = {"text", "more", "file", "image"}
  Keys <- MCKeys
  Msgs <- MCMsgs
  From <- MCFrom
  At <- MCAt
  Key <- MCKey
  Docs <- MCDocs
  Batches <- MCBatches
  OpenIdle = 1
  CaseIds = {1, 2, 3, 4, 5, 6, 7}
  MaxUploads = 3
  Classifier = FALSE
  Anonymous = anonymous
  Nobody = nobody
  NoKey = nokey
  None = none
  Records = {"o1", "o2", "o3", "o4"}
  Fields = {"order", "phone"}
  Cases = {"c1", "c2"}
  Values <- Written
  Vacant = vacant
  Row <- OrderRow
  Files <- OrderFiles
  ContactNamed = {"phone"}
  PhoneNamed = {"phone"}
  ContactShaped = {"050-1", "050-2"}
  AsText <- Verbatim
  AsDigits <- Digits
  Sender <- CalledFrom
  Anchors <- Quotes
  Likeness <- NameLike
  MatchTau = 80
  Margin = 10
  MaxObjectRows = 3
  MaxStates = 2
  MaxAborts = 1
  Stories = {"s1", "s2"}
  Facts = {"rule", "act", "illness"}
  States <- Stated
  Profiled = {"rule", "act", "illness"}
  Alike <- Similar
  Names = {"regulation", "symptom"}
  Forbidden = {"status"}
  ProtectedNames = {"symptom"}
  ProtectedFacts = {"illness"}
  PromoteHeadN = 2
  MaxExamples = 2
  MaxScans = 2
  MaxKills = 1
  LimitKeys = {"ip1", "ip2", "in1", "tenant"}
  Limit <- EdgeLimit
  Window <- EdgeWindow
  Addresses = {"ip1", "ip2"}
  TenantKey = "tenant"
  AuthKey <- SignsInAs
  Genuine <- MCGenuine
  Preamble <- MCPreamble
  People = {"ann"}
  Spoken = {"hi", "there", "img", "gone", "omitted", ""}
  NoStamp <- MCNoStamp
  NoSender = nosender
  Blank = ""
  Markers = {"img", "gone"}
  Omitted = "omitted"
  ZipMedia = {"img"}
  Sizes = {0, 2, 5}
  MaxFile = 2
  MaxRequest = 3
  MaxFiles = 2
  EmbedKeys = {missing, "site", "other"}
  KnownKeys = {"site"}
  Origins = {missing, "own", "shop", "stranger"}
  OwnOrigin = "own"
  AllowedOrigins = {"shop"}
  Declared = {missing, 3, 4}
  MaxBody = 3
  MaxTime = 4
  MaxRestarts = 1
  Secrets = {missing, "own"}
  Missing = missing
CHECK_DEADLOCK FALSE
INVARIANTS
  MessageOnce
  NothingLost
  BoundariesKept
  DiscrepancyKept
  MintedRight
  GenuineRead
  EdgeBounded
PROPERTIES
  BoundUnambiguous
