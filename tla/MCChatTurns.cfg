SPECIFICATION Spec
CONSTANTS
  MaxTurns = 2
  MaxText = 3
  MaxDelta = 2
  WireCap = 3
  LineCap = 2
  HeadTicks = 1
  LineTicks = 1
  OverallTicks = 2
  Profiles <- MCServed
  Catalog <- MCServedCatalog
  Adapters <- MCAdapters
  NoProfile = "none"
INVARIANTS
  TypeOK
  HistoryAlternates
  RequestWellFormed
  ReplyIsPrefix
  DoneMeansAllText
PROPERTIES
  ImplementsConversation
CHECK_DEADLOCK FALSE
