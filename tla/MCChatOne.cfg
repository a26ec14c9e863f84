SPECIFICATION FairSpec
CONSTANTS
  MaxTurns = 1
  MaxText = 4
  MaxDelta = 2
  WireCap = 4
  LineCap = 1
  HeadTicks = 2
  LineTicks = 1
  OverallTicks = 4
  Profiles <- MCProfiles
  Catalog <- MCCatalog
  Adapters <- MCAdapters
  NoProfile = "none"
INVARIANTS
  FailureShowsNothing
PROPERTIES
  TurnEnds
  ImplementsConversation
CHECK_DEADLOCK FALSE
