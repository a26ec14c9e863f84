SPECIFICATION FairSpec
CONSTANTS
  Failures = {"init", "connect", "cidr", "default"}
  Polls = 2
  Reconnects = 1
INVARIANTS
  TypeOK
  
PROPERTIES
  StaleRouteCleared
  TunnelRecovers
