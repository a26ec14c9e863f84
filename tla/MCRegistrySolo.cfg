SPECIFICATION Spec
CONSTANTS
  d1 = d1
  d2 = d2
  d3 = d3
  NoDevice = none
  p1 = p1
  p2 = p2
  Devices <- MCThree
  Procs <- MCSolo
  LastHost = 3
  MaxMints = 3
  Failures = {"tokens", "peers", "bundle", "crash"}
INVARIANTS
  TypeOK
  PeerHasToken
  AddressesDistinct
  BundleKnown
  CacheIsPast
  RevokeMarks
PROPERTIES
  StartKnows
  ImplementsTokenLife
