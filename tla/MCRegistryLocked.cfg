SPECIFICATION FairSpec
CONSTANTS
  d1 = d1
  d2 = d2
  d3 = d3
  NoDevice = none
  p1 = p1
  p2 = p2
  Devices <- MCDevices
  Procs <- MCSolo
  LastHost = 3
  MaxMints = 1
  Failures = {}
PROPERTY
  ServerComesBack
