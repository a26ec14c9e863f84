SPECIFICATION FairSpec
CONSTANTS
  Failures = {}
  Polls = 2
  Reconnects = 1
PROPERTY
  UpMeansFullTunnel
