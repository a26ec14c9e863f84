SPECIFICATION FairSpec
CONSTANTS
  b1 = b1
  b2 = b2
  b3 = b3
  None = None
  Bundles <- MCTwo
  Broken <- MCNone
  Failures = {}
  Fragile = {}
  MaxOutages = 0
  MaxResets = 0
PROPERTY
  FreshComesUp
CHECK_DEADLOCK FALSE
