SPECIFICATION FairSpec
CONSTANTS
  b1 = b1
  b2 = b2
  b3 = b3
  None = None
  Bundles <- MCThree
  Broken <- MCBroken
  Failures = {"sd"}
  Fragile = {"prov_at"}
  MaxOutages = 2
  MaxResets = 1
INVARIANTS
  TypeOK
PROPERTIES
  KeptBeforeWiped
  CommittedComesUp
  ImplementsEnrolment
CHECK_DEADLOCK FALSE
