SPECIFICATION Spec
CONSTANTS
  r1 = r1
  r2 = r2
  None = None
  Main = main
  Failures = {"directory"}
  Ids = {"claude-opus", "other", "third"}
  DefaultId = "claude-opus"
  Profiles = {"first", "second"}
  Default = "first"
  Requests <- MCRequests
  MaxRequests = 3
  MaxStarts = 2
SYMMETRY Alike
INVARIANTS
  TypeOK
  OthersUntouched
PROPERTIES
  LoneSaveHeals
  LoneFailureContained
  ImplementsShelf
CHECK_DEADLOCK FALSE
