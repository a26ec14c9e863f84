SPECIFICATION FairSpec
CONSTANTS
  a = a
  b = b
  NoId = NoId
  Ids = {a, b}
  Default = a
  Catalogs <- MCCatalogs
  ConfirmWord <- MCConfirm
  Characters <- MCCharacters
  Printable <- MCPrintable
  KeyStates <- MCKeyStates
  QueueSize = 3
  SpecialsSize = 3
  MaxInput = 2
  MaxTyped = 2
  MaxChanges = 4
  MaxBoots = 2
INVARIANTS
  TypeOK
  ListIsWhole
PROPERTIES
  ImplementsFifo
  ResetByHand
  PickerCloses
CHECK_DEADLOCK FALSE
