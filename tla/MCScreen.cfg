SPECIFICATION FairSpec
CONSTANTS
  a = a
  b = b
  Profiles = {a, b}
  Kinds <- MCKinds
  Texts <- MCTexts
  Capacity = 3
  TextSize = 8
  Width = 3
  Rows = 2
  MaxInput = 1
  MaxLetters = 8
  MaxBoots = 2
INVARIANTS
  TypeOK
  LettersInOrder
  ScreenCurrent
PROPERTIES
  ImplementsWindow
  HandlerReturns
CHECK_DEADLOCK FALSE
