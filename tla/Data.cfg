SPECIFICATION Spec
CONSTANTS
  TextLength = 5
  PageLength = 4
  DocLength = 3
  Largest = 100
  IntLimit = 16
  Digits = 3
  FloatBits = 6
  Levels = 4
  TypeLevels = 4
  FrontLength = 5
  MaxSecond = 3
  Labels <- SomeLabels
  Inputs <- TheInputs
  Word <- SomeWords
  Mark <- SomeMarks
  Value <- TheValues
  Depth <- TheDepths
  Segment <- SomeWords
  OfType <- TheTypes
  LowerFirst <- InLowerFirst
  Lower <- InLower
CHECK_DEADLOCK FALSE
INVARIANTS SelectorsMean PagesSettle SiteIsComplete   FieldsHaveOneName MiddleIsOne PrintedNamesReach ErrorsCross CommandsLeaveNothing
