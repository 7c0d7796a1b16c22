SPECIFICATION Spec
CHECK_DEADLOCK FALSE
CONSTANTS
  Budget = 6
  Limits <- SessionLimits
  Top <- MCTop
  PropertyName = {"P"}
  ValueWord = {"VCALENDAR"}
  MaxValueOctets = 1
  FoldOctets = 2
  MaxFolds = 1
  MaxParameters = 0
  Damage = {}
  MaxOdd = 2
  MaxLines = 3
  MaxDocuments = 1
  MaxImport = 2
  MaxOperations = 2
  MaxAttributes = 2
  MaxText = 1
  MaxSteps = 3
INVARIANTS
  NestingWithinLimit
  DepthAccounted
  ScopesAreLeft
  RetainedWithinBudget
  CutSearchIsReported
PROPERTIES
  ExhaustionIsFinal
