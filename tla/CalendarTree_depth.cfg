SPECIFICATION TreeSpec
CHECK_DEADLOCK FALSE
CONSTANTS
  Budget = 30
  Limits <- TightLimits
  Top <- MCTop
  PropertyName = {"P"}
  ValueWord = {"VCALENDAR"}
  MaxValueOctets = 1
  FoldOctets = 3
  MaxFolds = 0
  MaxParameters = 0
  Damage = {}
  MaxOdd = 4
  MaxLines = 4
  MaxDocuments = 3
INVARIANTS
  DepthRefusalIsEarned
