SPECIFICATION TreeSpec
CHECK_DEADLOCK FALSE
CONSTANTS
  Budget = 90
  Limits <- AmpleLimits
  Top <- MCTop
  PropertyName = {"P"}
  ValueWord = {"VCALENDAR", "VEVENT"}
  MaxValueOctets = 1
  FoldOctets = 3
  MaxFolds = 0
  MaxParameters = 1
  Damage = {"separator"}
  MaxOdd = 1
  MaxLines = 5
  MaxDocuments = 1
INVARIANTS
  TreeWritesItsLines
  VerdictIsGrammar
