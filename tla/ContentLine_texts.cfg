SPECIFICATION Spec
CHECK_DEADLOCK FALSE
CONSTANTS
  HeaderLen = 5
  BreakLen = 6
  MaxHeader = 9
  MaxParameters = 2
  MaxFolds = 2
  RefoldWidth = 4
  MaxContinuation = 3
  Texts <- MCTexts
INVARIANTS ReadsTheText WritesItsInput ExtentsAddressInput RefoldKeepsLines ReaderKeepsBounds SpansTileHeader NormalizingKeepsLines
