SPECIFICATION SeriesSpec
CHECK_DEADLOCK FALSE
CONSTANTS
  Bad = Bad
  MaxPeriods = 6
  Texts <- MCTexts
  Starts <- MCStarts
  Zones <- MCZones
  Components <- MCComponents
INVARIANTS PeriodIsRuleSet ReadersAgree ResolutionIsCounted UntilCutsAtTheInstant TruncationLeavesNoHole NoMatchIsMissed
