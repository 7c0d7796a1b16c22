SPECIFICATION Spec
CHECK_DEADLOCK FALSE
CONSTANTS
  Series = "all"
  Origin = 1
  Span = 3
  LastIndex = 2
  MaxResumes = 1
  ResumeAnywhere = FALSE
  Inputs <- MCInputs
  Windows <- MCWindows
  Meters <- MCMeters
INVARIANTS NamesNearestAnchor KeysAscend
PROPERTIES ImplementsOccurrenceFeed NextReturns
