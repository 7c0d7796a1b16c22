SPECIFICATION Spec
CHECK_DEADLOCK FALSE
CONSTANTS
  Series = "rules"
  Origin = 1
  Span = 3
  LastIndex = 2
  MaxResumes = 1
  ResumeAnywhere = TRUE
  Inputs <- MCInputs
  Windows <- MCWindows
  Meters <- MCMeters
INVARIANT CursorKeysWereGiven
