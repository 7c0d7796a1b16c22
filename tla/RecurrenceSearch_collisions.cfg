SPECIFICATION Spec
CHECK_DEADLOCK FALSE
CONSTANTS
  Series = "collisions"
  Origin = 1
  Span = 3
  LastIndex = 2
  MaxResumes = 1
  ResumeAnywhere = FALSE
  Inputs <- MCInputs
  Windows <- MCWindows
  Meters <- MCMeters
INVARIANT ShadowedOverridesAreInert
