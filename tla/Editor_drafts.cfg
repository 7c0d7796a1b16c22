SPECIFICATION Spec
CHECK_DEADLOCK FALSE
CONSTANTS
  RefoldWidth = 4
  MaxContinuation = 3
  Uids <- MCUids
  VendorNames <- MCVendorNames
  Values <- MCValues
  Calendars <- MCCalendars
  MaxValue = 8
  MaxInput = 92
  MaxEdits = 2
  MaxCommits = 2
INVARIANT CommitFailsForLimitsOnly
PROPERTIES ImplementsDraft CommitIsLineLocal
