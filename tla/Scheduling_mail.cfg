CONSTANTS
  Nothing = Nothing
  org = org
  ann = ann
  bob = bob
  cat = cat
  Party = {org, ann, bob, cat}
  Organizer = org
  Horizon = 2
  Exchanges <- BothExchanges
  Calendars <- NoCalendar
SPECIFICATION Spec
INVARIANTS
  NewerAnswerLands
  OneComponentPerInstance
  InvitationLands
  NewsIsNeverRefused
PROPERTIES
  ImplementsAnswerBook
  AttendeeWritesOwnLineOnly
  OnlyAddressedInstancesChange
