CONSTANTS
  Nothing = Nothing
  org = org
  ann = ann
  bob = bob
  cat = cat
  Party = {org, ann, bob, cat}
  Organizer = org
  Horizon = 2
  Exchanges <- Restatements
  Calendars <- NoCalendar
SPECIFICATION Spec
INVARIANT
  NoNewVersionNoChange
