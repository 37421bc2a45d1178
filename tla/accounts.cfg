\* One address, two registrations, a login, a visit; a crash, two failed queries.
CONSTANTS
  e1 = e1
  Emails = {e1}
  Registrations = {r1, r2}
  Logins = {l1}
  Visits = {v1}
  r1 = r1
  r2 = r2
  l1 = l1
  v1 = v1
  EmailOf <- OneAddress
  MaxCrashes = 1
  MaxFailures = 2
SPECIFICATION FairSpec
INVARIANTS TypeOK OneWelcomePerAddress WelcomedAreKnown
PROPERTIES EveryRequestEnds
CHECK_DEADLOCK FALSE
