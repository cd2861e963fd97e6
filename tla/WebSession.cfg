SPECIFICATION FairSpec
CONSTANTS
  Users = {ann, bob}
  Orgs = {o1, o2}
  Admins = {bob}
  None = None
  Attempts = 3
  MaxCalls = 3
  MaxChanges = 2
  MaxFailures = 1
INVARIANTS ShownIsConfirmed QuietSessionIsRight
PROPERTIES WaitingEnds RoutesSettle
CHECK_DEADLOCK FALSE
