SPECIFICATION Spec
CONSTANTS
  Visits = {v1, v2}
  Admins = {a1}
  LockTime = 2
  UrlTime = 2
  RequestTime = 1
  Forever = Forever
  Terms = {1, Forever}
  MaxTime = 3
  MaxOffers = 2
  MaxChanges = 3
  MaxActs = 2
  MaxFaults = 1
INVARIANT NeverTwoLive
CHECK_DEADLOCK FALSE
