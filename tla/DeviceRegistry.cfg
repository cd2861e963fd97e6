SPECIFICATION Spec
CONSTANTS
  Orgs = {o1, o2}
  Calls = {c1, c2}
  Requests = {r1}
  GraceTime = 1
  CacheTime = 1
  RequestTime = 1
  MaxTime = 4
  MaxKeys = 3
  MaxCalls = 4
  MaxFaults = 1
SYMMETRY Symmetry
INVARIANTS TypeOK LastKeyWorks DocumentsFollowRegistry
PROPERTY AdmittedKeyIsRecent
CHECK_DEADLOCK FALSE
