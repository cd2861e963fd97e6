SPECIFICATION Spec
CONSTANTS
  Upserts = {}
  Enrolls = {1}
  EmployeeOf <- OneEmployee
  Handlers = {h1, h2}
  LeaseTime = 1
  UpsertLife = 3
  EnrollLife = 3
  ResultLimit = 2
  CandidateLimit = 3
  MaxTime = 3
  MaxFaults = 2
INVARIANT AtMostOneExecution
