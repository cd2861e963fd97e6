SPECIFICATION FairSpec
CONSTANTS
  Upserts = {2}
  Enrolls = {1}
  EmployeeOf <- OneEmployee
  Handlers = {h1, h2}
  LeaseTime = 1
  UpsertLife = 2
  EnrollLife = 2
  ResultLimit = 2
  CandidateLimit = 3
  MaxTime = 2
  MaxFaults = 1
PROPERTY CommandsEnd
