SPECIFICATION Spec
CONSTANTS
  Upserts = {2}
  Enrolls = {1, 3}
  EmployeeOf <- OneEmployee
  Handlers = {h1}
  LeaseTime = 1
  UpsertLife = 3
  EnrollLife = 2
  ResultLimit = 1
  CandidateLimit = 3
  MaxTime = 3
  MaxFaults = 2
INVARIANTS NoStaleCandidates AtMostOneExecution ExecutedIsReported SuccessIsTrue LiveEnrollmentHoldsLock EnrollmentTellsFate
PROPERTY FinalStays
