SPECIFICATION FairLoopSpec
CONSTANTS
  Commands = {c1, c2}
  StatesCapacity = 2
  SignalsFail = TRUE
  MaxFlaps = 2
  MaxFaults = 1
INVARIANTS OfflineIsPolling BeliefFollowsStream
PROPERTY FallbackCollects
CHECK_DEADLOCK FALSE
