SPECIFICATION FairSpec
CONSTANTS
  FanOuts = {1}
  Singles = {2}
  Mappings = {2}
  Members = {1, 2}
  LastItem = 2
  Page = 1
  Chunk = 1
  QueryLimit = 1
  MaxAttempts = 2
  Poison <- PoisonedDay
  Runs = {r1, r2}
  MaxFaults = 1
INVARIANTS CompletedIsCovered FailedHasFailedOften
PROPERTY JobsEnd
