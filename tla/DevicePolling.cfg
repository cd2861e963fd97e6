SPECIFICATION FairSpec
CONSTANTS
  Events = {1, 2}
  Pollers = {pollLoop, commandLoop}
  PageSize = 1
  Overlap = 1
  Lookback = 1
  Lag = 0
  Ahead = 1
  MaxStepBack = 1
  MaxTime = 2
  MaxFailures = 1
INVARIANT CheckpointCoversEvidence
PROPERTY EventsAreCollected
