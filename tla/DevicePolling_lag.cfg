SPECIFICATION Spec
CONSTANTS
  Events = {1, 2}
  Pollers = {pollLoop, commandLoop}
  PageSize = 1
  Overlap = 2
  Lookback = 1
  Lag = 1
  Ahead = 1
  MaxStepBack = 1
  MaxTime = 4
  MaxFailures = 1
SYMMETRY PollerSymmetry
INVARIANT CheckpointCoversEvidence
