SPECIFICATION Spec
CONSTANTS
  Events = {1, 2}
  Procs = {"service"}
  BatchSize = 2
  Invalid = {}
  FutureDated = {}
  Corruptible = {}
  ReadFaults = TRUE
  MaxDisturbances = 1
INVARIANT EvidenceKept
