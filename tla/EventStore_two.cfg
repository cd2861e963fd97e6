SPECIFICATION FairSpec
CONSTANTS
  Events = {1, 2}
  Procs = {"service", "cli"}
  BatchSize = 1
  Invalid = {2}
  FutureDated = {1}
  Corruptible = {1}
  ReadFaults = FALSE
  MaxDisturbances = 2
INVARIANTS EvidenceKept SyncedIsInCloud RefusedIsRefused
PROPERTIES DeliversEvidence NoStuckRecord
