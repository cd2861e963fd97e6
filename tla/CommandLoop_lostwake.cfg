SPECIFICATION FairLoopSpec
CONSTANTS
  Commands = {c1}
  StatesCapacity = 2
  SignalsFail = FALSE
  MaxFlaps = 0
  MaxFaults = 0
PROPERTY CommandsAreCollected
CHECK_DEADLOCK FALSE
