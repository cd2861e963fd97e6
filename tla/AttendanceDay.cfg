SPECIFICATION Spec
CONSTANTS
  Minute = 2
  Instant <- Zone
  Calendar = {0, 1, 2, 3, 4}
  Times = {0, 1, 2, 3, 4, 5, 6, 7, 8, 9, 10, 11}
  Policy <- InferencePolicy
  Dates = {1, 2}
  Punches <- MCPunches
  Shifts <- MCShifts
  Assignments <- NightsAssigned
  Corrections <- LateCheckout
  Excuses <- Leave
  Margin = 3
  Workers = {w1, w2}
  MaxExtras = 1
SYMMETRY WorkerSymmetry
INVARIANTS ScheduledTimeAccountedFor NoFalseCheckout
PROPERTY QuietRecalculationIsRight
CHECK_DEADLOCK FALSE
