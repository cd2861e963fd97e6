SPECIFICATION TenancySpec
CONSTANTS
  Users = {u1}
  Branches = {b1, b2}
  Departments = {t1}
  Devices = {d1, d2}
  Numbers = {1, 2}
  Plans <- SmallAndLarge
  Unlimited = Unlimited
  Chunk = 3
  None = None
  MaxCalls = 5
  MaxFailures = 1
SYMMETRY Symmetry

PROPERTY DevicesWithinPlan
CHECK_DEADLOCK FALSE
