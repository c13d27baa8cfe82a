\* One plan, two faults, and an authority that keeps asking.
CONSTANTS
  Sessions = {s1, s2}
  MaxHead = 6
  Panics = FALSE
  MaxPlans = 1
  MaxFaults = 2
SPECIFICATION FairMigrationSpec
PROPERTY FencedActivates
CHECK_DEADLOCK FALSE
