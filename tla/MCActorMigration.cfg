\* Two sessions, two plans, two faults: panics, crashes, isolations, failed restores.
CONSTANTS
  Sessions = {s1, s2}
  MaxHead = 8
  Panics = TRUE
  MaxPlans = 2
  MaxFaults = 2
SPECIFICATION MigrationSpec
SYMMETRY Symmetry
INVARIANTS
  ReplayIsLive
  ExclusiveOwner
PROPERTY IsAHandoff
CHECK_DEADLOCK FALSE
