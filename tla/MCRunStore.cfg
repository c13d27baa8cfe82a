\* Two runs of one plan, two writers, and any two of crash, failed sync and power loss; the bytes
\* are scarce enough that a finalization can be refused and a terminal attempt evicted.
CONSTANTS
  Runs = {"r1", "r2"}
  Writers = {w1, w2}
  Plans = {"p1", "p2"}
  NoPlan = NoPlan
  Plan <- SharedPlan
  MaxAttempts = 2
  MaxBytes = 3
  Loses = TRUE
  MaxFaults = 2
SPECIFICATION FairSpec
INVARIANTS
  NoDangling
  ActiveIsProtected
  ReportedIsKept
PROPERTY
  OrphansSettle
CHECK_DEADLOCK FALSE
