\* One run with a plan and one without; processes crash, power does not fail.
CONSTANTS
  Runs = {"r1", "r3"}
  Writers = {w1, w2}
  Plans = {"p1", "p2"}
  NoPlan = NoPlan
  Plan <- OwnPlans
  MaxAttempts = 2
  MaxBytes = 4
  Loses = FALSE
  MaxFaults = 1
SPECIFICATION Spec
SYMMETRY Symmetry
INVARIANTS
  DurableIsWhole
CHECK_DEADLOCK FALSE
