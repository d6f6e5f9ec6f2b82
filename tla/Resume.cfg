CONSTANTS
  MaxSteps = 4
  LogEvery = 2
  SnapEvery = 3
  Ledgered = TRUE
  Policies = {"auto", "none"}
  MaxFaults = 3
SPECIFICATION FairSpec
INVARIANTS
  ExactHistory
PROPERTIES
  Settles
CHECK_DEADLOCK FALSE
