CONSTANTS
  Canaries = {"functional", "resume"}
  Limit <- ShortRuns
  MaxInterrupts = 2
SPECIFICATION FairSpec
INVARIANTS
  CompletedIsPaired
PROPERTIES
  PairCompletes
