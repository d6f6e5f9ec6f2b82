CONSTANTS
  Gpus = {0}
  LeadRounds = 2
  OwnRounds = 1
  LastStep = 1
  OwnDeadline = 2
  Deadline = 3
  LeadNeeded = 2
  OwnNeeded = 1
  MaxKills = 1
  MaxRestarts = 1
SPECIFICATION FairSpec
INVARIANTS
  OneTrainerPerGpu
  DurableIfSynced
PROPERTIES
  SupervisorsEnd
