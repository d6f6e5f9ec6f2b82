SPECIFICATION Spec
CONSTANTS
  Lanes <- TwoLanes
  MaxRecords = 4
  MaxRecordLength = 2
  MaxWeight = 2
  MaxTasks = 2
  MaxUpdate = 3
  MaxShards = 2
  Tiers <- TwoTiers
  MaxSegments = 2
  MaxLength = 8
  MaxContext = 3
  MaxRows = 2
  MaxBatches = 3
  ObjectCount = 2
  Uploaders = {"u1", "u2"}
  Stagers = {"s1", "s2"}
  Crews <- TwoCrews
  Pids = {11, 12}
  MaxFailures = 1
INVARIANTS
  GoldReturnsAreAccepted
CHECK_DEADLOCK FALSE
