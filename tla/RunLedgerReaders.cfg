CONSTANTS
  a1 = a1
  a2 = a2
  r1 = r1
  id1 = id1
  None = None
  NoId = NoId
  Appenders = {a1, a2}
  Readers = {r1}
  CallerIds = {}
  Requested = {"planned", "failed"}
  Provisioned = FALSE
  MaxEvents = 2
  MaxCrashes = 0
  MaxPowerCuts = 0
SPECIFICATION FairSpec
INVARIANTS
  ReadersSeePrefix
PROPERTIES
  AppendReturns
