CONSTANTS
  a1 = a1
  a2 = a2
  r1 = r1
  id1 = id1
  None = None
  NoId = NoId
  Appenders = {a1, a2}
  Readers = {}
  CallerIds = {id1}
  Requested = {"planned", "failed"}
  Provisioned = TRUE
  MaxEvents = 2
  MaxCrashes = 1
  MaxPowerCuts = 1
SPECIFICATION Spec
INVARIANTS
  ChainIntact
  AckedKept
PROPERTIES
  ImplementsAbstractLedger
SYMMETRY Symmetric
