SPECIFICATION Spec
CONSTANTS
  Evaluators = {"e1", "e2"}
  Analysts = {"a1"}
  Multiples = {1, 2}
  Frozen = 2
  Controls = 2
  MaxKills = 1
  MaxChanges = 1
CHECK_DEADLOCK FALSE
INVARIANT ReceiptIsFrozen
