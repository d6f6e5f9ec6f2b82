SPECIFICATION FairSpec
CONSTANTS
  Evaluators = {"e1", "e2"}
  Cells = {"c"}
  Bundles = {"g", "h"}
  Predictions = {"p", "q"}
  MaxFaults = 1
  MaxUploads = 2
INVARIANTS
  AcksAgree
  ReportStands
PROPERTIES
  EvaluationCompletes
