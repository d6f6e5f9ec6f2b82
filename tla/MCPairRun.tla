------------------------------ MODULE MCPairRun ------------------------------
EXTENDS PairRun

ShortRuns == [m \in Canaries \cup {"protected"} |-> IF m = "functional" THEN 1 ELSE 2]
=============================================================================
