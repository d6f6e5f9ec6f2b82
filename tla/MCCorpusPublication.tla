------------------------- MODULE MCCorpusPublication -------------------------
EXTENDS CorpusPublication

CONSTANTS b1, b2, b3, d1, d2

TwoBuilds      == [b \in {b1, b2, b3} |-> IF b = b3 THEN d2 ELSE d1]
FoundationPair == <<"catalog", "schedule">>
ShardPair      == <<"shard-0", "shard-1">>
=============================================================================
