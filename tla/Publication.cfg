CONSTANTS
  b1 = b1
  b2 = b2
  b3 = b3
  d1 = d1
  d2 = d2
  Nothing = Nothing
  Builders = {b1, b2, b3}
  Builds = {d1, d2}
  BuildOf <- TwoBuilds
  Foundation <- FoundationPair
  Shards <- ShardPair
  MaxKills = 2
SPECIFICATION FairSpec
INVARIANTS
  OkIsMine
PROPERTIES
  ImplementsAbstractPublication
  AnsweredUnlessOrphaned
