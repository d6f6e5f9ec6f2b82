CONSTANTS
  w1 = w1
  w2 = w2
  t1 = t1
  p1 = p1
  p2 = p2
  l1 = l1
  c2 = c2
  Workspaces = {w1, w2}
  Tasks = {t1}
  Publishers = {p1, p2}
  Loaders = {l1}
  Cleaners = {c2}
  WorkspaceOf <- TwoWorkspaces
  TaskOf <- OneTask
  BytesOf <- OtherBytes
  Earlier = {w2}
  Inodes = {1, 2, 3, 4, 5, 6, 7}
  Threshold = 3
  MaxKills = 1
SPECIFICATION FairSpec
INVARIANTS
  AckedIsThere
PROPERTIES
  PublishedUnlessWedged
