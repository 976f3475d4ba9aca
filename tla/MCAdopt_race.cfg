\* The same, for an unjournaled write between the last page and the stamp.
CONSTANTS
  n1 = n1
  n2 = n2
  n3 = n3
  e1 = e1
  e2 = e2
  h1 = h1
  p1 = p1
  NodeId = {n1, n2, n3}
  EdgeId = {e1, e2}
  Source <- MCSource
  Target <- MCTarget
  Hash = {h1}
  Prop = {p1}
  NoProp = NoProp
  Absent = Absent
  Histories <- MCHistories
  Lagging <- MCLagging
  Bodies <- MCBodies
  Strays <- MCStrays
  Drops <- MCDrops
  Rank <- MCRank
  Page = 2
  MaxLag = 2
  Epoch = 4
  MaxOps = 3
  MaxStrays = 2
  MaxRuns = 2
SPECIFICATION Spec
CHECK_DEADLOCK FALSE
PROPERTIES
  StampIsProof
