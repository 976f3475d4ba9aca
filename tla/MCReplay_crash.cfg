\* A whole replay onto a live db that dies half way.
CONSTANTS
  n1 = n1
  n2 = n2
  e1 = e1
  h1 = h1
  h2 = h2
  p1 = p1
  p2 = p2
  NodeId = {n1, n2}
  EdgeId = {e1}
  Source <- MCSource
  Target <- MCTarget
  Hash = {h1, h2}
  Prop = {p1, p2}
  NoProp = NoProp
  Absent = Absent
  Baseline <- Exported
  Bodies <- SameContent
  FreshOffsets = {0}
  HeldOffsets = {0}
  BatchSizes = {1, 2, 5}
  LiveFirst = 1
  MaxOps = 5
  MaxRuns = 2
SPECIFICATION Spec
CHECK_DEADLOCK FALSE
INVARIANTS
  AnyReplayConverges
