\* An exported baseline and live gestures; replays from the start or from a place past the baseline.
CONSTANTS
  n1 = n1
  n2 = n2
  e1 = e1
  h1 = h1
  h2 = h2
  p1 = p1
  p2 = p2
  NodeId = {n1, n2}
  EdgeId = {e1}
  Source <- MCSource
  Target <- MCTarget
  Hash = {h1, h2}
  Prop = {p1, p2}
  NoProp = NoProp
  Absent = Absent
  Baseline <- Exported
  Bodies <- AnyContent
  FreshOffsets = {0}
  HeldOffsets = {0, 3, 4, 5, 6, 7}
  BatchSizes = {1, 2, 5}
  LiveFirst = 1
  MaxOps = 7
  MaxRuns = 2
SPECIFICATION Spec
CHECK_DEADLOCK FALSE
INVARIANTS
  TypeOK
  StampIsApplied
  NothingSkipped
  ReadIsCurrent
  FreshBuildsTakeAll
