\* A unit whose emissions disagree about one node.
CONSTANTS
  n1 = n1
  n2 = n2
  e1 = e1
  h1 = h1
  h2 = h2
  p1 = p1
  w1 = w1
  w2 = w2
  NodeId = {n1, n2}
  EdgeId = {e1}
  Source <- MCSource
  Target <- MCTarget
  Hash = {h1, h2}
  Prop = {p1}
  NoProp = NoProp
  Absent = Absent
  Writer = {w1, w2}
  NoWriter = NoWriter
  Bodies <- TwoContents
  Windows = {"unit"}
  MaxOps = 3
  MaxTime = 0
  MaxFaults = 0
SPECIFICATION Spec
SYMMETRY Symmetric
INVARIANTS
  ApplyNeverRefuses
