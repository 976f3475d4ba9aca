\* The same: a crash before the cursor is stamped anew.
CONSTANTS
  n1 = n1
  n2 = n2
  e1 = e1
  h1 = h1
  p1 = p1
  NodeId = {n1, n2}
  EdgeId = {e1}
  Source <- MCSource
  Target <- MCTarget
  Hash = {h1}
  Prop = {p1}
  NoProp = NoProp
  Absent = Absent
  Bodies <- EmissionsAndDrop
  Retire <- NoneOrOne
  Pending = {"none", "removed"}
  Domain = {"wires"}
  MaxOps = 4
  MaxFaults = 2
  MaxCompactions = 3
SPECIFICATION Spec
CHECK_DEADLOCK FALSE
INVARIANTS
  CursorFinds
