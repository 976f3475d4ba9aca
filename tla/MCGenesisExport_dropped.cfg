\* A journaled drop while an export that lost the race still appends.
CONSTANTS
  n1 = n1
  n2 = n2
  n3 = n3
  e1 = e1
  Exporter = {x1, x2}
  NodeId = {n1, n2, n3}
  EdgeId = {e1}
  Source <- MCSource
  Target <- MCTarget
  Hash = {"h", "k"}
  Prop = {"p", "q"}
  NoProp = NoProp
  Absent = Absent
  Dbs <- MCDbs
  Bodies <- WithDrop
  Strays <- MCStrays
  MaxOps = 2
  MaxStrays = 0
SPECIFICATION Spec
SYMMETRY Symmetry
INVARIANTS
  LateRecordsIdle
CHECK_DEADLOCK FALSE
