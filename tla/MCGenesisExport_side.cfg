\* Two exports side by side, dying anywhere, beside unjournaled writes; then an adoption and journaled writes.
CONSTANTS
  n1 = n1
  n2 = n2
  n3 = n3
  e1 = e1
  Exporter = {x1, x2}
  NodeId = {n1, n2, n3}
  EdgeId = {e1}
  Source <- MCSource
  Target <- MCTarget
  Hash = {"h", "k"}
  Prop = {"p", "q"}
  NoProp = NoProp
  Absent = Absent
  Dbs <- MCDbs
  Bodies <- Extends
  Strays <- MCStrays
  MaxOps = 2
  MaxStrays = 2
SPECIFICATION Spec
SYMMETRY Symmetry
INVARIANTS
  TypeOK
  StampedIsWhole
  LateRecordsIdle
PROPERTY
  ExportIsWhole
CHECK_DEADLOCK FALSE
