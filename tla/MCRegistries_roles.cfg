\* Processes in environments of different roles; what is installed changes between processes.
CONSTANTS
  decomp = decomp
  correction = correction
  viewer = viewer
  critic = critic
  rival = rival
  derive = derive
  correct = correct
  note = note
  wires = wires
  mend = mend
  view = view
  other = other
  Process = {p1, p2}
  NoProcess = NoProcess
  Core = {decomp, correction, viewer, critic, rival}
  Declared = {decomp, correction}
  Verb = {derive, correct, note}
  Handler = {wires, mend, view, other}
  NoHandler = NoHandler
  Registry <- MCRegistry
  Environments <- Roles
  InstallLate = FALSE
  MaxOps = 3
SPECIFICATION Spec
SYMMETRY Symmetry
INVARIANTS
  TypeOK
  NothingDropped
  NoLateRefusal
  OwnHandlerApplies
