\* Two undeclared cores that bind one verb to different handlers, never in one environment.
CONSTANTS
  decomp = decomp
  correction = correction
  viewer = viewer
  critic = critic
  rival = rival
  derive = derive
  correct = correct
  note = note
  wires = wires
  mend = mend
  view = view
  other = other
  Process = {p1, p2}
  NoProcess = NoProcess
  Core = {decomp, correction, viewer, critic, rival}
  Declared = {decomp, correction}
  Verb = {derive, correct, note}
  Handler = {wires, mend, view, other}
  NoHandler = NoHandler
  Registry <- MCRegistry
  Environments <- Writers
  InstallLate = FALSE
  MaxOps = 3
SPECIFICATION Spec
SYMMETRY Symmetry
INVARIANTS
  OneHandlerPerVerb
