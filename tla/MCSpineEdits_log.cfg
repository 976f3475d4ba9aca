\* Three decisions, in every order of arrival, time and id, some superseding others.
CONSTANTS
  s1 = s1
  s2 = s2
  s3 = s3
  a = a
  b = b
  Spine <- MCSpine
  Original <- Starved
  Letter = {a, b}
  Gap = Gap
  NoText = NoText
  NoUnit = NoUnit
  Contents <- Decisions
  EditId = {1, 2, 3}
  MaxTime = 2
SPECIFICATION Spec
CHECK_DEADLOCK FALSE
INVARIANTS
  TypeOK
  ShiftUndoes
  LatestWins
PROPERTIES
  ShiftKeepsWords
  PruneOnlyDrops
