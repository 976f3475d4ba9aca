\* Shifts into a pruned position, and of the end of a word.
CONSTANTS
  s1 = s1
  s2 = s2
  s3 = s3
  a = a
  b = b
  Spine <- MCSpine
  Original <- Starved
  Letter = {a, b}
  Gap = Gap
  NoText = NoText
  NoUnit = NoUnit
  Contents <- Decisions
  EditId = {1, 2, 3}
  MaxTime = 2
SPECIFICATION Spec
CHECK_DEADLOCK FALSE
PROPERTIES
  WordStreamKept
