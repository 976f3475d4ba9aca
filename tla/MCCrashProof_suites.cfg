\* Every declaration and every verb of up to three ops, alone or after a core's step.
CONSTANTS
  MaxStepOps = 3
  Scenarios <- Suites
SPECIFICATION SuiteSpec
INVARIANTS
  SuiteTypeOK
  PassesIfSound
  EveryBoundaryStruck
CHECK_DEADLOCK FALSE
