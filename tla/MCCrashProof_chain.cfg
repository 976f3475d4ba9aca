\* A pipeline's chain of two units: what a crash inside the second one leaves.
CONSTANTS
  MaxStepOps = 3
  Scenarios <- Chain
SPECIFICATION SuiteSpec
INVARIANT
  EveryUnitTorn
CHECK_DEADLOCK FALSE
