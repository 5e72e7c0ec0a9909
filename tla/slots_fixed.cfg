\* A constant limit of 3 and five runs.
SPECIFICATION SlotsSpec
CONSTANTS
  Runs = {i1, i2, i3, i4, i5}
  EnvLimit = 2
  Limits <- FixedLimit
INVARIANT SlotsConserved
INVARIANT NoParkedRun
CHECK_DEADLOCK TRUE
