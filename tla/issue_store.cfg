SPECIFICATION Spec
CONSTANTS
  g = g
  d = d
  Issues = {g, d}
  Gates <- GateFirst
  Labelled = {d}
  MaxRequests = 1
INVARIANT CopiesRight
INVARIANT DecidedOnce
CHECK_DEADLOCK FALSE
