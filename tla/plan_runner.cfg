SPECIFICATION FairSpec
CONSTANTS
  a = a
  b = b
  c = c
  p = p
  q = q
  Calls = {a, b, c}
  Phases = {p, q}
  Scripts <- MCScripts
  MaxRetries = 1
  MaxSubs = 5
  MaxFaults = 2
  MaxCrashes = 1
  NoKey = NoKey
  None = None
INVARIANT OwnResult
PROPERTY NoRedo
PROPERTY PollsEnd
CHECK_DEADLOCK FALSE
