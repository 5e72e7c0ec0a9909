\* Everything that can happen to one issue, zombies included.
SPECIFICATION Spec
CONSTANTS
  i1 = i1
  i2 = i2
  i3 = i3
  p = p
  NoPath = NoPath
  None = None
  Issues = {i1}
  Slots = {s1, s2}
  MaxRetries = 1
  Override <- SharedPath
  Rank <- IssueRank
  BlockedBy <- ThirdBlocked
  Ops = {"age", "crash", "throw", "suggest", "retrigger", "resume", "pause", "cancel", "review", "put"}
  StalePhases = {"prep", "running", "post"}
  MaxOps = 3
SYMMETRY SlotSymmetry
INVARIANT ClaimHasWorker
CHECK_DEADLOCK TRUE
