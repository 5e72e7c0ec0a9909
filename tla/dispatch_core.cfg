\* Every event that leaves a claim to its worker; two issues share a workspace.
SPECIFICATION Spec
CONSTANTS
  i1 = i1
  i2 = i2
  i3 = i3
  p = p
  NoPath = NoPath
  None = None
  Issues = {i1, i2}
  Slots = {s1, s2}
  MaxRetries = 2
  Override <- SharedPath
  Rank <- IssueRank
  BlockedBy <- ThirdBlocked
  Ops = {"crash", "throw", "suggest", "pause", "cancel", "review"}
  StalePhases = {}
  MaxOps = 3
SYMMETRY SlotSymmetry
INVARIANT SoleWriter
INVARIANT WorkspaceExclusive
PROPERTY ImplementsLease
CHECK_DEADLOCK TRUE
