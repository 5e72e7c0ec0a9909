\* Progress of three issues on one slot: i1 and i2 share a workspace, i3 waits for i1.
SPECIFICATION FairSpec
CONSTANTS
  i1 = i1
  i2 = i2
  i3 = i3
  p = p
  NoPath = NoPath
  None = None
  Issues = {i1, i2, i3}
  Slots = {s1}
  MaxRetries = 1
  Override <- SharedPath
  Rank <- IssueRank
  BlockedBy <- ThirdBlocked
  Ops = {"crash", "throw", "suggest"}
  StalePhases = {}
  MaxOps = 1
INVARIANT NoSpuriousDispatch
PROPERTY ClaimsEnd
PROPERTY RetriesRun
PROPERTY NoStarvation
CHECK_DEADLOCK TRUE
