SPECIFICATION FairSpec
CONSTANTS
  MaxAttempt = 2
  p1 = p1
  p2 = p2
  Polls = {p1, p2}
  Limits <- OneOfThree
INVARIANT NoLogGap
PROPERTY Converges
PROPERTY LogShown
CHECK_DEADLOCK FALSE
