\* One cause, four attempts, any two tool calls and one event from outside.
SPECIFICATION FairSpec
CONSTANTS
  c1 = c1
  Causes = {c1}
  NoCause = NoCause
  Budget = 1
  MaxRetries = 3
  Threshold = 2
  MaxCalls = 2
  MaxOps = 1
INVARIANT RetryLawful
INVARIANT SuccessEarned
PROPERTY ComesToRest
CHECK_DEADLOCK TRUE
