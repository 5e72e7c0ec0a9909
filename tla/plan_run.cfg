\* One caller, two plan runs, one after the other or both at once, and two events.
SPECIFICATION FairSpec
CONSTANTS
  c1 = c1
  r1 = r1
  r2 = r2
  None = None
  Runs = {r1, r2}
  Callers = {c1}
  CallerOf <- OneCaller
  Subs = {k1}
  Operators = {"o1", "o2"}
  Ops = {"post", "approve", "reject", "delete", "sub", "suggest", "retrigger", "crash"}
  MaxOps = 2
INVARIANT RunningLawful
PROPERTY ImplementsCall
PROPERTY EndedStaysEnded
PROPERTY PlansEnd
PROPERTY WaitersWake
CHECK_DEADLOCK TRUE
