SPECIFICATION FairSpec
CONSTANTS
  MaxAttempt = 1
  MaxCrashes = 1
  MaxMishaps = 1
  Timeout = 2
  Buffer = 4
  FilesMax = 1
  Escalation = 2
  StopWait = 2
  Grace = 1
  None = None
INVARIANT TokenOutlivesAgent
INVARIANT NoUnattendedAgent
INVARIANT OwnReports
PROPERTY WorkerEnds
PROPERTY ShutdownEnds
CHECK_DEADLOCK FALSE
