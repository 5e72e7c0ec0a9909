SPECIFICATION Spec
CONSTANTS
  Paths <- MCPaths
  Big <- MCBig
  Attempts = 2
  MaxOps = 2
  MaxEvents = 1
INVARIANT ArtifactsComplete
INVARIANT ContentOfAttempt
CHECK_DEADLOCK FALSE
