SPECIFICATION Spec
CONSTANTS
  HeadLimit = 2
  TailLimit = 3
  MaxCount = 3
  MaxBytes = 4
  MaxInvocations = 3
  PlanPairs <- MCPlanPairs
  StepLists <- MCStepLists
  SchemaInputs <- MCSchemaInputs
  Issues <- MCIssues
  Rehearsals <- MCRehearsals
  StubSchemas <- MCStubSchemas
  AgentChoices <- MCAgentChoices
  Databases <- MCDatabases
  Lives <- MCLives
  Bounds = {1, 3}
  Streams <- MCStreams
  Logs <- MCLogs
  Outputs <- MCOutputs
INVARIANT DiffFaithful
INVARIANT LayersRight
INVARIANT SchemaJudged
INVARIANT PromptTells
INVARIANT ViewsRight
INVARIANT MetricsTrue
INVARIANT OutputKept
CHECK_DEADLOCK FALSE
