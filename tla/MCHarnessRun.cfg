SPECIFICATION FairSpec
CONSTANTS
  Attempts <- MCAttempts
  MaxAttempts = 2
  max_iterations = 2
  Bodies <- MCBodies
  None = None
INVARIANT TypeOK
INVARIANT UpstreamIsCapsuleAndAudited
INVARIANT LogTellsTheStory
INVARIANT SuccessIsWhole
INVARIANT TraceMatchesAudit
PROPERTY HandlersEnd
PROPERTY RunsReturn
CHECK_DEADLOCK FALSE
