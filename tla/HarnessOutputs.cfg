SPECIFICATION Spec
CONSTANTS
  Attempts <- MCAttempts
  MaxAttempts = 2
  max_iterations = 2
  Bodies <- MCBodies
  None = None
INVARIANT WrittenAtomically
CHECK_DEADLOCK FALSE
