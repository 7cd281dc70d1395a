SPECIFICATION Spec
CONSTANTS
  Identities = {alice}
  MaxAttempts = 1
  MaxCommands = 0
  MaxReplacements = 0
  MaxCrashes = 1
  MaxUpsets = 1
  Limits <- OneAtATime
INVARIANT FailureIsReported
CHECK_DEADLOCK FALSE
