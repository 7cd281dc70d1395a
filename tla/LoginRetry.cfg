SPECIFICATION Spec
CONSTANTS
  Identities = {alice}
  MaxAttempts = 1
  MaxCommands = 2
  MaxReplacements = 0
  MaxCrashes = 0
  MaxUpsets = 0
  Limits <- OneAtATime
PROPERTY RetriedIsStarted
CHECK_DEADLOCK FALSE
