SPECIFICATION Spec
CONSTANTS
  Identities = {alice}
  MaxAttempts = 2
  MaxCommands = 1
  MaxReplacements = 0
  MaxCrashes = 0
  MaxUpsets = 0
  Limits <- TwoAtATime
INVARIANT WithinLimit
CHECK_DEADLOCK FALSE
