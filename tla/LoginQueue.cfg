\* Two authorizations of one account, a command to the queue, and a token replaced from
\* outside or a crash.
SPECIFICATION Spec
CONSTANTS
  Identities = {alice}
  MaxAttempts = 2
  MaxCommands = 1
  MaxReplacements = 1
  MaxCrashes = 1
  MaxUpsets = 1
  Limits <- OneOrTwo
INVARIANTS NothingStranded SlotsAreHeld
PROPERTIES KeepsPromise FailureSparesToken
CHECK_DEADLOCK FALSE
