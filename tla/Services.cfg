\* Two authorizations in a queue of one slot, a command and a crash; two requests, two pods, two
\* failures and a crash; every page and both providers; every body and answer listed.
SPECIFICATION ServicesSpec
CONSTANTS
  Identities = {alice}
  MaxAttempts = 2
  MaxCommands = 1
  MaxReplacements = 0
  MaxCrashes = 1
  MaxUpsets = 1
  Limits <- OneAtATime
  Requests = {r1, r2}
  Pods = {p1, p2}
  Drivers = {"sqlite", "mysql"}
  Lease = 2
  MaxFailures = 2
  MaxPodCrashes = 1
  Sites = {"orderly", "any"}
  Intervals = {1, 5}
  ExpiresIn = 12
  Bodies <- BodiesTried
  Turns <- TurnsTried
  MaxMessages = 5
  Answers <- AnswersTried
INVARIANTS StateIsSound LeaseExcludes FlowIsSound RequestIsSound NothingSaidIsLost DeliveredExactly UsageIsWhole CountedOnce
PROPERTIES PrefixKept QueuedIsServed IdentityIsInitialized EveryLoginEnds
CHECK_DEADLOCK FALSE
