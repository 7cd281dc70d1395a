\* Three possible members of two weights on a pool that cools at the first failure.
SPECIFICATION Spec
CONSTANTS
  a = a
  b = b
  c = c
  s1 = s1
  s2 = s2
  Identities = {a, b, c}
  Sessions = {s1, s2}
  ListOrder <- ListOrderOf
  LocaleOrder <- LocaleOrderOf
  Base <- BaseOf
  Bucket <- BucketOf
  Second = 2
  PoolName = gateway
  Requests = {r1}
  Routes = {"forward"}
  Settings <- StrictPool
  Weights = {1, 2}
  Roster = {a, b}
  MaxClock = 3
  MaxEdits = 1
INVARIANTS RetryAfterIsTight
PROPERTIES MinimalRemap
CHECK_DEADLOCK FALSE
