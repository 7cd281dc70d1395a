\* Two overlapping requests on any route and strategy, one operation of the operator, one tick.
SPECIFICATION Spec
CONSTANTS
  a = a
  b = b
  c = c
  s1 = s1
  s2 = s2
  Identities = {a, b}
  Sessions = {s1}
  ListOrder <- ListOrderOf
  LocaleOrder <- LocaleOrderOf
  Base <- BaseOf
  Bucket <- BucketOf
  Second = 1
  PoolName = gateway
  Requests = {r1, r2}
  Routes = {"forward", "count", "models"}
  Settings <- ServingPools
  Weights = {1}
  Roster = {a, b}
  MaxClock = 2
  MaxEdits = 1
SYMMETRY Interchangeable
INVARIANTS TypeOK ServesOnlyUsable NoFalseRefusal
PROPERTIES RequestsRespectRoster OnlyRejectedTokenRetired
CHECK_DEADLOCK FALSE
