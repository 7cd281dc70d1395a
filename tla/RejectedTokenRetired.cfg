\* The counterexample to RejectedTokenRetired: no operator takes part.
SPECIFICATION Spec
CONSTANTS
  a = a
  b = b
  c = c
  s1 = s1
  s2 = s2
  Identities = {a, b}
  Sessions = {s1}
  ListOrder <- ListOrderOf
  LocaleOrder <- LocaleOrderOf
  Base <- BaseOf
  Bucket <- BucketOf
  Second = 1
  PoolName = gateway
  Requests = {r1, r2}
  Routes = {"forward"}
  Settings <- StickyPool
  Weights = {1}
  Roster = {a, b}
  MaxClock = 2
  MaxEdits = 0
SYMMETRY Interchangeable

CHECK_DEADLOCK FALSE
INVARIANT RejectedTokenRetired
