\* Two requests for an identity nobody knows, on two pods, and no failure: the counterexample to
\* InitializedOnce.
SPECIFICATION LeaseSpec
CONSTANTS
  Requests = {r1, r2}
  Pods = {p1, p2}
  Drivers = {"sqlite", "mysql"}
  Lease = 2
  MaxFailures = 0
  MaxPodCrashes = 0
INVARIANT InitializedOnce
CHECK_DEADLOCK FALSE
