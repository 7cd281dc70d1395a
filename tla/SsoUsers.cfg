\* Two users, a second name for each, two handlers.
SPECIFICATION SmallSpec
CONSTANTS
  NumUsers = 2
  MaxIds = 2
  Variants = 1
  Handlers = {h1, h2}
  NumPlans = 1
  Limits <- OneOrNone
  MaxOps = 2
  MaxEdits = 2
SYMMETRY Symmetry
INVARIANTS TypeOK DeleteIsComplete SyncIsFaithful NothingOrphaned
PROPERTIES ImportKeepsBindings PlanAppliesOnce CreationWithinLimit
CHECK_DEADLOCK FALSE
