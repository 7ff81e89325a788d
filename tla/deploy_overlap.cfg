SPECIFICATION Spec
CONSTANTS
  d1 = d1
  d2 = d2
  d3 = d3
  s1 = s1
  NoRelease = NoRelease
  Deployment = {d1, d2}
  Seeded <- OneBefore
  Keep = 1
  HasMvT = TRUE
  OneProcess = TRUE
  Overlap = TRUE
  Triggers = {"api", "webhook", "rollback"}
  MaxCrashes = 1
CHECK_DEADLOCK FALSE
SYMMETRY Symmetry
INVARIANTS
  RowMatchesTask
  PrunedMeansGone
PROPERTIES
  ImplementsLifecycle
