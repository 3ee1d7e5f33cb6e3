SPECIFICATION Spec
CONSTANTS
  Key = {"a", "b"}
  Value = {"v1", "v2", "v3", "v4"}
  Commands <- TwoPuts
  Filters <- BothKeys
  MaxHistory = 3
  MaxRevision = 2
  MaxWatchId = 1
CHECK_DEADLOCK FALSE
INVARIANTS
  NoSilentGap
