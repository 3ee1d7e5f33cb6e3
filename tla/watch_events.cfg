SPECIFICATION Spec
CONSTANTS
  Key = {"a", "b"}
  Value = {"v1", "v2", "v3", "v4"}
  Commands <- TxnCommands
  Filters <- AnyFilter
  MaxHistory = 2
  MaxRevision = 3
  MaxWatchId = 1
CHECK_DEADLOCK FALSE
INVARIANTS
  TypeOK
  DataFollowsEvents
  PrevIsTrue
  KeepsUp
  GapsToldButInTxn
  NoticeFirst
