SPECIFICATION Spec
CONSTANTS
  s1 = s1
  s2 = s2
  s3 = s3
  c1 = c1
  c2 = c2
  c3 = c3
  c4 = c4
  Server = {s1, s2}
  Command = {c1, c2}
  Awaited = {c1, c2}
  Stoppable = {s1, s2}
  Elections <- AnyInThreeTerms
  Submissions <- AnySubmission
  Heartbeats = {1, 2, 3}
  MaxQueue = 0
CHECK_DEADLOCK FALSE
INVARIANTS
  ElectionInv
  MatchingInv
  PairInv
  StateMachineSafety
  LeaderCompleteness
  MatchIndexSound
  AnsweredIsDurable
PROPERTIES
  CommittedStable
  ImplementsReplicatedLog
