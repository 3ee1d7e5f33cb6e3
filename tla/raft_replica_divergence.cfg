SPECIFICATION Spec
CONSTANTS
  s1 = s1
  s2 = s2
  s3 = s3
  c1 = c1
  c2 = c2
  c3 = c3
  c4 = c4
  Server = {s1, s2, s3}
  Command = {c1, c2, c3}
  Awaited = {}
  Stoppable = {}
  Elections <- TakingTurns
  Submissions <- OneEach
  Heartbeats = {2}
  MaxQueue = 0
CHECK_DEADLOCK FALSE
INVARIANTS
  StateMachineSafety
