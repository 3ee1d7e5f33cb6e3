SPECIFICATION Spec
CONSTANTS
  s1 = s1
  s2 = s2
  s3 = s3
  u1 = u1
  u2 = u2
  Server = {s1, s2}
  Client = {u1}
  Appliers = {s1, s2}
  Requests <- LeaseRequests
  Mortal <- OneLease
  MaxCalls = 3
  MaxPending = 9
  MaxExpiries = 1
  MaxChanges = 1
CHECK_DEADLOCK FALSE
SYMMETRY Symmetry
INVARIANTS
  TypeOK
  ReplicasAgree
  LeasesListOwnKeys
  AnswersOwnCommand
  OthersAnswerMeansLost
