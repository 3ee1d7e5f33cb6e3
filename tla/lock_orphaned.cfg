SPECIFICATION FairLockSpec
CONSTANTS
  s1 = s1
  s2 = s2
  u1 = u1
  u2 = u2
  Server = {s1, s2}
  Client = {u1}
  Watcher = {}
  Lock = "lock"
  Appliers = {s1}
  Requests = {}
  Mortal <- FirstLease
  MaxCalls = 1
  MaxPending = 2
  MaxExpiries = 1
  MaxRenewals = 1
  MaxChanges = 0
CHECK_DEADLOCK FALSE
PROPERTIES
  LockFreed
