SPECIFICATION Spec
CONSTANTS
  Clients = {c1}
  Users = {u1}
  Requests = {t1}
  ClientIp <- OwnIp
  AllowConcurrentPerUser = FALSE
  Failures = {}
  MaxGen = 4
  MaxLaunches = 2
  Overlap = FALSE
INVARIANT
  DesktopIsWatched
CHECK_DEADLOCK FALSE
