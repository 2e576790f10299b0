SPECIFICATION Spec
CONSTANTS
  Clients = {c1, c2}
  Users = {u1}
  Requests = {t1}
  ClientIp <- OwnIp
  AllowConcurrentPerUser = FALSE
  Failures = {}
  MaxGen = 4
  MaxLaunches = 2
  Overlap = TRUE
INVARIANT
  OneDesktopPerUser
CHECK_DEADLOCK FALSE
