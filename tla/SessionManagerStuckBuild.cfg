SPECIFICATION Spec
CONSTANTS
  Clients = {c1}
  Users = {u1}
  Requests = {t1}
  ClientIp <- OwnIp
  AllowConcurrentPerUser = FALSE
  Failures = {"build"}
  MaxGen = 4
  MaxLaunches = 2
  Overlap = FALSE
INVARIANT
  Healthy
CHECK_DEADLOCK FALSE
