SPECIFICATION Spec
CONSTANTS
  Clients = {c1, c2}
  Users = {u1, u2}
  Requests = {t1, t2}
  ClientIp <- SharedIp
  AllowConcurrentPerUser = FALSE
  Failures = {"login", "build", "compositor", "session", "reconcile", "terminate", "ask"}
  MaxGen = 4
  MaxLaunches = 2
  Overlap = TRUE
SYMMETRY Symmetry
INVARIANTS
  TypeOK
  OneHome
  BackgroundIsTheUsers
  FramesReachTheAttachedClient
  AttachedOnlyAfterLogin
  AttachedIsRegistered
  SpawningHasOwner
CHECK_DEADLOCK FALSE
