SPECIFICATION FairSpec
CONSTANTS
  Clients = {c1, c2}
  Users = {u1, u2}
  Requests = {t1}
  ClientIp <- OwnIp
  AllowConcurrentPerUser = FALSE
  Failures = {"login", "terminate", "ask"}
  MaxGen = 4
  MaxLaunches = 2
  Overlap = FALSE
INVARIANTS
  NoDesktopLost
  OneDesktopPerUser
  RegistryIsExact
PROPERTIES
  SpawningEnds
  AcceptedLoginShowsDesktop
  ImplementsDesktops
CHECK_DEADLOCK FALSE
