SPECIFICATION Spec
CONSTANTS
  Clients = {c1, c2}
  MaxLaunches = 2
  MaxWindows = 2
  MaxQueue = 2
  MaxTasks = 1
INVARIANTS
  TypeOK
  FramesGoToTheirClient
  FramesReassemble
  AudioGroupsRecover
  BitrateSettles
PROPERTIES
  PlayedWindowGetsPicture
CHECK_DEADLOCK FALSE
