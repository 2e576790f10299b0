SPECIFICATION Spec
CONSTANT MaxSpawns = 2
INVARIANT ScreenIsOwn
CHECK_DEADLOCK FALSE
