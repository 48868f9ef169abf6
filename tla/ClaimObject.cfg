SPECIFICATION Spec
CONSTANTS
  QueueSize = 2
  MaxConnects = 1
  MaxDiscs = 0
  MaxDrops = 0
INVARIANTS
  FreedIsUnused
CHECK_DEADLOCK FALSE
