SPECIFICATION Spec
CONSTANTS
  Instants <- SomeInstants
  Deltas <- SomeDeltas
  Jitters <- SomeJitters
  Windows <- SomeWindows
  Zones <- SomeZones
  Grain = 3600
INVARIANTS
  DelayRespected
  DueInWindow
  NoLongWait
CHECK_DEADLOCK FALSE
