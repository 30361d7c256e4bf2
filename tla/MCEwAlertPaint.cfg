SPECIFICATION Spec
CONSTANTS
  dead = dead
  ok = ok
  Links <- TwoLinks
  NoLink = dead
  TopLevel = 2
  EventCap = 2
  TickEvents = 2
  MaxId = 3
INVARIANTS
  FrameShowsRadar
CHECK_DEADLOCK FALSE
