SPECIFICATION Spec
CONSTANTS
  agent = agent
  page = page
  c1 = c1
  c2 = c2
  Publishers <- BothPublishers
  Consumers <- BothConsumers
  Events = {1, 2}
  Failing <- BelowRequest
  MaxTries = 3
  MaxFaults = 2
  MaxCrashes = 1
SYMMETRY Symmetry
INVARIANTS
  TypeOK
  AppliedAtMostOnce
  AckIsTrue
  NoRequestLost
CHECK_DEADLOCK FALSE
PROPERTIES
  ImplementsSlot
