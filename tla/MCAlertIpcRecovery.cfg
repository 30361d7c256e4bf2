SPECIFICATION Spec
CONSTANTS
  agent = agent
  page = page
  c1 = c1
  c2 = c2
  Publishers <- BothPublishers
  Consumers <- OneConsumer
  Events = {1, 2}
  Failing <- AnyKind
  MaxTries = 2
  MaxFaults = 0
  MaxCrashes = 1
PROPERTIES
  RecoveryFreesSlot
CHECK_DEADLOCK FALSE
