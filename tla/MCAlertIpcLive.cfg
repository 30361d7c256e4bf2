SPECIFICATION FairSpec
CONSTANTS
  agent = agent
  page = page
  c1 = c1
  c2 = c2
  Publishers <- BothPublishers
  Consumers <- OneConsumer
  Events = {1, 2}
  Failing <- Repairable
  MaxTries = 3
  MaxFaults = 3
  MaxCrashes = 0
PROPERTIES
  EventuallyAnswered
CHECK_DEADLOCK FALSE
