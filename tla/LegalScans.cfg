SPECIFICATION FairSpec
CONSTANTS
  Services = {s1, s2}
  Requestable = {s2}
  Limit = 1
  MaxVersions = 1
  MaxRequests = 1
  MaxFaults = 1
PROPERTIES
  JobsAreAnswered
  EveryServiceGetsItsTurn
CHECK_DEADLOCK FALSE
