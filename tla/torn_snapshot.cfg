SPECIFICATION FairSpec
CONSTANTS
  task = task
  ReplayLimits = {3}
  MaxFailures = 0
  MaxHides = 0
  MaxOpens = 1
PROPERTY AuthoritativeInTheEnd
CHECK_DEADLOCK FALSE
