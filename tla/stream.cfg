SPECIFICATION FairSpec
CONSTANTS
  task = task
  ReplayLimits = {1, 3}
  MaxFailures = 2
  MaxHides = 2
  MaxOpens = 2
INVARIANT TypeOK
INVARIANT ViewIsCommitted
INVARIANT NoEventSkipped
INVARIANT RestIsComplete
PROPERTY FinalViewStays
PROPERTY FollowedToTheEnd
CHECK_DEADLOCK FALSE
