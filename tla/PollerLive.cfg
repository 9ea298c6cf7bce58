SPECIFICATION Spec
CONSTANTS
  ExtendedServed = {TRUE, FALSE}
  MaxPoller = 2
  MaxRestarts = 0
  MaxFailures = 2
  AdsStates <- RunAndConfig
PROPERTIES UnreachableIsReported StateIsFollowed
CHECK_DEADLOCK FALSE
