SPECIFICATION SafeSpec
CONSTANTS
  ExtendedServed = {TRUE}
  MaxPoller = 3
  MaxRestarts = 1
  MaxFailures = 1
  AdsStates <- RunOnly
INVARIANTS TypeOK OneTimer NoSilentStop LimitIsActedOn
CHECK_DEADLOCK FALSE
