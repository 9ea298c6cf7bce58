SPECIFICATION Spec
CONSTANTS
  Subs = {s1, s2}
  NoSub = NoSub
  MaxHandle = 2
  MaxSamples = 1
  MaxUnsubs = 2
  HandlesAnew = FALSE
  MaxEpoch = 1
INVARIANTS TypeOK RightCallback NothingLeftBehind ActiveIsMapped
PROPERTIES OnlyEarlySamplesAreDropped SamplesReachCallback
CHECK_DEADLOCK FALSE
