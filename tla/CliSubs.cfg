SPECIFICATION Spec
CONSTANTS
  MaxID = 3
  MaxHandle = 3
  MaxSamples = 2
  MaxRestart = 1
  AllNames = 2
INVARIANTS TypeOK ListedIsRouted AllCounted NothingOrphaned
