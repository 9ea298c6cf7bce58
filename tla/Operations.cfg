SPECIFICATION Spec
CONSTANTS
  cli = cli
  other = other
  Procs = {cli, other}
  Nobody = Nobody
  Commands <- MCCommands
  Programs <- MCPrograms
  Cells = {2, 3, 4}
  RawCell = 3
  Devices = {1}
  MaxWire = 2
INVARIANTS TypeOK OkMeansDone WritesAreAPrefix CrashIsExplained
PROPERTIES DeviceStateKept CommandsEnd ImplementsVariables
CHECK_DEADLOCK FALSE
