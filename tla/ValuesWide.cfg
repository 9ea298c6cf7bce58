SPECIFICATION Spec
CONSTANTS
  ByteValues = 8
  Coarse = 2
  MaxDownloads = 0
  Table <- MCTable
  Variables <- WideVariables
  Symbols <- MCSymbols
  Tables <- MCTables
  Declarations = {}
  Notifications = {}
  Inputs <- MCInputs
INVARIANT WrittenReadsBack
CHECK_DEADLOCK FALSE
