SPECIFICATION Spec
CONSTANTS
  ByteValues = 8
  Coarse = 2
  MaxDownloads = 2
  Table <- MCTable
  Variables <- MCVariables
  Symbols <- MCSymbols
  Tables <- MCTables
  Declarations <- MCDeclarations
  Notifications <- MCNotifications
  Inputs <- MCInputs
INVARIANTS ReadsTheLayout WritesWhatWasGiven RefusesWhatDoesNotFit DeclarationsParsed AnswersParsed
CHECK_DEADLOCK FALSE
