SPECIFICATION Spec
CONSTANTS
  Calls = {c1, c2, c3}
  NoCall = NoCall
  IdSpace = 2
  MaxWire = 1
INVARIANTS TypeOK OwnAnswer RegistryExact
PROPERTIES NoAnswerLost EveryCallReturns ImplementsRpc
CHECK_DEADLOCK FALSE
