SPECIFICATION Spec
CONSTANTS
  Calls = {c1, c2}
  NoCall = NoCall
  IdSpace = 4
  MaxWire = 1
PROPERTY ReceiverMovesOn
CHECK_DEADLOCK FALSE
