SPECIFICATION Spec
CONSTANTS
  Stream <- MCStream
  Start <- MCStart
  Sent <- MCSent
  Chunk = 48
  Word = 1073741824
INVARIANTS TypeOK OutIsSent NothingHeldBack
CHECK_DEADLOCK FALSE
