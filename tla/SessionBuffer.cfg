SPECIFICATION SafeSpec
CONSTANT MaxConn = 2
INVARIANT BufferUnmixed
CHECK_DEADLOCK FALSE
