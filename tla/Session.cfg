SPECIFICATION Spec
CONSTANT MaxConn = 2
INVARIANT LossIsNoticed
PROPERTIES NewConnectionSurvives LossIsRepaired
CHECK_DEADLOCK FALSE
