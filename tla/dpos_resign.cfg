SPECIFICATION RestartingSpec
INVARIANT NoDoubleConfirm
CHECK_DEADLOCK FALSE
