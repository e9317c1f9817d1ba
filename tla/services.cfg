SPECIFICATION MCSpec
INVARIANTS
  ServicesTypeOK KeepsGoing DoneOnce NothingLost
PROPERTIES IdleLocks
CHECK_DEADLOCK FALSE
