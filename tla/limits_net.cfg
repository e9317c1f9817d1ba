SPECIFICATION ChargingSpec
INVARIANT NeverFails
CHECK_DEADLOCK FALSE
