SPECIFICATION SnapshotsSpec
INVARIANT SnapshotIsFinal
CHECK_DEADLOCK FALSE
