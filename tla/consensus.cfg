SPECIFICATION MCSpec
CONSTANTS
    Producers = {"p1", "p2", "p3", "p4"}
    Repetitions = 1
    MaxTracked = 1024
    Initial <- Four
    MaxConfirm = 65535
    MaxSlot = 9
    Forks = 1
    Restarts = 1
INVARIANTS TypeOK ConfirmsOnce OneProposed NeverRefused HeadersGoOn KeepsUp
CHECK_DEADLOCK FALSE
