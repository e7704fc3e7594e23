SPECIFICATION Spec
CONSTANTS
    RunId = r1
    Threads = {t1, t2, t3}
    Tasks = 3
    MaxRestarts = 1
    Threshold = 1
INVARIANTS
    TypeOK
    HalfOpenIsProbe
    RefusedOnlyAfterRestart
    DeliveredIsCounted
PROPERTIES
    AttemptsSpaced
    SessionEnds
CHECK_DEADLOCK FALSE
