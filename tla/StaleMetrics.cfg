SPECIFICATION Spec
CONSTANTS
    RunId = r1
    Threads = {t1, t2}
    Tasks = 3
    MaxRestarts = 1
    Threshold = 1
INVARIANT
    UploadCountedOnce
CHECK_DEADLOCK FALSE
