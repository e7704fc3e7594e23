SPECIFICATION Spec
CONSTANTS
    RunIds = {r1, r2}
    Threads = {t1, t2, t3}
    Sizes <- MCSizes
    MaxRequests = 2
    MaxRestarts = 1
INVARIANTS
    TypeOK
    InFlightExact
    FinishedIsComplete
    ReportsAgree
PROPERTIES
    CountersOnlyGrow
    ImplementsLedger
    FinishAnswered
