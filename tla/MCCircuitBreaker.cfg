SPECIFICATION Spec
CONSTANTS
    Callers = {c1, c2, c3}
    Threshold = 3
    Timeout = 2
    NoTime = NoTime
    MaxLag = 1
    MaxFailures = 5
INVARIANTS
    TypeOK
    ProbeOutstanding
    ClosedBelowThreshold
PROPERTIES
    QuietWhileOpen
    Recovers
