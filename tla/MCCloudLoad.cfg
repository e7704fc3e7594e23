SPECIFICATION Spec
CONSTANTS
    MaxInflight = 2
    ServiceMs = 4
    EdgeMs <- MCEdgeMs
    NetMs <- MCNetMs
    Signals <- MCSignals
    CloudWeight = 5
    Samples = 6
INVARIANTS
    TypeOK
    SummaryAddsUp
    NoIdleServer
    FirstComeFirstServed
PROPERTIES
    QueuedIsWorthIt
CHECK_DEADLOCK FALSE
