SPECIFICATION Spec
CONSTANTS
    Threads = {t1, t2}
    Nodes = {n1, n2}
    NoNode = NoNode
    Configs <- MCConfigs
    MaxInflight = 2
    ParseRetry = 1
    MaxCalls = 2
SYMMETRY Symmetry
INVARIANTS
    TypeOK
    InflightIsUploads
    CallsBooked
    BlackoutStaysLocal
PROPERTIES
    GuardedByPrompt
CHECK_DEADLOCK FALSE
