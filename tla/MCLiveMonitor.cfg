SPECIFICATION Spec
CONSTANTS
    Tabs = {a}
    Calls = {c, d}
    NoOne = NoOne
    Nodes = 1
    MaxStarts = 2
    MaxTicks = 2
INVARIANTS
    TypeOK
    StatsAddUp
PROPERTIES
    LoopsEnd
    StopReturns
CHECK_DEADLOCK FALSE
