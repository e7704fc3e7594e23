SPECIFICATION Spec
CONSTANTS
    Tabs = {a}
    Calls = {c}
    NoOne = NoOne
    Nodes = 1
    MaxStarts = 2
    MaxTicks = 3
INVARIANT
    OneLoopTicks
CHECK_DEADLOCK FALSE
