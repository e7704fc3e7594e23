SPECIFICATION Spec
CONSTANTS
    Tabs = {a}
    Calls = {c, d}
    NoOne = NoOne
    Nodes = 1
    MaxStarts = 1
    MaxTicks = 0
PROPERTY
    CallsAnswered
CHECK_DEADLOCK FALSE
