SPECIFICATION Spec
CONSTANTS
    Nodes <- MCNodes
    Confidences <- MCConfidences
    Tasks = 2
INVARIANTS
    TypeOK
    VoteDecides
    EveryNodeHeard
    UnsureNeverPassed
    CountsAddUp
PROPERTIES
    SessionDone
CHECK_DEADLOCK FALSE
