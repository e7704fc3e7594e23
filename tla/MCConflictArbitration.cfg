SPECIFICATION Spec
CONSTANTS
    Nodes = {n1, n2, n3, n4}
    Scores = {2, 4, 9}
    Threshold = 4
    Arbiters = {"vlm", "vote"}
    Signals <- MCSignals
    ConflictWeight = 4
    Confidences = {5, 6}
    MinCloudConf = 6
    Samples = 2
INVARIANTS
    SummaryAgrees
    OverruledByTrustedOnly
CHECK_DEADLOCK FALSE
