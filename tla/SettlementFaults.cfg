CONSTANTS
    c1 = c1
    c2 = c2
    Cases = {c1}
    MaxEpoch = 1
    Faults = {"prove", "create", "commit", "adopt", "settle", "replan"}
SPECIFICATION FairSpec
INVARIANT OneAnswer
PROPERTY DriverEnds
CHECK_DEADLOCK FALSE
