SPECIFICATION FairSpec
CONSTANTS
    r1 = r1
    r2 = r2
    Replicas = {r1, r2}
    Last = 2
    Consumers = 2
    Wants <- MCWants
    Batch = 2
    MaxAttempts = 2
INVARIANT TypeOK
INVARIANT NothingLeftBehind
PROPERTY CatchesUp
