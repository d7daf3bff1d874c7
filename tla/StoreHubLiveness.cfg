SPECIFICATION FairSpec
CONSTANTS
    r1 = r1
    r2 = r2
    w1 = w1
    w2 = w2
    w3 = w3
    j1 = j1
    j2 = j2
    Jobs = {j1, j2}
    NoJob = NoJob
    Runners = {r1}
    NoRunner = NoRunner
    Pool = Pool
    Workers = {w1}
    RunnerOf <- MCOneRunner
    QueueOf <- MCOwnAndPool
    Capable <- MCOnlyJ1
    LeaseTtl = 0
    QueueTimeout = 1
    MaxEpoch = 3
    MaxLag = 1
PROPERTY DispatchAnswered
PROPERTY CancelTerminates
