SPECIFICATION Spec
CONSTANTS
    r1 = r1
    r2 = r2
    w1 = w1
    w2 = w2
    w3 = w3
    j1 = j1
    j2 = j2
    j3 = j3
    Jobs = {j1, j2, j3}
    NoJob = NoJob
    Runners = {r1, r2}
    NoRunner = NoRunner
    Pool = Pool
    Workers = {w1, w2}
    RunnerOf <- MCOneRunner
    QueueOf <- MCOwnAndPool
    Capable <- MCMismatch
    LeaseTtl = 0
    QueueTimeout = 0
    MaxWaiting = 1
    MaxEpoch = 2
INVARIANT ParkedBounded
PROPERTY KeepsContract
