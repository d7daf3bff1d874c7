SPECIFICATION Spec
CONSTANTS
    r1 = r1
    r2 = r2
    w1 = w1
    w2 = w2
    w3 = w3
    j1 = j1
    j2 = j2
    Jobs = {j1}
    NoJob = NoJob
    Runners = {r1, r2}
    NoRunner = NoRunner
    Pool = Pool
    Workers = {w1, w2, w3}
    RunnerOf <- MCThreeWorkers
    QueueOf <- MCPoolOnly
    Capable <- MCCapable
    LeaseTtl = 1
    QueueTimeout = 2
    MaxEpoch = 3
    MaxLag = 1
INVARIANT TypeOK
INVARIANT TokensDistinct
INVARIANT OneLiveAttempt
INVARIANT ResultAttribution
PROPERTY OutcomeFrozen
PROPERTY CancelSticks
PROPERTY OnlyHolderRenews
PROPERTY KeepsContract
