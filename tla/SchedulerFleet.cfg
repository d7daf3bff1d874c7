SPECIFICATION Spec
CONSTANTS
    r1 = r1
    r2 = r2
    t1 = t1
    t2 = t2
    b1 = b1
    j1 = j1
    j2 = j2
    j4 = j4
    Replicas = {r1, r2}
    Jobs = {j1, j2, j4}
    NoJob = NoJob
    Tenants = {t1, t2}
    Backends = {b1}
    NoBackend = NoBackend
    ReplicaOf <- MCReplicaOf
    TenantOf <- MCTenantOf
    Pin <- MCPin
    Retirable = {b1}
    Total <- MCTotal
    Limited = {t1}
    Quota <- MCQuota
    MaxQueue = 2
    TenantMaxQueue <- MCTenantMaxQueue
    Lease = 1
    Renew = 1
    Faults = TRUE
INVARIANT PermitsConserved
INVARIANT QuotaHeld
INVARIANT SlotsRespected
PROPERTY AnsweredOnce
PROPERTY KeepsPool
CHECK_DEADLOCK FALSE
