SPECIFICATION FairSpec
CONSTANTS
    r1 = r1
    r2 = r2
    c1 = c1
    c2 = c2
    Replicas = {r1, r2}
    NoHolder = NoHolder
    Ttl = 2
    Renew = 1
    Calls = {c1, c2}
INVARIANT NeverActsPastLease
PROPERTY KeepsLock
PROPERTY Failover
CHECK_DEADLOCK FALSE
