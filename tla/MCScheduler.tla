---------------------------- MODULE MCScheduler ----------------------------
(***************************************************************************)
(* Instances of Scheduler for TLC: one backend, a tenant t1 with a quota   *)
(* and a tenant t2 without one.                                            *)
(***************************************************************************)
EXTENDS Scheduler, TLC

CONSTANTS r1, r2, t1, t2, b1, j1, j2, j4

\* j2 is dispatched on r2 if there is such a replica, every other job on r1.
MCReplicaOf == [j \in Jobs |-> IF j = j2 /\ r2 \in Replicas THEN r2 ELSE r1]
\* j4 belongs to the tenant without a quota.
MCTenantOf == [j \in Jobs |-> IF j = j4 THEN t2 ELSE t1]
\* The tenant with a quota runs on its own runtime, the other one anywhere.
MCPin == [j \in Jobs |-> IF j = j4 THEN NoBackend ELSE b1]
MCTenantMaxQueue == [t \in Tenants |-> 1]
MCTotal == [b \in Backends |-> 1]
MCQuota == [t \in Limited |-> 1]
=============================================================================
