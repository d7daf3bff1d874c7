------------------------------ MODULE Scheduler ------------------------------
(***************************************************************************)
(* The capacity-aware dispatch scheduler of each control-plane replica     *)
(* (Scheduler, with its Admission counters) and the admission ledger they  *)
(* share (PgRunStore.tryAdmit, renewAdmissions, releaseAdmission).         *)
(*                                                                         *)
(* A replica runs on one thread.  Its pump gives the thread up where it    *)
(* awaits: the capacity probe, the fleet reading, the harness-room check   *)
(* and the ledger call.  Between two awaits it is in "scan", where no      *)
(* other event of the same replica can happen.                             *)
(*                                                                         *)
(* Of the three capacity axes the slots are kept (memory and CPU follow    *)
(* the same fold), and the scan order of a round (weighted fair queueing,  *)
(* urgency, promotion) is left open.  No harness-keyed pool is modelled,   *)
(* but the await of its check is (the backends asked for an unpinned job   *)
(* answer before any of them is unregistered).  Neither shipped            *)
(* composition gives the scheduler a budget tracker, so its calls do       *)
(* nothing.                                                                *)
(***************************************************************************)
EXTENDS Naturals, FiniteSets

CONSTANTS Replicas, Jobs, NoJob, Tenants, Backends, NoBackend,
          ReplicaOf,      \* the replica a job is dispatched on
          TenantOf,
          Pin,            \* Pin[j]: its placement target, NoBackend for any
          Retirable,      \* backends built for a tenant's runtime or a runner, not global ones
          Total,          \* Total[b]: the slots of a backend
          Limited,        \* the tenants with a finite quota
          Quota,          \* Quota[t]: their quota
          MaxQueue,       \* maxQueueDepth
          TenantMaxQueue, \* tenantMaxQueueDepth
          Lease, Renew,   \* the ledger's lease window and the renewal interval, in ticks
          Faults          \* whether probes, ledger calls and replicas fail

ASSUME SchedulerAssumption ==
    /\ IsFiniteSet(Jobs) /\ NoJob \notin Jobs /\ NoBackend \notin Backends
    /\ ReplicaOf \in [Jobs -> Replicas] /\ TenantOf \in [Jobs -> Tenants]
    /\ Pin \in [Jobs -> Backends \cup {NoBackend}] /\ Retirable \subseteq Backends
    /\ Total \in [Backends -> Nat] /\ TenantMaxQueue \in [Tenants -> Nat]
    /\ Limited \subseteq Tenants /\ Quota \in [Limited -> Nat]
    /\ MaxQueue \in Nat /\ Lease \in Nat /\ Renew \in Nat \ {0}
    /\ Faults \in BOOLEAN

VARIABLES
    job,        \* job[j]: where its dispatch stands, and the backend it runs on
    registry,   \* registry[r]: the backends registered in the replica
    pump,       \* pump[r]: the replica's pump, with what it read
    asked,      \* jobs whose entry has a permitId
    live,       \* live[r]: livePermits, the permits the replica renews
    beat,       \* beat[r]: ticks since its renewal timer last fired
    permit,     \* permit[j]: the age of the permit's row in everdict_tenant_admissions
    counter,    \* counter[t]: in_flight of the tenant's counter row
    releasing,  \* releaseAdmission calls on their way
    reaped      \* permits whose row a lapsed lease cost them

vars == <<job, registry, pump, asked, live, beat, permit, counter, releasing, reaped>>

Answered == {"settling", "done", "cancelled", "rejected", "rate_limited", "lost"}
Job == [st : {"new", "queued", "running"} \cup Answered, on : Backends \cup {NoBackend}]

NoRow == Lease + 2                     \* "there is no row"
Lapsed(j) == permit[j] = Lease + 1     \* ages beyond the lease are not told apart
HasRow(j) == permit[j] # NoRow

Pump == [pc : {"idle", "probe", "fleet", "scan", "room", "reap", "claim", "granted", "refused"},
         cur : Jobs \cup {NoJob},             \* the entry it is placing
         on : Backends \cup {NoBackend},      \* where
         todo : SUBSET Jobs,                  \* the rest of the round's scan
         placed : BOOLEAN,                    \* placedAny
         used : [Backends -> Nat],            \* the capacity probe of the drain
         free : [Backends -> Nat],            \* the slots of the round
         seen : [Tenants -> Nat],             \* the fleet reading of the drain
         base : [Tenants -> Nat]]             \* and the local counts when it was taken
Resting == [pc |-> "idle", cur |-> NoJob, on |-> NoBackend, todo |-> {}, placed |-> FALSE,
            used |-> [b \in Backends |-> 0], free |-> [b \in Backends |-> 0],
            seen |-> [t \in Tenants |-> 0], base |-> [t \in Tenants |-> 0]]

Init ==
    /\ job = [j \in Jobs |-> [st |-> "new", on |-> NoBackend]]
    /\ registry = [r \in Replicas |-> Backends \ Retirable]
    /\ pump = [r \in Replicas |-> Resting]
    /\ asked = {}
    /\ live = [r \in Replicas |-> {}]
    /\ beat = [r \in Replicas |-> 0]
    /\ permit = [j \in Jobs |-> NoRow]
    /\ counter = [t \in Tenants |-> 0]
    /\ releasing = {}
    /\ reaped = {}

-----------------------------------------------------------------------------
(* The queue and the Admission counters, read off the jobs.                *)

Queue(jb, r) == {j \in Jobs : ReplicaOf[j] = r /\ jb[j].st = "queued"}
Running(jb, r) == {j \in Jobs : ReplicaOf[j] = r /\ jb[j].st = "running"}
RunningOf(jb, t) == {j \in Jobs : TenantOf[j] = t /\ jb[j].st = "running"}
countFor(jb, r, b) == Cardinality({j \in Running(jb, r) : jb[j].on = b})
tenantCountFor(jb, r, t) == Cardinality(Running(jb, r) \cap RunningOf(jb, t))
IsLimited(j) == TenantOf[j] \in Limited

Less(n, k) == IF n > k THEN n - k ELSE 0      \* Math.max(0, n - k), greatest(0, n - k)

\* The pump may be interrupted only where it awaits.
Yields(r) == pump[r].pc # "scan"

\* pump(): the reentrancy guard, and no probe for an empty queue.
Woken(p, jb, r) == IF p.pc = "idle" /\ Queue(jb, r) # {} THEN [p EXCEPT !.pc = "probe"] ELSE p

-----------------------------------------------------------------------------
(* dispatch(), the end of a run, and the ways out of the queue.            *)

\* dispatch(): an aborted signal or a full queue answers at once; else the job is
\* queued and the pump called.  RuntimeDispatcher has just registered the backend of
\* its target, if that was missing.
QueueFull(j) ==
    LET waiting == Queue(job, ReplicaOf[j])
    IN \/ Cardinality(waiting) >= MaxQueue
       \/ Cardinality({k \in waiting : TenantOf[k] = TenantOf[j]}) >= TenantMaxQueue[TenantOf[j]]

Dispatch(j) ==
    LET r == ReplicaOf[j]
        queued == [job EXCEPT ![j].st = "queued"]
    IN /\ job[j].st = "new" /\ Yields(r)
       /\ registry' = [registry EXCEPT ![r] = @ \cup ({Pin[j]} \cap Retirable)]
       /\ \/ /\ job' = [job EXCEPT ![j].st = "cancelled"]
             /\ UNCHANGED pump
          \/ /\ QueueFull(j)
             /\ job' = [job EXCEPT ![j].st = "rate_limited"]
             /\ UNCHANGED pump
          \/ /\ ~QueueFull(j)
             /\ job' = queued
             /\ pump' = [pump EXCEPT ![r] = Woken(@, queued, r)]
       /\ UNCHANGED <<asked, live, beat, permit, counter, releasing, reaped>>

\* A workspace secret changed or a runner was revoked: invalidateTenant() and
\* unregisterSelfRunnerBackend() drop the backend whatever is queued for it.
Unregister(r, b) ==
    /\ b \in registry[r] \cap Retirable /\ Yields(r)
    /\ registry' = [registry EXCEPT ![r] = @ \ {b}]
    /\ UNCHANGED <<job, pump, asked, live, beat, permit, counter, releasing, reaped>>

\* dropPermit() and the releaseAdmission() call, for the entries that have a permitId.
Returned(S) == /\ live' = [r \in Replicas |-> live[r] \ (S \cap asked)]
               /\ releasing' = releasing \cup (S \cap asked)

\* runOne()'s finally: the slot is released, the permit returned and the pump
\* called.  The run's record still says running until its caller has settled it.
Settle(j) ==
    LET r == ReplicaOf[j]
        jb == [job EXCEPT ![j] = [st |-> "settling", on |-> NoBackend]]
    IN /\ job[j].st = "running" /\ Yields(r)
       /\ job' = jb
       /\ Returned({j})
       /\ pump' = [pump EXCEPT ![r] = Woken(@, jb, r)]
       /\ UNCHANGED <<registry, asked, beat, permit, counter, reaped>>

RecordSettled(j) ==
    /\ job[j].st = "settling"
    /\ job' = [job EXCEPT ![j].st = "done"]
    /\ UNCHANGED <<registry, pump, asked, live, beat, permit, counter, releasing, reaped>>

\* An abort signal, cancelQueued() or cancelEntry(): the entries leave the queue and
\* their permits, if they asked for one, are returned.  The pump is not called.
Cancel(r) ==
    /\ Yields(r)
    /\ \E S \in SUBSET Queue(job, r) :
         /\ S # {}
         /\ job' = [j \in Jobs |-> IF j \in S THEN [job[j] EXCEPT !.st = "cancelled"] ELSE job[j]]
         /\ Returned(S)
    /\ UNCHANGED <<registry, pump, asked, beat, permit, counter, reaped>>

\* poke() and promoteEntry(): the autoscaler or an operator calls the pump.
Poke(r) ==
    /\ pump[r].pc = "idle" /\ Queue(job, r) # {}
    /\ pump' = [pump EXCEPT ![r] = Woken(@, job, r)]
    /\ UNCHANGED <<registry, job, asked, live, beat, permit, counter, releasing, reaped>>

-----------------------------------------------------------------------------
(* The drain: two readings, then rounds.                                   *)

InUse(b) == Cardinality({j \in Jobs : job[j].st = "running" /\ job[j].on = b})

\* probeCapacities(): a probe lags behind placements or counts other work; one that
\* fails or cannot count leaves no room, like a backend that is not registered.
Readings(r, b) == CASE b \notin registry[r] -> {Total[b]}
                    [] b \in registry[r] /\ Faults -> 0..Total[b]
                    [] OTHER -> {IF InUse(b) > Total[b] THEN Total[b] ELSE InUse(b)}
Probe(r) ==
    /\ pump[r].pc = "probe"
    /\ \E u \in [Backends -> UNION {0..Total[b] : b \in Backends}] :
         /\ \A b \in Backends : u[b] \in Readings(r, b)
         /\ pump' = [pump EXCEPT ![r].pc = "fleet", ![r].used = u]
    /\ UNCHANGED <<registry, job, asked, live, beat, permit, counter, releasing, reaped>>

\* The top of a round: free slots are recomputed from the drain's probe and what the
\* replica holds now, and the queue as it is now is what the round scans.
effectiveUsed(p, jb, r, b) ==
    LET held == countFor(jb, r, b) IN IF p.used[b] > held THEN p.used[b] ELSE held
backendSlotOf(b, used) == Less(Total[b], used)
freeSlotsFrom(p, jb, r) == [b \in Backends |-> backendSlotOf(b, effectiveUsed(p, jb, r, b))]
slotAdmits(p, b) == p.free[b] > 0

Round(p, jb, r) == [p EXCEPT !.pc = "scan", !.cur = NoJob, !.on = NoBackend, !.placed = FALSE,
                             !.todo = Queue(jb, r), !.free = freeSlotsFrom(p, jb, r)]

\* probeFleetInFlight(): the running records of each tenant, which lag behind both ends
\* of a run and outlive a dead replica's; nothing if the ledger does not answer.  The
\* first round follows without an await.
Recorded(t) == Cardinality({j \in Jobs : TenantOf[j] = t
                              /\ job[j].st \in {"running", "settling", "lost"}})
Fleet(r) ==
    /\ pump[r].pc = "fleet"
    /\ \E s \in [Tenants -> 0..Cardinality(Jobs)] :
         /\ \A t \in Tenants : IF t \notin Limited THEN s[t] = 0
                               ELSE s[t] <= Recorded(t) /\ (Faults \/ s[t] = Recorded(t))
         /\ LET p == [pump[r] EXCEPT !.seen = s,
                                     !.base = [t \in Tenants |-> tenantCountFor(job, r, t)]]
            IN pump' = [pump EXCEPT ![r] = IF Queue(job, r) = {} THEN Resting ELSE Round(p, job, r)]
    /\ UNCHANGED <<registry, job, asked, live, beat, permit, counter, releasing, reaped>>

\* FleetInFlight.countFor: the reading plus what was placed since, never less than
\* what the replica holds.
FleetCount(p, r, t) ==
    LET n == tenantCountFor(job, r, t)
        fleet == p.seen[t] + Less(n, p.base[t])
    IN IF n > fleet THEN n ELSE fleet
AtQuota(p, r, j) == IsLimited(j) /\ FleetCount(p, r, TenantOf[j]) >= Quota[TenantOf[j]]

\* eligibleNames(): the pin, or every registered backend.
eligibleNames(r, j) == IF Pin[j] = NoBackend THEN registry[r] ELSE {Pin[j]}

Rejected(j) == [job EXCEPT ![j].st = IF @ = "queued" THEN "rejected" ELSE @]

\* One entry of the scan: over quota or without room it is passed over; a pin that is
\* not registered is rejected; otherwise its harness-room check is awaited.
Scan(r) ==
    LET p == pump[r] IN
    /\ p.pc = "scan"
    /\ \E j \in p.todo :
         LET rest == [p EXCEPT !.todo = @ \ {j}]
             known == Pin[j] \in registry[r] \cup {NoBackend}
             room == {b \in eligibleNames(r, j) : slotAdmits(p, b)}
         IN \/ /\ AtQuota(p, r, j) \/ (known /\ room = {})
               /\ pump' = [pump EXCEPT ![r] = rest]
               /\ UNCHANGED job
            \/ /\ ~AtQuota(p, r, j) /\ ~known
               /\ pump' = [pump EXCEPT ![r] = [rest EXCEPT !.placed = TRUE]]
               /\ job' = Rejected(j)
            \/ /\ ~AtQuota(p, r, j) /\ known
               /\ \E b \in room :
                    pump' = [pump EXCEPT ![r] = [rest EXCEPT !.pc = "room", !.cur = j, !.on = b]]
               /\ UNCHANGED job
    /\ UNCHANGED <<registry, asked, live, beat, permit, counter, releasing, reaped>>

\* The round is over: another one if it placed anything and entries wait, or the
\* pump ends.
EndRound(r) ==
    /\ pump[r].pc = "scan" /\ pump[r].todo = {}
    /\ pump' = [pump EXCEPT ![r] = IF @.placed /\ Queue(job, r) # {} THEN Round(@, job, r)
                                   ELSE Resting]
    /\ UNCHANGED <<registry, job, asked, live, beat, permit, counter, releasing, reaped>>

\* Mutant: an entry that was cancelled during an await is dispatched all the same.
CommitAnyway(r, p, jb) == jb[p.cur].st \in {"queued", "cancelled"}
\* The commit point asks whether the entry is still in the queue.
StillQueued(r, p, jb) == jb[p.cur].st = "queued"

\* Mutant: the slot of a placement is not taken off the round's count.
FreeAfterNone(p) == p.free
FreeAfter(p) == [p.free EXCEPT ![p.on] = @ - 1]

Placed(p) == [p EXCEPT !.pc = "scan", !.cur = NoJob, !.on = NoBackend, !.placed = TRUE,
                       !.free = FreeAfter(p)]
Passed(p) == [p EXCEPT !.pc = "scan", !.cur = NoJob, !.on = NoBackend]

\* The commit point, once the last await has answered.  An entry that left the queue
\* is passed over.  Otherwise runOne() takes the backend from the registry and the run
\* starts; if the backend was unregistered during the await, the exception leaves the
\* pump, whose promise nobody handles, and the process ends.
Commits(r) == StillQueued(r, pump[r], job) /\ pump[r].on \in registry[r]
Throws(r) == StillQueued(r, pump[r], job) /\ pump[r].on \notin registry[r]

\* The process ends: what it queued and ran is lost, its timers stop and its permits
\* are left to lapse.
Dies(r) ==
    /\ job' = [j \in Jobs |-> IF ReplicaOf[j] = r /\ job[j].st \in {"queued", "running"}
                                THEN [st |-> "lost", on |-> NoBackend] ELSE job[j]]
    /\ registry' = [registry EXCEPT ![r] = Backends \ Retirable]
    /\ pump' = [pump EXCEPT ![r] = Resting]
    /\ live' = [live EXCEPT ![r] = {}]
    /\ beat' = [beat EXCEPT ![r] = 0]
    /\ UNCHANGED <<asked, permit, counter, releasing, reaped>>

\* The harness has room.  A limited tenant's entry goes on to the ledger; any other
\* is committed at once.
Room(r) ==
    LET p == pump[r]
        j == p.cur
    IN /\ p.pc = "room"
       /\ \/ /\ IsLimited(j)
             /\ asked' = asked \cup {j}
             /\ pump' = [pump EXCEPT ![r].pc = "reap"]
             /\ UNCHANGED <<job, registry, live, beat, permit, counter, releasing, reaped>>
          \/ /\ ~IsLimited(j) /\ Commits(r)
             /\ job' = [job EXCEPT ![j] = [st |-> "running", on |-> p.on]]
             /\ pump' = [pump EXCEPT ![r] = Placed(p)]
             /\ UNCHANGED <<registry, asked, live, beat, permit, counter, releasing, reaped>>
          \/ /\ ~IsLimited(j) /\ ~StillQueued(r, p, job)
             /\ pump' = [pump EXCEPT ![r] = Passed(p)]
             /\ UNCHANGED <<job, registry, asked, live, beat, permit, counter, releasing, reaped>>
          \/ ~IsLimited(j) /\ Throws(r) /\ Dies(r)

\* tryAdmit answered that the permit is held.  It is renewed from now on and the entry
\* committed, or it is returned because the entry has left the queue.
Granted(r) ==
    LET p == pump[r]
        j == p.cur
    IN /\ p.pc = "granted"
       /\ \/ /\ Commits(r)
             /\ live' = [live EXCEPT ![r] = @ \cup {j}]
             /\ beat' = [beat EXCEPT ![r] = IF live[r] = {} THEN 0 ELSE @]
             /\ job' = [job EXCEPT ![j] = [st |-> "running", on |-> p.on]]
             /\ pump' = [pump EXCEPT ![r] = Placed(p)]
             /\ UNCHANGED <<registry, asked, permit, counter, releasing, reaped>>
          \/ /\ ~StillQueued(r, p, job)
             /\ Returned({j})
             /\ pump' = [pump EXCEPT ![r] = Passed(p)]
             /\ UNCHANGED <<job, registry, asked, beat, permit, counter, reaped>>
          \/ Throws(r) /\ Dies(r)

Refused(r) ==
    /\ pump[r].pc = "refused"
    /\ pump' = [pump EXCEPT ![r] = Passed(@)]
    /\ UNCHANGED <<registry, job, asked, live, beat, permit, counter, releasing, reaped>>

-----------------------------------------------------------------------------
(* The ledger's statements.                                                *)

\* tryAdmit's sweep of every lapsed permit, whoever's it is.
Reap(r) ==
    LET S == {j \in Jobs : Lapsed(j)} IN
    /\ pump[r].pc = "reap"
    /\ permit' = [j \in Jobs |-> IF j \in S THEN NoRow ELSE permit[j]]
    /\ counter' = [t \in Tenants |-> Less(counter[t], Cardinality({j \in S : TenantOf[j] = t}))]
    /\ reaped' = reaped \cup S
    /\ pump' = [pump EXCEPT ![r].pc = "claim"]
    /\ UNCHANGED <<registry, job, asked, live, beat, releasing>>

\* Mutant: one claim past the quota.
ClaimsOneMore(j) == ~HasRow(j) /\ counter[TenantOf[j]] <= Quota[TenantOf[j]]
Claims(j) == ~HasRow(j) /\ counter[TenantOf[j]] < Quota[TenantOf[j]]

\* tryAdmit's claim: a permit already held is the same right; else one more of the
\* tenant's in_flight if there is room.  The reply may be lost.
Claim(r) ==
    LET j == pump[r].cur
        t == TenantOf[j]
    IN /\ pump[r].pc = "claim"
       /\ IF Claims(j)
            THEN /\ permit' = [permit EXCEPT ![j] = 0]
                 /\ counter' = [counter EXCEPT ![t] = @ + 1]
                 /\ reaped' = reaped \ {j}
            ELSE UNCHANGED <<permit, counter, reaped>>
       /\ \/ pump' = [pump EXCEPT ![r].pc = IF HasRow(j) \/ Claims(j) THEN "granted" ELSE "refused"]
          \/ Faults /\ pump' = [pump EXCEPT ![r].pc = "refused"]
       /\ UNCHANGED <<registry, job, asked, live, beat, releasing>>

\* The call fails before its claim: the pump takes it for a refusal.
LedgerDown(r) ==
    /\ Faults /\ pump[r].pc \in {"reap", "claim"}
    /\ pump' = [pump EXCEPT ![r].pc = "refused"]
    /\ UNCHANGED <<registry, job, asked, live, beat, permit, counter, releasing, reaped>>

\* Mutant: the counter is lowered although there was no row to delete.
CounterReleasedTwice(j) == [counter EXCEPT ![TenantOf[j]] = @ - 1]
CounterReleased(j) == IF HasRow(j) THEN [counter EXCEPT ![TenantOf[j]] = Less(@, 1)] ELSE counter

\* releaseAdmission reaches the ledger, or fails and is not repeated.
Release(j) ==
    /\ j \in releasing
    /\ releasing' = releasing \ {j}
    /\ \/ /\ permit' = [permit EXCEPT ![j] = NoRow]
          /\ counter' = CounterReleased(j)
       \/ Faults /\ UNCHANGED <<permit, counter>>
    /\ UNCHANGED <<registry, job, pump, asked, live, beat, reaped>>

\* The renewal timer of a replica that holds permits.
Beat(r) ==
    /\ live[r] # {} /\ beat[r] = Renew
    /\ beat' = [beat EXCEPT ![r] = 0]
    /\ permit' = [j \in Jobs |-> IF j \in live[r] /\ HasRow(j) THEN 0 ELSE permit[j]]
    /\ UNCHANGED <<registry, job, pump, asked, live, counter, releasing, reaped>>

Crash(r) == Faults /\ Dies(r)

\* A tick is minutes long (Renew of them are permitRenewMs): timers fire on time, and a
\* drain takes less.
Tick ==
    /\ \A r \in Replicas : /\ live[r] # {} => beat[r] < Renew
                           /\ pump[r].pc = "idle"
    /\ \E j \in Jobs : HasRow(j)
    /\ permit' = [j \in Jobs |-> IF permit[j] <= Lease THEN permit[j] + 1 ELSE permit[j]]
    /\ beat' = [r \in Replicas |-> IF live[r] # {} THEN beat[r] + 1 ELSE 0]
    /\ UNCHANGED <<registry, job, pump, asked, live, counter, releasing, reaped>>

PumpStep(r) == \/ Probe(r) \/ Fleet(r) \/ Scan(r) \/ EndRound(r)
               \/ Room(r) \/ Granted(r) \/ Refused(r) \/ Reap(r) \/ Claim(r)
JobStep(j) == Settle(j) \/ RecordSettled(j) \/ Release(j)

Next == \/ \E j \in Jobs : Dispatch(j) \/ JobStep(j)
        \/ \E r \in Replicas : \/ PumpStep(r) \/ LedgerDown(r) \/ Cancel(r) \/ Poke(r)
                               \/ Beat(r) \/ Crash(r)
                               \/ \E b \in Backends : Unregister(r, b)
        \/ Tick

Spec == Init /\ [][Next]_vars

-----------------------------------------------------------------------------
(* Properties.                                                             *)

TypeOK ==
    /\ job \in [Jobs -> Job]
    /\ registry \in [Replicas -> SUBSET Backends]
    /\ pump \in [Replicas -> Pump]
    /\ asked \in SUBSET Jobs
    /\ live \in [Replicas -> SUBSET Jobs]
    /\ beat \in [Replicas -> 0..Renew]
    /\ permit \in [Jobs -> 0..NoRow]
    /\ counter \in [Tenants -> Nat]
    /\ releasing \in SUBSET Jobs
    /\ reaped \in SUBSET Jobs

\* CONSERVATION: in_flight always equals the tenant's permit rows, and so stays within
\* the quota, whatever claims are retried, released twice, reaped or lost.
PermitsConserved ==
    \A t \in Tenants :
       /\ counter[t] = Cardinality({j \in Jobs : TenantOf[j] = t /\ HasRow(j)})
       /\ t \in Limited => counter[t] <= Quota[t]

\* The quota is fleet-wide: across all replicas a limited tenant runs no more jobs
\* than its quota, those apart whose permit lapsed under them.
QuotaHeld ==
    \A t \in Limited : Cardinality(RunningOf(job, t) \ reaped) <= Quota[t]

\* One replica never runs more jobs on a backend than the backend has slots, however
\* its probe lags behind its own placements.
SlotsRespected ==
    \A r \in Replicas, b \in Backends : countFor(job, r, b) <= Total[b]

\* A dispatch is answered once: a job that was cancelled, rejected, refused or lost
\* is never placed, and one that ended never runs again.
AnsweredOnce ==
    [][\A j \in Jobs : job[j].st \in Answered =>
          job'[j].st = job[j].st \/ (job[j].st = "settling" /\ job'[j].st = "done")]_vars

\* Replicas and ledger together are a pool of leased permits: a limited job starts only
\* with a permit whose lease still runs, although the pump commits it an await after the
\* claim; a release that arrives late takes no running job's permit; and a renewal keeps
\* none that no run stands behind.
Pool == INSTANCE AdmissionContract WITH
    held <- {j \in Jobs : HasRow(j)},
    lapsed <- {j \in Jobs : Lapsed(j)},
    running <- {j \in Jobs : job[j].st = "running" /\ IsLimited(j)}
KeepsPool == Pool!Spec

-----------------------------------------------------------------------------
(* Liveness.  The pump goes on when what it awaits has answered, runs end   *)
(* and are recorded, and the ledger executes what it was sent.              *)
Fairness ==
    /\ \A r \in Replicas : WF_vars(PumpStep(r))
    /\ \A j \in Jobs : WF_vars(JobStep(j))
FairSpec == Spec /\ Fairness

\* A job that waits for a slot or for its tenant's quota leaves the queue once they
\* are free: the end of a run calls the pump.
QueueDrains == \A j \in Jobs : job[j].st = "queued" ~> job[j].st # "queued"
=============================================================================
