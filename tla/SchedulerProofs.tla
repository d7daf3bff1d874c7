--------------------------- MODULE SchedulerProofs ---------------------------
(***************************************************************************)
(* What Scheduler guarantees for any replicas, jobs, tenants, quotas and   *)
(* slots, with all its faults: types, conservation of permits, the quota   *)
(* over the fleet, the slots of a replica, one answer per dispatch, and    *)
(* the refinement of the pool of leased permits.                           *)
(*                                                                         *)
(* The inductive invariant ties the four parties together: what a pump is  *)
(* placing is not running and belongs to its replica (PumpSound, Handled), *)
(* a release under way is of a job that needs no permit any more           *)
(* (ReleasesLate), a limited run has its row or lost it to the reap        *)
(* (RunsPermitted, GrantSound), the free slots of a round are really free  *)
(* (RoundSound), and a grant in a pump's hand still has its lease: no      *)
(* lease runs out between the sweep of a pump and its commit (PoolSound).  *)
(***************************************************************************)
EXTENDS Scheduler, FiniteSetTheorems, TLAPS

-----------------------------------------------------------------------------
(* Types.                                                                  *)

NoRound == {"idle", "probe", "fleet"}          \* no round is going on
Placing == {"room", "reap", "claim", "granted", "refused"}
InLedger == {"reap", "claim", "granted"}

\* What a pump is placing is a job of its own replica that has left the scan, on a
\* backend with a free slot, and only limited jobs go to the ledger.
Shape(p, r) ==
    /\ p.pc \in Placing => /\ p.cur \in Jobs /\ p.on \in Backends
                           /\ p.free[p.on] > 0
    /\ p.pc \in InLedger => IsLimited(p.cur)
    /\ \A j \in Jobs : j \in p.todo \/ j = p.cur => ReplicaOf[j] = r
    /\ p.cur \notin p.todo
PumpSound == \A r \in Replicas : Shape(pump[r], r)

\* Every set of jobs has a cardinality.
LEMMA JobsCount ==
    ASSUME NEW S \in SUBSET Jobs
    PROVE  IsFiniteSet(S) /\ Cardinality(S) \in Nat
  BY SchedulerAssumption, FS_Subset, FS_CardinalityType

\* Counting what a replica holds, and subtracting, stays in Nat.
LEMMA LessType == ASSUME NEW n \in Nat, NEW k \in Nat
                  PROVE  Less(n, k) \in Nat /\ Less(n, k) <= n
  BY DEF Less
\* The Admission counters are natural numbers.
LEMMA CountType ==
    ASSUME NEW jb, NEW r, NEW b, NEW t
    PROVE  countFor(jb, r, b) \in Nat /\ tenantCountFor(jb, r, t) \in Nat
<1>1. {j \in Running(jb, r) : jb[j].on = b} \in SUBSET Jobs
  BY DEF Running
<1>2. Running(jb, r) \cap RunningOf(jb, t) \in SUBSET Jobs
  BY DEF Running, RunningOf
<1>3. QED
  BY <1>1, <1>2, JobsCount DEF countFor, tenantCountFor

\* The values a pump is set to are pumps.
LEMMA RestingType == Resting \in Pump
  BY DEF Resting, Pump
LEMMA WokenType ==
    ASSUME NEW p \in Pump, NEW jb, NEW r PROVE Woken(p, jb, r) \in Pump
  BY DEF Woken, Pump
\* So are the free slots of a round.
LEMMA FreeType ==
    ASSUME NEW p \in Pump, NEW jb, NEW r
    PROVE  freeSlotsFrom(p, jb, r) \in [Backends -> Nat]
<1> SUFFICES ASSUME NEW b \in Backends
             PROVE  backendSlotOf(b, effectiveUsed(p, jb, r, b)) \in Nat
  BY DEF freeSlotsFrom
<1>1. p.used[b] \in Nat /\ Total[b] \in Nat
  BY SchedulerAssumption DEF Pump
<1>2. effectiveUsed(p, jb, r, b) \in Nat
  BY <1>1, CountType DEF effectiveUsed
<1>3. QED
  BY <1>1, <1>2, LessType DEF backendSlotOf
LEMMA RoundType ==
    ASSUME NEW p \in Pump, NEW jb, NEW r PROVE Round(p, jb, r) \in Pump
<1>1. Queue(jb, r) \in SUBSET Jobs
  BY DEF Queue
<1>2. QED
  BY <1>1, FreeType DEF Round, Pump
LEMMA PassedType ==
    ASSUME NEW p \in Pump PROVE Passed(p) \in Pump
  BY DEF Passed, Pump
\* A placement takes a slot that is there, so the count stays a natural number.
LEMMA PlacedType ==
    ASSUME NEW p \in Pump, p.on \in Backends, p.free[p.on] > 0
    PROVE  Placed(p) \in Pump
<1>1. FreeAfter(p) \in [Backends -> Nat]
  BY DEF FreeAfter, Pump
<1>2. QED
  BY <1>1 DEF Placed, Pump
LEMMA PcType ==
    ASSUME NEW p \in Pump,
           NEW c \in {"idle", "probe", "fleet", "scan", "room", "reap", "claim", "granted", "refused"}
    PROVE  [p EXCEPT !.pc = c] \in Pump
  BY DEF Pump

LEMMA ReadingType ==
    ASSUME NEW p \in Pump, NEW s \in [Tenants -> Nat], NEW base \in [Tenants -> Nat]
    PROVE  [p EXCEPT !.seen = s, !.base = base] \in Pump
  BY DEF Pump

\* TypeOK and PumpSound hold at the start.
LEMMA InitTyped == Init => TypeOK /\ PumpSound
<1> SUFFICES ASSUME Init PROVE TypeOK /\ PumpSound
  OBVIOUS
<1>1. NoRow \in 0..NoRow /\ 0 \in 0..Renew
  BY SchedulerAssumption DEF NoRow
<1>2. TypeOK
  BY <1>1, RestingType DEF Init, TypeOK, Job
<1>3. \A r \in Replicas : Shape(Resting, r)
  BY SchedulerAssumption DEF Shape, Resting, Placing, InLedger
<1>4. QED
  BY <1>2, <1>3 DEF Init, PumpSound

\* A job record keeps its type when its state moves, and a started one has one.
LEMMA JobType ==
    ASSUME NEW x \in Job, NEW s \in {"new", "queued", "running"} \cup Answered
    PROVE  [x EXCEPT !.st = s] \in Job
  BY DEF Job
LEMMA StartedType ==
    ASSUME NEW b \in Backends \cup {NoBackend}, NEW s \in {"new", "queued", "running"} \cup Answered
    PROVE  [st |-> s, on |-> b] \in Job
  BY DEF Job

\* The end of a replica keeps the types.
LEMMA DiesTyped == ASSUME TypeOK, NEW r \in Replicas, Dies(r) PROVE TypeOK'
<1>1. [st |-> "lost", on |-> NoBackend] \in Job
  BY StartedType DEF Answered
<1>2. job' \in [Jobs -> Job]
  BY <1>1 DEF Dies, TypeOK
<1>3. beat' \in [Replicas -> 0..Renew]
  BY SchedulerAssumption DEF Dies, TypeOK
<1>4. QED
  BY <1>2, <1>3, RestingType DEF Dies, TypeOK

\* So does the return of permits.
LEMMA ReturnedTyped ==
    ASSUME TypeOK, NEW S, Returned(S)
    PROVE  live' \in [Replicas -> SUBSET Jobs] /\ releasing' \in SUBSET Jobs
  BY DEF Returned, TypeOK

\* The commit point after the room check keeps the types: it places an entry only where
\* Shape says that there is a slot.
LEMMA RoomTyped ==
    ASSUME TypeOK, PumpSound, NEW r \in Replicas, Room(r) PROVE TypeOK'
<1> DEFINE p == pump[r]
<1>1. p \in Pump /\ p.cur \in Jobs /\ p.on \in Backends /\ p.free[p.on] > 0
  BY DEF Room, TypeOK, PumpSound, Shape, Placing
<1>2. CASE IsLimited(p.cur)
  <2>1. asked' = asked \cup {p.cur} /\ pump' = [pump EXCEPT ![r] = [p EXCEPT !.pc = "reap"]]
        /\ UNCHANGED <<job, registry, live, beat, permit, counter, releasing, reaped>>
    BY <1>2 DEF Room
  <2>2. [p EXCEPT !.pc = "reap"] \in Pump
    BY <1>1, PcType
  <2>3. QED
    BY <1>1, <2>1, <2>2 DEF TypeOK
<1>3. CASE ~IsLimited(p.cur) /\ Commits(r)
  <2>1. /\ job' = [job EXCEPT ![p.cur] = [st |-> "running", on |-> p.on]]
        /\ pump' = [pump EXCEPT ![r] = Placed(p)]
        /\ UNCHANGED <<registry, asked, live, beat, permit, counter, releasing, reaped>>
    BY <1>3 DEF Room, Commits, Throws
  <2>2. Placed(p) \in Pump /\ [st |-> "running", on |-> p.on] \in Job
    BY <1>1, PlacedType, StartedType
  <2>3. QED
    BY <1>1, <2>1, <2>2 DEF TypeOK
<1>4. CASE ~IsLimited(p.cur) /\ ~StillQueued(r, p, job)
  <2>1. /\ pump' = [pump EXCEPT ![r] = Passed(p)]
        /\ UNCHANGED <<job, registry, asked, live, beat, permit, counter, releasing, reaped>>
    BY <1>4 DEF Room, Commits, Throws
  <2>2. QED
    BY <1>1, <2>1, PassedType DEF TypeOK
<1>5. CASE Throws(r) /\ Dies(r)
  BY <1>5, DiesTyped
<1>6. QED
  BY <1>2, <1>3, <1>4, <1>5 DEF Room

\* So does the commit point after the ledger's answer.
LEMMA GrantedTyped ==
    ASSUME TypeOK, PumpSound, NEW r \in Replicas, Granted(r) PROVE TypeOK'
<1> DEFINE p == pump[r]
<1>1. p \in Pump /\ p.cur \in Jobs /\ p.on \in Backends /\ p.free[p.on] > 0
  BY DEF Granted, TypeOK, PumpSound, Shape, Placing
<1>2. CASE Commits(r)
  <2>1. /\ live' = [live EXCEPT ![r] = @ \cup {p.cur}]
        /\ beat' = [beat EXCEPT ![r] = IF live[r] = {} THEN 0 ELSE @]
        /\ job' = [job EXCEPT ![p.cur] = [st |-> "running", on |-> p.on]]
        /\ pump' = [pump EXCEPT ![r] = Placed(p)]
        /\ UNCHANGED <<registry, asked, permit, counter, releasing, reaped>>
    BY <1>2 DEF Granted, Commits, Throws
  <2>2. Placed(p) \in Pump /\ [st |-> "running", on |-> p.on] \in Job
    BY <1>1, PlacedType, StartedType
  <2>3. beat' \in [Replicas -> 0..Renew]
    BY <2>1, SchedulerAssumption DEF TypeOK
  <2>4. live' \in [Replicas -> SUBSET Jobs]
    BY <1>1, <2>1 DEF TypeOK
  <2>5. QED
    BY <1>1, <2>1, <2>2, <2>3, <2>4 DEF TypeOK
<1>3. CASE ~StillQueued(r, p, job)
  <2>1. /\ Returned({p.cur})
        /\ pump' = [pump EXCEPT ![r] = Passed(p)]
        /\ UNCHANGED <<job, registry, asked, beat, permit, counter, reaped>>
    BY <1>3 DEF Granted, Commits, Throws
  <2>2. QED
    BY <1>1, <2>1, PassedType, ReturnedTyped DEF TypeOK
<1>4. CASE Throws(r) /\ Dies(r)
  BY <1>4, DiesTyped
<1>5. QED
  BY <1>2, <1>3, <1>4 DEF Granted

\* tryAdmit's claim keeps the types.
LEMMA ClaimTyped ==
    ASSUME TypeOK, PumpSound, NEW r \in Replicas, Claim(r) PROVE TypeOK'
<1> DEFINE j == pump[r].cur
<1>1. pump[r] \in Pump /\ j \in Jobs /\ TenantOf[j] \in Tenants
  BY SchedulerAssumption DEF Claim, TypeOK, PumpSound, Shape, Placing
<1>2. 0 \in 0..NoRow
  BY SchedulerAssumption DEF NoRow
<1>3. permit' \in [Jobs -> 0..NoRow] /\ reaped' \in SUBSET Jobs
  BY <1>2 DEF Claim, TypeOK
<1>4. counter' \in [Tenants -> Nat]
  BY DEF Claim, TypeOK
<1>5. pump' \in [Replicas -> Pump]
  <2>1. \E c \in {"granted", "refused"} : pump' = [pump EXCEPT ![r] = [pump[r] EXCEPT !.pc = c]]
    BY DEF Claim
  <2>2. QED
    BY <1>1, <2>1, PcType DEF TypeOK
<1>6. QED
  BY <1>3, <1>4, <1>5 DEF Claim, TypeOK

\* So does its sweep.
LEMMA ReapTyped ==
    ASSUME TypeOK, NEW r \in Replicas, Reap(r) PROVE TypeOK'
<1>1. NoRow \in 0..NoRow
  BY SchedulerAssumption DEF NoRow
<1>2. permit' \in [Jobs -> 0..NoRow] /\ reaped' \in SUBSET Jobs
  BY <1>1 DEF Reap, TypeOK
<1>3. counter' \in [Tenants -> Nat]
  <2> DEFINE S == {j \in Jobs : Lapsed(j)}
  <2>1. counter' = [t \in Tenants |-> Less(counter[t], Cardinality({j \in S : TenantOf[j] = t}))]
    BY DEF Reap
  <2>2. \A t \in Tenants : {j \in S : TenantOf[j] = t} \in SUBSET Jobs
    OBVIOUS
  <2>3. \A t \in Tenants : Less(counter[t], Cardinality({j \in S : TenantOf[j] = t})) \in Nat
    BY <2>2, JobsCount, LessType DEF TypeOK
  <2>4. QED
    BY <2>1, <2>3
<1>4. pump' \in [Replicas -> Pump]
  BY PcType DEF Reap, TypeOK
<1>5. QED
  BY <1>2, <1>3, <1>4 DEF Reap, TypeOK

\* One entry of the scan keeps the types.
LEMMA ScanTyped ==
    ASSUME TypeOK, NEW r \in Replicas, Scan(r) PROVE TypeOK'
<1> DEFINE p == pump[r]
<1>1. p \in Pump
  BY DEF TypeOK
<1>2. PICK j \in p.todo :
        LET rest == [p EXCEPT !.todo = @ \ {j}] IN
        \/ pump' = [pump EXCEPT ![r] = rest] /\ job' = job
        \/ pump' = [pump EXCEPT ![r] = [rest EXCEPT !.placed = TRUE]] /\ job' = Rejected(j)
        \/ /\ \E b \in Backends :
                pump' = [pump EXCEPT ![r] = [rest EXCEPT !.pc = "room", !.cur = j, !.on = b]]
           /\ job' = job
  BY SchedulerAssumption DEF Scan, eligibleNames, TypeOK
<1>3. j \in Jobs
  BY <1>1 DEF Pump
<1> DEFINE rest == [p EXCEPT !.todo = @ \ {j}]
<1>4. rest \in Pump /\ [rest EXCEPT !.placed = TRUE] \in Pump
  BY <1>1 DEF Pump
<1>5. \A b \in Backends : [rest EXCEPT !.pc = "room", !.cur = j, !.on = b] \in Pump
  BY <1>3, <1>4 DEF Pump
<1>6. pump' \in [Replicas -> Pump]
  BY <1>2, <1>4, <1>5 DEF TypeOK
<1>7. job[j] \in Job /\ [job[j] EXCEPT !.st = IF @ = "queued" THEN "rejected" ELSE @] \in Job
  BY <1>3 DEF TypeOK, Job, Answered
<1>8. job' \in [Jobs -> Job]
  BY <1>2, <1>7 DEF Rejected, TypeOK
<1>9. QED
  BY <1>6, <1>8 DEF Scan, TypeOK

\* What the remaining steps of a pump do to it.
LEMMA DrainTyped ==
    ASSUME TypeOK, NEW r \in Replicas, Probe(r) \/ Fleet(r) \/ EndRound(r)
    PROVE  TypeOK'
<1>1. pump[r] \in Pump
  BY DEF TypeOK
<1>2. CASE Probe(r)
  <2>1. PICK u \in [Backends -> UNION {0..Total[b] : b \in Backends}] :
           pump' = [pump EXCEPT ![r] = [pump[r] EXCEPT !.pc = "fleet", !.used = u]]
    BY <1>2 DEF Probe
  <2>2. u \in [Backends -> Nat]
    BY SchedulerAssumption
  <2>3. [pump[r] EXCEPT !.pc = "fleet", !.used = u] \in Pump
    BY <1>1, <2>2 DEF Pump
  <2>4. QED
    BY <1>2, <2>1, <2>3 DEF Probe, TypeOK
<1>3. CASE Fleet(r)
  <2> DEFINE base == [t \in Tenants |-> tenantCountFor(job, r, t)]
  <2>1. PICK s \in [Tenants -> 0..Cardinality(Jobs)] :
           LET p == [pump[r] EXCEPT !.seen = s, !.base = base]
           IN pump' = [pump EXCEPT ![r] = IF Queue(job, r) = {} THEN Resting ELSE Round(p, job, r)]
    BY <1>3 DEF Fleet
  <2>2. s \in [Tenants -> Nat] /\ base \in [Tenants -> Nat]
    BY JobsCount, CountType
  <2>3. [pump[r] EXCEPT !.seen = s, !.base = base] \in Pump
    BY <1>1, <2>2, ReadingType
  <2>4. pump' \in [Replicas -> Pump]
    BY <2>1, <2>3, RestingType, RoundType DEF TypeOK
  <2>5. QED
    BY <1>3, <2>4 DEF Fleet, TypeOK
<1>4. CASE EndRound(r)
  <2>1. pump' \in [Replicas -> Pump]
    BY <1>1, <1>4, RestingType, RoundType DEF EndRound, TypeOK
  <2>2. QED
    BY <1>4, <2>1 DEF EndRound, TypeOK
<1>5. QED
  BY <1>2, <1>3, <1>4

\* Every step keeps TypeOK: one case per action.
LEMMA NextTyped == TypeOK /\ PumpSound /\ [Next]_vars => TypeOK'
<1> SUFFICES ASSUME TypeOK, PumpSound, [Next]_vars PROVE TypeOK'
  OBVIOUS
<1>1. ASSUME NEW j \in Jobs, Dispatch(j) PROVE TypeOK'
  <2>1. ReplicaOf[j] \in Replicas /\ job[j] \in Job
    BY SchedulerAssumption DEF TypeOK
  <2>a. PICK s \in {"cancelled", "rate_limited", "queued"} :
         job' = [job EXCEPT ![j] = [job[j] EXCEPT !.st = s]]
    BY <1>1 DEF Dispatch
  <2>b. [job[j] EXCEPT !.st = s] \in Job
    BY <2>1, JobType DEF Answered
  <2>2. job' \in [Jobs -> Job]
    BY <2>a, <2>b DEF TypeOK
  <2>3. pump' \in [Replicas -> Pump]
    BY <1>1, <2>1, WokenType DEF Dispatch, TypeOK
  <2>4. registry' \in [Replicas -> SUBSET Backends]
    BY <1>1, <2>1, SchedulerAssumption DEF Dispatch, TypeOK
  <2>5. QED
    BY <1>1, <2>2, <2>3, <2>4 DEF Dispatch, TypeOK
<1>2. ASSUME NEW j \in Jobs, Settle(j) PROVE TypeOK'
  <2>1. ReplicaOf[j] \in Replicas
    BY SchedulerAssumption
  <2>2. job' \in [Jobs -> Job]
    BY <1>2, StartedType DEF Settle, TypeOK, Answered
  <2>3. pump' \in [Replicas -> Pump]
    BY <1>2, <2>1, WokenType DEF Settle, TypeOK
  <2>4. QED
    BY <1>2, <2>2, <2>3, ReturnedTyped DEF Settle, TypeOK
<1>3. ASSUME NEW j \in Jobs, RecordSettled(j) PROVE TypeOK'
  <2>1. job' \in [Jobs -> Job]
    BY <1>3, JobType DEF RecordSettled, TypeOK, Answered
  <2>2. QED
    BY <1>3, <2>1 DEF RecordSettled, TypeOK
<1>4. ASSUME NEW j \in Jobs, Release(j) PROVE TypeOK'
  <2>1. NoRow \in 0..NoRow /\ TenantOf[j] \in Tenants
    BY SchedulerAssumption DEF NoRow
  <2>2. permit' \in [Jobs -> 0..NoRow]
    BY <1>4, <2>1 DEF Release, TypeOK
  <2> counter[TenantOf[j]] \in Nat /\ Less(counter[TenantOf[j]], 1) \in Nat
    BY <2>1, LessType DEF TypeOK
  <2>3. counter' \in [Tenants -> Nat]
    BY <1>4, <2>1 DEF Release, CounterReleased, TypeOK
  <2>4. QED
    BY <1>4, <2>2, <2>3 DEF Release, TypeOK
<1>5. ASSUME NEW r \in Replicas, Probe(r) \/ Fleet(r) \/ EndRound(r) PROVE TypeOK'
  BY <1>5, DrainTyped
<1>6. ASSUME NEW r \in Replicas, Scan(r) PROVE TypeOK'
  BY <1>6, ScanTyped
<1>7. ASSUME NEW r \in Replicas, Room(r) PROVE TypeOK'
  BY <1>7, RoomTyped
<1>8. ASSUME NEW r \in Replicas, Granted(r) PROVE TypeOK'
  BY <1>8, GrantedTyped
<1>9. ASSUME NEW r \in Replicas, Refused(r) PROVE TypeOK'
  BY <1>9, PassedType DEF Refused, TypeOK
<1>10. ASSUME NEW r \in Replicas, Reap(r) PROVE TypeOK'
  BY <1>10, ReapTyped
<1>11. ASSUME NEW r \in Replicas, Claim(r) PROVE TypeOK'
  BY <1>11, ClaimTyped
<1>12. ASSUME NEW r \in Replicas, LedgerDown(r) PROVE TypeOK'
  BY <1>12, PcType DEF LedgerDown, TypeOK
<1>13. ASSUME NEW r \in Replicas, Cancel(r) PROVE TypeOK'
  <2>1. PICK S \in SUBSET Queue(job, r) :
          /\ job' = [j \in Jobs |-> IF j \in S THEN [job[j] EXCEPT !.st = "cancelled"] ELSE job[j]]
          /\ Returned(S)
    BY <1>13 DEF Cancel
  <2>2. job' \in [Jobs -> Job]
    BY <2>1, JobType DEF TypeOK, Answered
  <2>3. QED
    BY <1>13, <2>1, <2>2, ReturnedTyped DEF Cancel, TypeOK
<1>14. ASSUME NEW r \in Replicas, Poke(r) PROVE TypeOK'
  BY <1>14, WokenType DEF Poke, TypeOK
<1>15. ASSUME NEW r \in Replicas, Beat(r) PROVE TypeOK'
  <2>1. 0 \in 0..Renew /\ 0 \in 0..NoRow
    BY SchedulerAssumption DEF NoRow
  <2>2. permit' \in [Jobs -> 0..NoRow] /\ beat' \in [Replicas -> 0..Renew]
    BY <1>15, <2>1 DEF Beat, TypeOK
  <2>3. QED
    BY <1>15, <2>2 DEF Beat, TypeOK
<1>16. ASSUME NEW r \in Replicas, Crash(r) PROVE TypeOK'
  BY <1>16, DiesTyped DEF Crash
<1>17. ASSUME NEW r \in Replicas, NEW b \in Backends, Unregister(r, b) PROVE TypeOK'
  BY <1>17 DEF Unregister, TypeOK
<1>18. ASSUME Tick PROVE TypeOK'
  <2>1. permit' \in [Jobs -> 0..NoRow]
    BY <1>18, SchedulerAssumption DEF Tick, TypeOK, NoRow
  <2>2. beat' \in [Replicas -> 0..Renew]
    BY <1>18, SchedulerAssumption DEF Tick, TypeOK
  <2>3. QED
    BY <1>18, <2>1, <2>2 DEF Tick, TypeOK
<1>19. ASSUME UNCHANGED vars PROVE TypeOK'
  BY <1>19 DEF vars, TypeOK
<1>20. QED
  BY <1>1, <1>2, <1>3, <1>4, <1>5, <1>6, <1>7, <1>8, <1>9, <1>10, <1>11, <1>12,
     <1>13, <1>14, <1>15, <1>16, <1>17, <1>18, <1>19
  DEF Next, PumpStep, JobStep

-----------------------------------------------------------------------------
(* What a pump is placing.                                                 *)

\* The values a pump is set to have the shape.
LEMMA RestingShape == \A r : Shape(Resting, r)
  BY SchedulerAssumption DEF Shape, Resting, Placing, InLedger
LEMMA WokenShape ==
    ASSUME NEW p \in Pump, NEW jb, NEW r, Shape(p, r) PROVE Shape(Woken(p, jb, r), r)
  BY DEF Shape, Woken, Pump, Placing, InLedger
LEMMA RoundShape ==
    ASSUME NEW p \in Pump, NEW jb, NEW r PROVE Shape(Round(p, jb, r), r)
<1> DEFINE q == Round(p, jb, r)
<1>1. q.pc = "scan" /\ q.cur = NoJob /\ q.todo = Queue(jb, r)
  BY DEF Round, Pump
<1>2. QED
  BY <1>1, SchedulerAssumption DEF Shape, Queue, Placing, InLedger
LEMMA PassedShape ==
    ASSUME NEW p \in Pump, NEW r, Shape(p, r)
    PROVE  Shape(Passed(p), r) /\ Shape(Placed(p), r)
<1>1. /\ Passed(p).pc = "scan" /\ Passed(p).cur = NoJob /\ Passed(p).todo = p.todo
      /\ Placed(p).pc = "scan" /\ Placed(p).cur = NoJob /\ Placed(p).todo = p.todo
      /\ p.todo \subseteq Jobs
  BY DEF Passed, Placed, Pump
<1>2. QED
  BY <1>1, SchedulerAssumption DEF Shape, Placing, InLedger

\* Nothing but a pump's own steps, a wake-up and the end of its replica touch it.
LEMMA PumpSoundOne ==
    ASSUME TypeOK, PumpSound, NEW r \in Replicas, NEW p,
           pump' = [pump EXCEPT ![r] = p], Shape(p, r)
    PROVE  PumpSound'
  BY DEF TypeOK, PumpSound

\* The scan takes up an entry of its own queue, on a backend with a free slot.
LEMMA ScanShape ==
    ASSUME TypeOK, PumpSound, NEW r \in Replicas, Scan(r) PROVE PumpSound'
<1> DEFINE p == pump[r]
<1>1. p \in Pump /\ Shape(p, r) /\ p.pc = "scan"
  BY DEF TypeOK, PumpSound, Scan
<1>2. PICK j \in p.todo :
        LET rest == [p EXCEPT !.todo = @ \ {j}] IN
        \/ pump' = [pump EXCEPT ![r] = rest]
        \/ pump' = [pump EXCEPT ![r] = [rest EXCEPT !.placed = TRUE]]
        \/ \E b \in Backends :
              /\ p.free[b] > 0
              /\ pump' = [pump EXCEPT ![r] = [rest EXCEPT !.pc = "room", !.cur = j, !.on = b]]
  BY SchedulerAssumption DEF Scan, eligibleNames, slotAdmits, TypeOK
<1> DEFINE rest == [p EXCEPT !.todo = @ \ {j}]
<1>3. /\ rest.pc = "scan" /\ rest.cur = p.cur /\ rest.todo = p.todo \ {j}
      /\ j \in Jobs /\ p.todo \subseteq Jobs
  BY <1>1 DEF Pump
<1>4. Shape(rest, r) /\ Shape([rest EXCEPT !.placed = TRUE], r)
  <2>1. [rest EXCEPT !.placed = TRUE].pc = "scan" /\ [rest EXCEPT !.placed = TRUE].cur = p.cur
        /\ [rest EXCEPT !.placed = TRUE].todo = p.todo \ {j}
    BY <1>1 DEF Pump
  <2>2. QED
    BY <1>1, <1>3, <2>1 DEF Shape, Placing, InLedger
<1>5. ASSUME NEW b \in Backends, p.free[b] > 0
      PROVE  Shape([rest EXCEPT !.pc = "room", !.cur = j, !.on = b], r)
  <2> DEFINE q == [rest EXCEPT !.pc = "room", !.cur = j, !.on = b]
  <2>1. q.pc = "room" /\ q.cur = j /\ q.on = b /\ q.todo = p.todo \ {j} /\ q.free = p.free
    BY <1>1 DEF Pump
  <2>2. QED
    BY <1>1, <1>3, <1>5, <2>1 DEF Shape, Placing, InLedger
<1>6. QED
  BY <1>2, <1>4, <1>5, PumpSoundOne

\* The end of a replica leaves its pump at rest.
LEMMA DiesShape ==
    ASSUME TypeOK, PumpSound, NEW r \in Replicas, Dies(r) PROVE PumpSound'
  BY RestingShape, PumpSoundOne DEF Dies

\* Every step keeps PumpSound.
LEMMA NextShape == TypeOK /\ PumpSound /\ [Next]_vars => PumpSound'
<1> SUFFICES ASSUME TypeOK, PumpSound, [Next]_vars PROVE PumpSound'
  OBVIOUS
<1>a. \A r \in Replicas : pump[r] \in Pump /\ Shape(pump[r], r)
  BY DEF TypeOK, PumpSound
<1>b. ASSUME NEW r \in Replicas, NEW c \in {"claim", "granted", "refused"},
             pump[r].pc \in {"reap", "claim"},
             pump' = [pump EXCEPT ![r] = [pump[r] EXCEPT !.pc = c]]
      PROVE  PumpSound'
  <2> DEFINE p == [pump[r] EXCEPT !.pc = c]
  <2>1. p.pc = c /\ p.cur = pump[r].cur /\ p.on = pump[r].on /\ p.todo = pump[r].todo
        /\ p.free = pump[r].free
    BY <1>a DEF Pump
  <2>2. Shape(p, r)
    BY <1>a, <1>b, <2>1 DEF Shape, Placing, InLedger
  <2>3. QED
    BY <1>b, <2>2, PumpSoundOne
<1>1. ASSUME NEW j \in Jobs, Dispatch(j) \/ Settle(j) PROVE PumpSound'
  <2>1. ReplicaOf[j] \in Replicas
    BY SchedulerAssumption
  <2>2. \/ pump' = pump
        \/ \E jb : pump' = [pump EXCEPT ![ReplicaOf[j]] = Woken(pump[ReplicaOf[j]], jb, ReplicaOf[j])]
    BY <1>1 DEF Dispatch, Settle
  <2>3. QED
    BY <1>a, <2>1, <2>2, WokenShape, PumpSoundOne DEF PumpSound
<1>2. ASSUME NEW j \in Jobs, RecordSettled(j) \/ Release(j) PROVE PumpSound'
  BY <1>2 DEF RecordSettled, Release, PumpSound
<1>3. ASSUME NEW r \in Replicas, Probe(r) PROVE PumpSound'
  <2>1. PICK u : pump' = [pump EXCEPT ![r] = [pump[r] EXCEPT !.pc = "fleet", !.used = u]]
    BY <1>3 DEF Probe
  <2> DEFINE p == [pump[r] EXCEPT !.pc = "fleet", !.used = u]
  <2>2. p.pc = "fleet" /\ p.cur = pump[r].cur /\ p.todo = pump[r].todo
    BY <1>a DEF Pump
  <2>3. Shape(p, r)
    BY <1>a, <2>2 DEF Shape, Placing, InLedger
  <2>4. QED
    BY <2>1, <2>3, PumpSoundOne
<1>4. ASSUME NEW r \in Replicas, Fleet(r) PROVE PumpSound'
  <2> DEFINE base == [t \in Tenants |-> tenantCountFor(job, r, t)]
  <2>1. PICK s \in [Tenants -> 0..Cardinality(Jobs)] :
           LET p == [pump[r] EXCEPT !.seen = s, !.base = base]
           IN pump' = [pump EXCEPT ![r] = IF Queue(job, r) = {} THEN Resting ELSE Round(p, job, r)]
    BY <1>4 DEF Fleet
  <2>2. s \in [Tenants -> Nat] /\ base \in [Tenants -> Nat]
    BY JobsCount, CountType
  <2>3. [pump[r] EXCEPT !.seen = s, !.base = base] \in Pump
    BY <1>a, <2>2, ReadingType
  <2>4. QED
    BY <2>1, <2>3, RestingShape, RoundShape, PumpSoundOne
<1>5. ASSUME NEW r \in Replicas, EndRound(r) PROVE PumpSound'
  BY <1>a, <1>5, RestingShape, RoundShape, PumpSoundOne DEF EndRound
<1>6. ASSUME NEW r \in Replicas, Scan(r) PROVE PumpSound'
  BY <1>6, ScanShape
<1>7. ASSUME NEW r \in Replicas, Room(r) \/ Granted(r) PROVE PumpSound'
  <2>1. CASE pump' = [pump EXCEPT ![r].pc = "reap"] /\ pump[r].pc = "room" /\ IsLimited(pump[r].cur)
    <3> DEFINE p == [pump[r] EXCEPT !.pc = "reap"]
    <3>1. p.pc = "reap" /\ p.cur = pump[r].cur /\ p.on = pump[r].on /\ p.todo = pump[r].todo
          /\ p.free = pump[r].free
      BY <1>a DEF Pump
    <3>2. Shape(p, r)
      BY <1>a, <2>1, <3>1 DEF Shape, Placing, InLedger
    <3>3. QED
      BY <2>1, <3>2, PumpSoundOne
  <2>2. CASE pump' = [pump EXCEPT ![r] = Placed(pump[r])] \/ pump' = [pump EXCEPT ![r] = Passed(pump[r])]
    BY <1>a, <2>2, PassedShape, PumpSoundOne
  <2>3. CASE Dies(r)
    BY <2>3, DiesShape
  <2>4. QED
    BY <1>7, <2>1, <2>2, <2>3 DEF Room, Granted
<1>8. ASSUME NEW r \in Replicas, Refused(r) PROVE PumpSound'
  BY <1>a, <1>8, PassedShape, PumpSoundOne DEF Refused
<1>9. ASSUME NEW r \in Replicas, Reap(r) \/ LedgerDown(r) PROVE PumpSound'
  BY <1>9, <1>b DEF Reap, LedgerDown
<1>10. ASSUME NEW r \in Replicas, Claim(r) PROVE PumpSound'
  <2>1. \E c \in {"granted", "refused"} : pump' = [pump EXCEPT ![r] = [pump[r] EXCEPT !.pc = c]]
    BY <1>10 DEF Claim
  <2>2. QED
    BY <1>10, <1>b, <2>1 DEF Claim
<1>11. ASSUME NEW r \in Replicas, Poke(r) PROVE PumpSound'
  BY <1>a, <1>11, WokenShape, PumpSoundOne DEF Poke
<1>12. ASSUME NEW r \in Replicas, Crash(r) PROVE PumpSound'
  BY <1>12, DiesShape DEF Crash
<1>13. ASSUME UNCHANGED pump PROVE PumpSound'
  BY <1>13 DEF PumpSound
<1>14. QED
  BY <1>1, <1>2, <1>3, <1>4, <1>5, <1>6, <1>7, <1>8, <1>9, <1>10, <1>11, <1>12, <1>13
  DEF Next, PumpStep, JobStep, Cancel, Beat, Unregister, Tick, vars

\* TYPES: every variable keeps the type TypeOK gives it, whatever the pumps, the
\* ledger and the crashes do; the slot counts of a round (freeSlotsFrom, FreeAfter)
\* never fall below 0.
THEOREM SchedulerTypeCorrect == Spec => []TypeOK
<1>1. TypeOK /\ PumpSound /\ [Next]_vars => (TypeOK /\ PumpSound)'
  BY NextTyped, NextShape
<1>2. QED
  BY <1>1, InitTyped, PTL DEF Spec

-----------------------------------------------------------------------------
(* What a step does to the jobs.                                           *)

\* The pump of replica r commits the entry it is placing.
Starts(r) ==
    LET p == pump[r] IN
    /\ p.pc = "granted" \/ (p.pc = "room" /\ ~IsLimited(p.cur))
    /\ job[p.cur].st = "queued"
    /\ job' = [job EXCEPT ![p.cur] = [st |-> "running", on |-> p.on]]
    /\ pump' = [pump EXCEPT ![r] = Placed(p)]

\* Every other step starts nothing: a job stays, is queued or is answered.
Moves(x, y) ==
    \/ y = x
    \/ x.st = "new" /\ y.st \in {"queued", "cancelled", "rate_limited"}
    \/ x.st \in {"queued", "running"} /\ y.st \in Answered
    \/ x.st = "settling" /\ y.st = "done"
Quiet == \A j \in Jobs : Moves(job[j], job'[j])

\* The end of a replica starts nothing.
LEMMA DiesQuiet == ASSUME TypeOK, NEW r \in Replicas, Dies(r) PROVE Quiet
  BY DEF Dies, TypeOK, Quiet, Moves, Answered

\* A step that moves one job as Moves says is quiet.
LEMMA OneQuiet ==
    ASSUME TypeOK, NEW j \in Jobs, NEW x, job' = [job EXCEPT ![j] = x], Moves(job[j], x)
    PROVE  Quiet
  BY DEF TypeOK, Quiet, Moves

\* Every step is quiet, or is one pump's commit.
LEMMA JobMoves ==
    ASSUME TypeOK, PumpSound, [Next]_vars
    PROVE  Quiet \/ \E r \in Replicas : Starts(r)
<1>0. \A j \in Jobs : job[j] \in Job
  BY DEF TypeOK
<1>1. ASSUME NEW j \in Jobs, Dispatch(j) PROVE Quiet
  <2>1. PICK s \in {"cancelled", "rate_limited", "queued"} :
          job' = [job EXCEPT ![j] = [job[j] EXCEPT !.st = s]]
    BY <1>1 DEF Dispatch
  <2>2. [job[j] EXCEPT !.st = s].st = s /\ job[j].st = "new"
    BY <1>0, <1>1 DEF Dispatch, Job
  <2>3. Moves(job[j], [job[j] EXCEPT !.st = s])
    BY <2>2 DEF Moves
  <2>4. QED
    BY <2>1, <2>3, OneQuiet
<1>2. ASSUME NEW j \in Jobs, Settle(j) PROVE Quiet
  <2>1. job' = [job EXCEPT ![j] = [st |-> "settling", on |-> NoBackend]] /\ job[j].st = "running"
    BY <1>2 DEF Settle
  <2>2. Moves(job[j], [st |-> "settling", on |-> NoBackend])
    BY <2>1 DEF Moves, Answered
  <2>3. QED
    BY <2>1, <2>2, OneQuiet
<1>3. ASSUME NEW j \in Jobs, RecordSettled(j) PROVE Quiet
  <2>1. job' = [job EXCEPT ![j] = [job[j] EXCEPT !.st = "done"]] /\ job[j].st = "settling"
    BY <1>3 DEF RecordSettled
  <2>2. Moves(job[j], [job[j] EXCEPT !.st = "done"])
    BY <1>0, <2>1 DEF Moves, Job
  <2>3. QED
    BY <2>1, <2>2, OneQuiet
<1>4. ASSUME NEW r \in Replicas, Scan(r) PROVE Quiet
  <2>1. PICK j \in pump[r].todo : job' = job \/ job' = Rejected(j)
    BY <1>4 DEF Scan
  <2>2. j \in Jobs /\ job[j] \in Job
    BY <1>0 DEF TypeOK, Pump
  <2>3. CASE job' = job
    BY <2>3 DEF Quiet, Moves
  <2>4. CASE job' = Rejected(j)
    <3>1. Moves(job[j], [job[j] EXCEPT !.st = IF @ = "queued" THEN "rejected" ELSE @])
      BY <2>2 DEF Moves, Job, Answered
    <3>2. QED
      BY <2>2, <2>4, <3>1, OneQuiet DEF Rejected
  <2>5. QED
    BY <2>1, <2>3, <2>4
<1>5. ASSUME NEW r \in Replicas, Cancel(r) PROVE Quiet
  <2>1. PICK S \in SUBSET Queue(job, r) :
          job' = [j \in Jobs |-> IF j \in S THEN [job[j] EXCEPT !.st = "cancelled"] ELSE job[j]]
    BY <1>5 DEF Cancel
  <2>2. \A j \in Jobs : [job[j] EXCEPT !.st = "cancelled"].st = "cancelled"
    BY <1>0 DEF Job
  <2>3. QED
    BY <2>1, <2>2 DEF Quiet, Moves, Queue, Answered
<1>6. ASSUME NEW r \in Replicas, Room(r) \/ Granted(r) PROVE Quiet \/ Starts(r)
  <2>1. CASE Dies(r)
    BY <2>1, DiesQuiet
  <2>2. CASE job' = job
    BY <2>2 DEF Quiet, Moves
  <2>3. CASE ~Dies(r) /\ job' # job
    <3>1. Starts(r)
      BY <1>6, <2>3 DEF Room, Granted, Commits, StillQueued, Starts
    <3>2. QED
      BY <3>1
  <2>4. QED
    BY <2>1, <2>2, <2>3
<1>7. ASSUME NEW r \in Replicas, Crash(r) PROVE Quiet
  BY <1>7, DiesQuiet DEF Crash
<1>8. ASSUME UNCHANGED job PROVE Quiet
  BY <1>8 DEF Quiet, Moves
<1>9. QED
  BY <1>1, <1>2, <1>3, <1>4, <1>5, <1>6, <1>7, <1>8
  DEF Next, PumpStep, JobStep, Probe, Fleet, EndRound, Refused, Reap, Claim, LedgerDown,
      Poke, Beat, Unregister, Release, Tick, vars

\* ONE ANSWER: a dispatch that was settled, cancelled, rejected, rate-limited or lost
\* stays so, although pumps hold entries across awaits in which they may leave the queue.
THEOREM DispatchesAnsweredOnce == Spec => AnsweredOnce
<1>1. ASSUME TypeOK, PumpSound, [Next]_vars
      PROVE  [\A j \in Jobs : job[j].st \in Answered =>
                 job'[j].st = job[j].st \/ (job[j].st = "settling" /\ job'[j].st = "done")]_vars
  <2>1. CASE Quiet
    BY <2>1 DEF Quiet, Moves, Answered
  <2>2. ASSUME NEW r \in Replicas, Starts(r)
        PROVE  \A j \in Jobs : job[j].st \in Answered => job'[j].st = job[j].st
    BY <2>2 DEF Starts, TypeOK, Answered
  <2>3. QED
    BY <1>1, <2>1, <2>2, JobMoves
<1>2. TypeOK /\ PumpSound /\ [Next]_vars => (TypeOK /\ PumpSound)'
  BY NextTyped, NextShape
<1>3. QED
  BY <1>1, <1>2, InitTyped, PTL DEF Spec, AnsweredOnce

-----------------------------------------------------------------------------
(* Conservation of permits.                                                *)

Rows(t) == {j \in Jobs : TenantOf[j] = t /\ HasRow(j)}
RowsAsBefore == counter' = counter /\ \A j \in Jobs : HasRow(j)' <=> HasRow(j)

\* A step that adds and takes no row conserves the permits.
LEMMA RowsKept == ASSUME PermitsConserved, RowsAsBefore PROVE PermitsConserved'
<1>1. \A t \in Tenants : Rows(t)' = Rows(t)
  BY DEF Rows, RowsAsBefore
<1>2. QED
  BY <1>1 DEF PermitsConserved, Rows, RowsAsBefore

\* A row that the sweep takes was a row, so no tenant's count falls short of it.
LEMMA ReapConserves ==
    ASSUME TypeOK, PermitsConserved, NEW r \in Replicas, Reap(r) PROVE PermitsConserved'
<1> SUFFICES ASSUME NEW t \in Tenants
             PROVE  /\ counter'[t] = Cardinality(Rows(t)')
                    /\ t \in Limited => counter'[t] <= Quota[t]
  BY DEF PermitsConserved, Rows
<1> DEFINE S == {j \in Jobs : Lapsed(j)}
           L == {j \in S : TenantOf[j] = t}
<1>1. L \subseteq Rows(t) /\ Rows(t) \in SUBSET Jobs
  BY SchedulerAssumption DEF Rows, HasRow, Lapsed, NoRow
<1>2. Rows(t)' = Rows(t) \ L
  BY DEF Reap, Rows, HasRow, Lapsed, TypeOK
<1>3. IsFiniteSet(Rows(t)) /\ Cardinality(Rows(t)) \in Nat /\ Cardinality(L) \in Nat
      /\ Cardinality(L) <= Cardinality(Rows(t))
  BY <1>1, JobsCount, FS_Subset
<1>4. Cardinality(Rows(t)') = Cardinality(Rows(t)) - Cardinality(L)
  <2>1. Rows(t) \cap L = L
    BY <1>1
  <2>2. QED
    BY <1>2, <1>3, <2>1, FS_Difference
<1>5. counter'[t] = Less(counter[t], Cardinality(L))
  BY DEF Reap
<1>6. counter[t] = Cardinality(Rows(t)) /\ (t \in Limited => counter[t] <= Quota[t])
  BY DEF PermitsConserved, Rows
<1>7. t \in Limited => Quota[t] \in Nat
  BY SchedulerAssumption
<1>8. QED
  BY <1>3, <1>4, <1>5, <1>6, <1>7 DEF Less

\* A claim adds a row and counts it, or does neither: a repeated one finds its row.
LEMMA ClaimConserves ==
    ASSUME TypeOK, PumpSound, PermitsConserved, NEW r \in Replicas, Claim(r)
    PROVE  PermitsConserved'
<1>1. PICK j \in Jobs : j = pump[r].cur /\ TenantOf[j] \in Limited /\ TenantOf[j] \in Tenants
  BY SchedulerAssumption DEF Claim, PumpSound, Shape, Placing, InLedger, IsLimited
<1>2. CASE ~Claims(j)
  BY <1>1, <1>2, RowsKept DEF Claim, RowsAsBefore, HasRow
<1>3. CASE Claims(j)
  <2>1. /\ permit' = [permit EXCEPT ![j] = 0]
        /\ counter' = [counter EXCEPT ![TenantOf[j]] = counter[TenantOf[j]] + 1]
        /\ ~HasRow(j) /\ counter[TenantOf[j]] < Quota[TenantOf[j]]
    BY <1>1, <1>3 DEF Claim, Claims
  <2>2. HasRow(j)' /\ \A k \in Jobs \ {j} : HasRow(k)' <=> HasRow(k)
    BY <1>1, <2>1, SchedulerAssumption DEF HasRow, NoRow, TypeOK
  <2> SUFFICES ASSUME NEW t \in Tenants
               PROVE  /\ counter'[t] = Cardinality(Rows(t)')
                      /\ t \in Limited => counter'[t] <= Quota[t]
    BY DEF PermitsConserved, Rows
  <2>3. counter[t] = Cardinality(Rows(t)) /\ (t \in Limited => counter[t] <= Quota[t])
    BY DEF PermitsConserved, Rows
  <2>4. CASE t # TenantOf[j]
    <3>1. Rows(t)' = Rows(t) /\ counter'[t] = counter[t]
      BY <2>1, <2>2, <2>4 DEF Rows, TypeOK
    <3>2. QED
      BY <2>3, <3>1
  <2>5. CASE t = TenantOf[j]
    <3>1. Rows(t)' = Rows(t) \cup {j} /\ j \notin Rows(t) /\ Rows(t) \in SUBSET Jobs
      BY <1>1, <2>1, <2>2, <2>5 DEF Rows
    <3>2. Cardinality(Rows(t)') = Cardinality(Rows(t)) + 1
      BY <3>1, JobsCount, FS_AddElement
    <3>3. counter'[t] = counter[t] + 1 /\ counter[t] \in Nat /\ Quota[t] \in Nat
      BY <1>1, <2>1, <2>5, SchedulerAssumption DEF TypeOK
    <3>4. QED
      BY <2>1, <2>3, <2>5, <3>2, <3>3
  <2>6. QED
    BY <2>4, <2>5
<1>4. QED
  BY <1>2, <1>3

\* A release lowers the count only if it took the row.
LEMMA ReleaseConserves ==
    ASSUME TypeOK, PermitsConserved, NEW j \in Jobs, Release(j) PROVE PermitsConserved'
<1>1. TenantOf[j] \in Tenants /\ \A t \in Limited : Quota[t] \in Nat
  BY SchedulerAssumption
<1>2. CASE counter' = counter /\ (permit' = permit \/ ~HasRow(j))
  <2>1. \A k \in Jobs : HasRow(k)' <=> HasRow(k)
    BY <1>2 DEF Release, HasRow, TypeOK
  <2>2. QED
    BY <1>2, <2>1, RowsKept DEF RowsAsBefore
<1>3. CASE HasRow(j) /\ permit' = [permit EXCEPT ![j] = NoRow]
           /\ counter' = [counter EXCEPT ![TenantOf[j]] = Less(counter[TenantOf[j]], 1)]
  <2>1. ~HasRow(j)' /\ \A k \in Jobs \ {j} : HasRow(k)' <=> HasRow(k)
    BY <1>3 DEF HasRow, NoRow, TypeOK
  <2> SUFFICES ASSUME NEW t \in Tenants
               PROVE  /\ counter'[t] = Cardinality(Rows(t)')
                      /\ t \in Limited => counter'[t] <= Quota[t]
    BY DEF PermitsConserved, Rows
  <2>2. /\ counter[t] = Cardinality(Rows(t)) /\ counter[t] \in Nat
        /\ t \in Limited => counter[t] <= Quota[t]
    BY DEF PermitsConserved, Rows, TypeOK
  <2>3. CASE t # TenantOf[j]
    <3>1. Rows(t)' = Rows(t) /\ counter'[t] = counter[t]
      BY <1>3, <2>1, <2>3 DEF Rows, TypeOK
    <3>2. QED
      BY <2>2, <3>1
  <2>4. CASE t = TenantOf[j]
    <3>1. Rows(t)' = Rows(t) \ {j} /\ j \in Rows(t) /\ Rows(t) \in SUBSET Jobs
      BY <1>3, <2>1, <2>4 DEF Rows
    <3>2. IsFiniteSet(Rows(t)) /\ Cardinality(Rows(t)') = Cardinality(Rows(t)) - 1
      BY <3>1, JobsCount, FS_RemoveElement
    <3>3. Cardinality(Rows(t)) # 0
      BY <3>1, <3>2, FS_EmptySet
    <3>4. counter'[t] = Less(counter[t], 1)
      BY <1>1, <1>3, <2>4 DEF TypeOK
    <3>5. counter'[t] = counter[t] - 1
      BY <2>2, <3>3, <3>4 DEF Less
    <3>6. QED
      BY <1>1, <2>2, <3>2, <3>5
  <2>5. QED
    BY <2>3, <2>4
<1>4. QED
  BY <1>2, <1>3 DEF Release, CounterReleased

\* The statements that write the ledger; every other step leaves it alone.
LEMMA LedgerMoves ==
    ASSUME [Next]_vars
    PROVE  \/ \E r \in Replicas : Reap(r) \/ Claim(r) \/ Beat(r)
           \/ \E j \in Jobs : Release(j)
           \/ Tick
           \/ UNCHANGED <<permit, counter, reaped>>
<1>1. ASSUME NEW j \in Jobs, Dispatch(j) \/ Settle(j) \/ RecordSettled(j)
      PROVE  UNCHANGED <<permit, counter, reaped>>
  BY <1>1 DEF Dispatch, Settle, RecordSettled
<1>2. ASSUME NEW r \in Replicas, Probe(r) \/ Fleet(r) \/ Scan(r) \/ EndRound(r) \/ Refused(r)
      PROVE  UNCHANGED <<permit, counter, reaped>>
  BY <1>2 DEF Probe, Fleet, Scan, EndRound, Refused
<1>3. ASSUME NEW r \in Replicas, Room(r) \/ Granted(r) \/ Crash(r)
      PROVE  UNCHANGED <<permit, counter, reaped>>
  BY <1>3 DEF Room, Granted, Crash, Dies
<1>4. ASSUME NEW r \in Replicas, LedgerDown(r) \/ Cancel(r) \/ Poke(r)
      PROVE  UNCHANGED <<permit, counter, reaped>>
  BY <1>4 DEF LedgerDown, Cancel, Poke
<1>5. ASSUME NEW r \in Replicas, NEW b \in Backends, Unregister(r, b)
      PROVE  UNCHANGED <<permit, counter, reaped>>
  BY <1>5 DEF Unregister
<1>6. CASE UNCHANGED vars
  BY <1>6 DEF vars
<1>7. QED
  BY <1>1, <1>2, <1>3, <1>4, <1>5, <1>6 DEF Next, PumpStep, JobStep

\* Every step conserves the permits.
LEMMA NextConserves ==
    ASSUME TypeOK, PumpSound, PermitsConserved, [Next]_vars PROVE PermitsConserved'
<1>1. ASSUME NEW r \in Replicas, Reap(r) PROVE PermitsConserved'
  BY <1>1, ReapConserves
<1>2. ASSUME NEW r \in Replicas, Claim(r) PROVE PermitsConserved'
  BY <1>2, ClaimConserves
<1>3. ASSUME NEW j \in Jobs, Release(j) PROVE PermitsConserved'
  BY <1>3, ReleaseConserves
<1>4. ASSUME NEW r \in Replicas, Beat(r) PROVE PermitsConserved'
  <2>1. \A j \in Jobs : HasRow(j)' <=> HasRow(j)
    BY <1>4, SchedulerAssumption DEF Beat, HasRow, NoRow, TypeOK
  <2>2. QED
    BY <1>4, <2>1, RowsKept DEF Beat, RowsAsBefore
<1>5. ASSUME Tick PROVE PermitsConserved'
  <2>1. \A j \in Jobs : HasRow(j)' <=> HasRow(j)
    BY <1>5, SchedulerAssumption DEF Tick, HasRow, NoRow, TypeOK
  <2>2. QED
    BY <1>5, <2>1, RowsKept DEF Tick, RowsAsBefore
<1>6. ASSUME UNCHANGED <<permit, counter>> PROVE PermitsConserved'
  BY <1>6, RowsKept DEF RowsAsBefore, HasRow
<1>7. QED
  BY <1>1, <1>2, <1>3, <1>4, <1>5, <1>6, LedgerMoves

\* At the start there are no rows.
LEMMA InitConserves == Init => PermitsConserved
<1> SUFFICES ASSUME Init, NEW t \in Tenants
             PROVE  /\ counter[t] = Cardinality(Rows(t))
                    /\ t \in Limited => counter[t] <= Quota[t]
  BY DEF PermitsConserved, Rows
<1>1. Rows(t) = {} /\ counter[t] = 0
  BY DEF Init, Rows, HasRow
<1>2. QED
  BY <1>1, FS_EmptySet, SchedulerAssumption

\* CONSERVATION: in_flight of every tenant equals its permit rows and stays within its
\* quota, whatever tryAdmit calls are repeated after a lost reply, whatever the sweep
\* and releaseAdmission do to the same permit, and whoever crashes.
THEOREM PermitsAreConserved == Spec => []PermitsConserved
<1>1. TypeOK /\ PumpSound /\ PermitsConserved /\ [Next]_vars
        => (TypeOK /\ PumpSound /\ PermitsConserved)'
  BY NextTyped, NextShape, NextConserves
<1>2. QED
  BY <1>1, InitTyped, InitConserves, PTL DEF Spec

-----------------------------------------------------------------------------
(* The quota over the fleet.                                               *)

Hand(p) == Jobs \cap (p.todo \cup {p.cur})         \* the jobs a pump has in its hand
Right(j) == HasRow(j) \/ j \in reaped              \* a permit, or one lost to a lapse

\* What a pump has in its hand has been queued and is not running.
Handled == \A r \in Replicas : \A j \in Hand(pump[r]) : job[j].st \notin {"new", "running"}
\* A release under way is of a job that will never need its permit again.
ReleasesLate == \A j \in releasing : job[j].st \in Answered
\* A limited job that runs, or whose permit was just granted, has the right to.
RunsPermitted == \A j \in Jobs : job[j].st = "running" /\ IsLimited(j) => Right(j)
GrantSound == \A r \in Replicas : pump[r].pc = "granted" /\ job[pump[r].cur].st = "queued"
                                    => Right(pump[r].cur)
RightsSound == Handled /\ ReleasesLate /\ RunsPermitted /\ GrantSound

\* A pump takes into its hand only what is in its queue, and learns of a grant only
\* when the row is there.
LEMMA PumpMoves ==
    ASSUME TypeOK, PumpSound, [Next]_vars, NEW q \in Replicas
    PROVE  /\ \A j \in Hand(pump'[q]) : j \in Hand(pump[q]) \/ job'[j].st = "queued"
           /\ pump'[q].pc = "granted" => \/ pump[q].pc = "granted" /\ pump'[q].cur = pump[q].cur
                                         \/ HasRow(pump[q].cur)'
<1> DEFINE Goal == /\ \A j \in Hand(pump'[q]) : j \in Hand(pump[q]) \/ job'[j].st = "queued"
                   /\ pump'[q].pc = "granted" =>
                        \/ pump[q].pc = "granted" /\ pump'[q].cur = pump[q].cur
                        \/ HasRow(pump[q].cur)'
<1>a. \A r \in Replicas : pump[r] \in Pump
  BY DEF TypeOK
<1>b. ASSUME NEW r \in Replicas, NEW p, pump' = [pump EXCEPT ![r] = p],
             \A j \in Hand(p) : j \in Hand(pump[r]) \/ job'[j].st = "queued", p.pc # "granted"
      PROVE  Goal
  BY <1>b DEF TypeOK
<1>c. ASSUME pump' = pump PROVE Goal
  BY <1>c
<1>d. Hand(Resting) = {}
  BY SchedulerAssumption DEF Hand, Resting
<1>e. ASSUME NEW r \in Replicas, Dies(r) PROVE Goal
  BY <1>b, <1>d, <1>e DEF Dies, Resting
<1>f. ASSUME NEW r \in Replicas, NEW c \in {"reap", "claim", "refused"},
             pump' = [pump EXCEPT ![r] = [pump[r] EXCEPT !.pc = c]]
      PROVE  Goal
  <2>1. Hand([pump[r] EXCEPT !.pc = c]) = Hand(pump[r]) /\ [pump[r] EXCEPT !.pc = c].pc = c
    BY <1>a DEF Hand, Pump
  <2>2. QED
    BY <1>b, <1>f, <2>1
<1>g. ASSUME NEW r \in Replicas, NEW p \in Pump, job' = job,
             pump' = [pump EXCEPT ![r] = Round(p, job, r)]
      PROVE  Goal
  <2>1. Hand(Round(p, job, r)) = Queue(job, r) /\ Round(p, job, r).pc = "scan"
    BY SchedulerAssumption DEF Hand, Round, Pump, Queue
  <2>2. QED
    BY <1>b, <1>g, <2>1 DEF Queue
<1>1. ASSUME NEW j \in Jobs, Dispatch(j) \/ Settle(j) PROVE Goal
  <2> DEFINE r == ReplicaOf[j]
  <2>1. r \in Replicas
    BY SchedulerAssumption
  <2>2. pump' = pump \/ \E jb : pump' = [pump EXCEPT ![r] = Woken(pump[r], jb, r)]
    BY <1>1 DEF Dispatch, Settle
  <2>3. \A jb : \/ Woken(pump[r], jb, r) = pump[r]
                \/ /\ Hand(Woken(pump[r], jb, r)) = Hand(pump[r])
                   /\ Woken(pump[r], jb, r).pc = "probe"
    BY <1>a, <2>1 DEF Hand, Pump, Woken
  <2>4. ASSUME NEW jb, pump' = [pump EXCEPT ![r] = Woken(pump[r], jb, r)] PROVE Goal
    <3>1. CASE Woken(pump[r], jb, r) = pump[r]
      <4>1. pump' = pump
        BY <2>4, <3>1 DEF TypeOK
      <4>2. QED
        BY <1>c, <4>1
    <3>2. QED
      BY <1>b, <2>1, <2>3, <2>4, <3>1
  <2>5. QED
    BY <1>c, <2>2, <2>4
<1>2. ASSUME NEW r \in Replicas, Poke(r) PROVE Goal
  <2>1. pump' = [pump EXCEPT ![r] = [pump[r] EXCEPT !.pc = "probe"]]
    BY <1>2 DEF Poke, Woken
  <2>2. Hand([pump[r] EXCEPT !.pc = "probe"]) = Hand(pump[r])
        /\ [pump[r] EXCEPT !.pc = "probe"].pc = "probe"
    BY <1>a DEF Hand, Pump
  <2>3. QED
    BY <1>b, <2>1, <2>2
<1>3. ASSUME NEW r \in Replicas, Probe(r) PROVE Goal
  <2>1. PICK u : pump' = [pump EXCEPT ![r] = [pump[r] EXCEPT !.pc = "fleet", !.used = u]]
    BY <1>3 DEF Probe
  <2> DEFINE p == [pump[r] EXCEPT !.pc = "fleet", !.used = u]
  <2>2. Hand(p) = Hand(pump[r]) /\ p.pc = "fleet"
    BY <1>a DEF Hand, Pump
  <2>3. QED
    BY <1>b, <2>1, <2>2
<1>4. ASSUME NEW r \in Replicas, Fleet(r) PROVE Goal
  <2> DEFINE base == [t \in Tenants |-> tenantCountFor(job, r, t)]
  <2>1. PICK s \in [Tenants -> 0..Cardinality(Jobs)] :
           LET p == [pump[r] EXCEPT !.seen = s, !.base = base]
           IN pump' = [pump EXCEPT ![r] = IF Queue(job, r) = {} THEN Resting ELSE Round(p, job, r)]
    BY <1>4 DEF Fleet
  <2>2. s \in [Tenants -> Nat] /\ base \in [Tenants -> Nat]
    BY JobsCount, CountType
  <2> DEFINE p == [pump[r] EXCEPT !.seen = s, !.base = base]
  <2>3. p \in Pump
    BY <1>a, <2>2, ReadingType
  <2>4. CASE pump' = [pump EXCEPT ![r] = Resting]
    BY <1>b, <1>d, <2>4 DEF Resting
  <2>5. CASE pump' = [pump EXCEPT ![r] = Round(p, job, r)]
    BY <1>4, <1>g, <2>3, <2>5 DEF Fleet
  <2>6. QED
    BY <2>1, <2>4, <2>5
<1>5. ASSUME NEW r \in Replicas, EndRound(r) PROVE Goal
  <2>1. CASE pump' = [pump EXCEPT ![r] = Resting]
    BY <1>b, <1>d, <2>1 DEF Resting
  <2>2. CASE pump' = [pump EXCEPT ![r] = Round(pump[r], job, r)]
    BY <1>5, <1>a, <1>g, <2>2 DEF EndRound
  <2>3. QED
    BY <1>5, <2>1, <2>2 DEF EndRound
<1>6. ASSUME NEW r \in Replicas, Scan(r) PROVE Goal
  <2>1. PICK j \in pump[r].todo :
          LET rest == [pump[r] EXCEPT !.todo = @ \ {j}] IN
          \/ pump' = [pump EXCEPT ![r] = rest]
          \/ pump' = [pump EXCEPT ![r] = [rest EXCEPT !.placed = TRUE]]
          \/ \E b : pump' = [pump EXCEPT ![r] = [rest EXCEPT !.pc = "room", !.cur = j, !.on = b]]
    BY <1>6 DEF Scan
  <2> DEFINE rest == [pump[r] EXCEPT !.todo = @ \ {j}]
  <2>2. /\ Hand(rest) \subseteq Hand(pump[r]) /\ rest.pc = "scan"
        /\ Hand([rest EXCEPT !.placed = TRUE]) \subseteq Hand(pump[r])
        /\ [rest EXCEPT !.placed = TRUE].pc = "scan"
    <3>1. rest.todo = pump[r].todo \ {j} /\ rest.cur = pump[r].cur /\ rest.pc = "scan"
      BY <1>6, <1>a DEF Pump, Scan
    <3>2. /\ [rest EXCEPT !.placed = TRUE].todo = rest.todo
          /\ [rest EXCEPT !.placed = TRUE].cur = rest.cur
          /\ [rest EXCEPT !.placed = TRUE].pc = rest.pc
      BY <1>a DEF Pump
    <3>3. QED
      BY <3>1, <3>2 DEF Hand
  <2>3. \A b : /\ Hand([rest EXCEPT !.pc = "room", !.cur = j, !.on = b]) \subseteq Hand(pump[r])
               /\ [rest EXCEPT !.pc = "room", !.cur = j, !.on = b].pc = "room"
    BY <1>a DEF Hand, Pump
  <2>4. QED
    BY <1>b, <2>1, <2>2, <2>3
<1>7. ASSUME NEW r \in Replicas, Room(r) \/ Granted(r) \/ Refused(r) PROVE Goal
  <2>1. /\ Hand(Placed(pump[r])) \subseteq Hand(pump[r]) /\ Placed(pump[r]).pc = "scan"
        /\ Hand(Passed(pump[r])) \subseteq Hand(pump[r]) /\ Passed(pump[r]).pc = "scan"
    BY <1>a, SchedulerAssumption DEF Hand, Pump, Placed, Passed
  <2>2. CASE \/ pump' = [pump EXCEPT ![r] = Placed(pump[r])]
             \/ pump' = [pump EXCEPT ![r] = Passed(pump[r])]
    BY <1>b, <2>1, <2>2
  <2>3. CASE pump' = [pump EXCEPT ![r] = [pump[r] EXCEPT !.pc = "reap"]]
    BY <1>f, <2>3
  <2>4. QED
    BY <1>7, <1>e, <2>2, <2>3 DEF Room, Granted, Refused
<1>8. ASSUME NEW r \in Replicas, Reap(r) \/ LedgerDown(r) PROVE Goal
  BY <1>8, <1>f DEF Reap, LedgerDown
<1>9. ASSUME NEW r \in Replicas, Claim(r) PROVE Goal
  <2>1. PICK j \in Jobs : j = pump[r].cur
    BY <1>9 DEF Claim, PumpSound, Shape, Placing
  <2>2. CASE pump' = [pump EXCEPT ![r] = [pump[r] EXCEPT !.pc = "refused"]]
    BY <1>f, <2>2
  <2>3. CASE pump' = [pump EXCEPT ![r] = [pump[r] EXCEPT !.pc = "granted"]]
             /\ (HasRow(j) \/ Claims(j))
    <3>1. HasRow(j)'
      BY <1>9, <2>1, <2>3, SchedulerAssumption DEF Claim, HasRow, NoRow, TypeOK
    <3> DEFINE p == [pump[r] EXCEPT !.pc = "granted"]
    <3>2. Hand(p) = Hand(pump[r]) /\ p.pc = "granted" /\ p.cur = j
      BY <1>a, <2>1 DEF Hand, Pump
    <3>3. pump'[r] = p /\ \A x \in Replicas \ {r} : pump'[x] = pump[x]
      BY <2>3 DEF TypeOK
    <3>4. CASE q = r
      BY <3>1, <3>2, <3>3, <3>4 DEF HasRow, NoRow
    <3>5. CASE q # r
      BY <3>3, <3>5
    <3>6. QED
      BY <3>4, <3>5
  <2>4. QED
    BY <1>9, <2>1, <2>2, <2>3 DEF Claim
<1>10. ASSUME NEW r \in Replicas, Crash(r) PROVE Goal
  BY <1>10, <1>e DEF Crash
<1>11. QED
  BY <1>1, <1>2, <1>3, <1>4, <1>5, <1>6, <1>7, <1>8, <1>9, <1>10, <1>c
  DEF Next, PumpStep, JobStep, RecordSettled, Release, Cancel, Beat, Unregister, Tick, vars

\* A right is lost only to a release that was under way.
LEMMA RightsKept ==
    ASSUME TypeOK, PumpSound, [Next]_vars, NEW j \in Jobs, Right(j), j \notin releasing
    PROVE  Right(j)'
<1>1. ASSUME NEW r \in Replicas, Reap(r) PROVE Right(j)'
  BY <1>1 DEF Reap, Right, HasRow, Lapsed, TypeOK
<1>2. ASSUME NEW r \in Replicas, Claim(r) PROVE Right(j)'
  BY <1>2, SchedulerAssumption DEF Claim, Right, HasRow, NoRow, TypeOK
<1>3. ASSUME NEW k \in Jobs, Release(k) PROVE Right(j)'
  BY <1>3 DEF Release, Right, HasRow, TypeOK
<1>4. ASSUME NEW r \in Replicas, Beat(r) PROVE Right(j)'
  BY <1>4, SchedulerAssumption DEF Beat, Right, HasRow, NoRow, TypeOK
<1>5. ASSUME Tick PROVE Right(j)'
  BY <1>5, SchedulerAssumption DEF Tick, Right, HasRow, NoRow, TypeOK
<1>6. ASSUME UNCHANGED <<permit, reaped>> PROVE Right(j)'
  BY <1>6 DEF Right, HasRow
<1>7. QED
  BY <1>1, <1>2, <1>3, <1>4, <1>5, <1>6, LedgerMoves

\* A permit is returned only for a job that has its answer.
LEMMA ReleaseMoves ==
    ASSUME TypeOK, PumpSound, Handled, [Next]_vars, NEW j \in releasing', j \notin releasing
    PROVE  job'[j].st \in Answered
<1>1. ASSUME NEW k \in Jobs, Settle(k) PROVE job'[j].st \in Answered
  <2>1. j = k
    BY <1>1 DEF Settle, Returned
  <2>2. QED
    BY <1>1, <2>1 DEF Settle, TypeOK, Answered
<1>2. ASSUME NEW r \in Replicas, Cancel(r) PROVE job'[j].st \in Answered
  <2>1. PICK S \in SUBSET Queue(job, r) :
          /\ job' = [k \in Jobs |-> IF k \in S THEN [job[k] EXCEPT !.st = "cancelled"] ELSE job[k]]
          /\ Returned(S)
    BY <1>2 DEF Cancel
  <2>2. j \in S /\ j \in Jobs
    BY <2>1 DEF Returned, Queue
  <2>3. QED
    BY <2>1, <2>2 DEF TypeOK, Job, Answered
<1>3. ASSUME NEW r \in Replicas, Granted(r) PROVE job'[j].st \in Answered
  <2>1. ~StillQueued(r, pump[r], job) /\ Returned({pump[r].cur}) /\ job' = job
    BY <1>3 DEF Granted, Dies
  <2>2. j = pump[r].cur /\ j \in Jobs
    BY <1>3, <2>1 DEF Returned, Granted, PumpSound, Shape, Placing
  <2>3. job[j].st \notin {"queued", "new", "running"}
    BY <2>1, <2>2 DEF StillQueued, Handled, Hand
  <2>4. QED
    BY <2>1, <2>2, <2>3 DEF TypeOK, Job
<1>4. ASSUME releasing' \subseteq releasing PROVE FALSE
  BY <1>4
<1>5. ASSUME NEW k \in Jobs, Dispatch(k) \/ RecordSettled(k) \/ Release(k) PROVE FALSE
  BY <1>4, <1>5 DEF Dispatch, RecordSettled, Release
<1>6. ASSUME NEW r \in Replicas, Probe(r) \/ Fleet(r) \/ Scan(r) \/ EndRound(r) \/ Refused(r)
      PROVE  FALSE
  BY <1>4, <1>6 DEF Probe, Fleet, Scan, EndRound, Refused
<1>7. ASSUME NEW r \in Replicas, Room(r) \/ Reap(r) \/ Claim(r) \/ LedgerDown(r) PROVE FALSE
  BY <1>4, <1>7 DEF Room, Dies, Reap, Claim, LedgerDown
<1>8. ASSUME NEW r \in Replicas, Poke(r) \/ Beat(r) \/ Crash(r) PROVE FALSE
  BY <1>4, <1>8 DEF Poke, Beat, Crash, Dies
<1>9. ASSUME NEW r \in Replicas, NEW b \in Backends, Unregister(r, b) PROVE FALSE
  BY <1>4, <1>9 DEF Unregister
<1>10. ASSUME Tick \/ UNCHANGED vars PROVE FALSE
  BY <1>4, <1>10 DEF Tick, vars
<1>11. QED
  BY <1>1, <1>2, <1>3, <1>5, <1>6, <1>7, <1>8, <1>9, <1>10 DEF Next, PumpStep, JobStep

\* RightsSound is inductive.
LEMMA NextRights ==
    ASSUME TypeOK, PumpSound, RightsSound, [Next]_vars PROVE RightsSound'
<1> USE DEF RightsSound
<1>a. TypeOK' /\ PumpSound'
  BY NextTyped, NextShape
<1>b. ASSUME NEW r \in Replicas, Starts(r)
      PROVE  /\ pump[r].cur \in Jobs /\ job[pump[r].cur].st = "queued"
             /\ job'[pump[r].cur].st = "running"
             /\ \A j \in Jobs \ {pump[r].cur} : job'[j] = job[j]
  BY <1>b DEF Starts, TypeOK, PumpSound, Shape, Placing
\* An answer stays, and no job becomes new or goes back to the queue.
<1>c. ASSUME NEW j \in Jobs
      PROVE  /\ job[j].st \in Answered => job'[j].st \in Answered
             /\ job'[j].st = "queued" => job[j].st \in {"queued", "new"}
             /\ job'[j].st = "new" => job[j].st = "new"
  <2>1. CASE Moves(job[j], job'[j])
    BY <2>1 DEF Moves, Answered
  <2>2. CASE job[j].st = "queued" /\ job'[j].st = "running"
    BY <2>2 DEF Answered
  <2>3. QED
    BY <1>b, <2>1, <2>2, JobMoves DEF Quiet, Moves
\* A job that runs now ran before or was in the hand of its replica's pump.
<1>d. ASSUME NEW j \in Jobs, job'[j].st = "running", job[j].st # "running"
      PROVE  \E r \in Replicas : Starts(r) /\ j = pump[r].cur
  <2>1. ~Quiet
    BY <1>d DEF Quiet, Moves, Answered
  <2>2. QED
    BY <1>b, <1>d, <2>1, JobMoves
<1>1. Handled'
  <2> SUFFICES ASSUME NEW q \in Replicas, NEW j \in Hand(pump'[q])
               PROVE  job'[j].st \notin {"new", "running"}
    BY DEF Handled, Hand
  <2>1. CASE job'[j].st = "queued"
    BY <2>1
  <2>2. CASE j \in Hand(pump[q])
    <3>1. j \in Jobs /\ job[j].st \notin {"new", "running"}
      BY <2>2 DEF Handled, Hand
    <3>2. ASSUME NEW r \in Replicas, Starts(r), j = pump[r].cur PROVE FALSE
      <4>1. ReplicaOf[j] = r /\ ReplicaOf[j] = q
        BY <2>2, <3>1, <3>2 DEF PumpSound, Shape, Hand
      <4>2. pump[r] \in Pump /\ pump'[q] = Placed(pump[r])
        BY <3>2, <4>1 DEF Starts, TypeOK
      <4>3. Hand(pump'[q]) = Jobs \cap pump[r].todo
        BY <4>2, SchedulerAssumption DEF Placed, Pump, Hand
      <4>4. QED
        BY <3>2, <4>1, <4>3 DEF PumpSound, Shape
    <3>3. QED
      BY <1>c, <1>d, <3>1, <3>2
  <2>3. QED
    BY <2>1, <2>2, PumpMoves
<1>2. ReleasesLate'
  <2> SUFFICES ASSUME NEW j \in releasing' PROVE job'[j].st \in Answered
    BY DEF ReleasesLate
  <2>1. j \in Jobs
    BY <1>a DEF TypeOK
  <2>2. QED
    BY <1>c, <2>1, ReleaseMoves DEF ReleasesLate
<1>3. RunsPermitted'
  <2> SUFFICES ASSUME NEW j \in Jobs, job'[j].st = "running", IsLimited(j) PROVE Right(j)'
    BY DEF RunsPermitted, Right, HasRow, IsLimited
  <2>1. Right(j) /\ job[j].st \in {"queued", "running"}
    <3>1. CASE job[j].st = "running"
      BY <3>1 DEF RunsPermitted
    <3>2. CASE job[j].st # "running"
      <4>1. PICK r \in Replicas : Starts(r) /\ j = pump[r].cur
        BY <1>d, <3>2
      <4>2. QED
        BY <4>1 DEF Starts, GrantSound
    <3>3. QED
      BY <3>1, <3>2
  <2>2. j \notin releasing
    BY <2>1 DEF ReleasesLate, Answered
  <2>3. QED
    BY <2>1, <2>2, RightsKept
<1>4. GrantSound'
  <2> SUFFICES ASSUME NEW q \in Replicas, pump'[q].pc = "granted", job'[pump'[q].cur].st = "queued"
               PROVE  Right(pump[q].cur)'
    BY DEF GrantSound
  <2>1. CASE pump[q].pc = "granted" /\ pump'[q].cur = pump[q].cur
    <3>1. PICK j \in Jobs : j = pump[q].cur
      BY <2>1 DEF PumpSound, Shape, Placing
    <3>2. job[j].st = "queued"
      BY <1>c, <2>1, <3>1 DEF Handled, Hand
    <3>3. Right(j) /\ j \notin releasing
      BY <2>1, <3>1, <3>2 DEF GrantSound, ReleasesLate, Answered
    <3>4. Right(j)'
      BY <3>3, RightsKept
    <3>5. QED
      BY <2>1, <3>1, <3>4 DEF Right, HasRow
  <2>2. QED
    BY <2>1, PumpMoves DEF Right, HasRow
<1>5. QED
  BY <1>1, <1>2, <1>3, <1>4

\* RightsSound holds at the start.
LEMMA InitRights == Init => RightsSound
  BY SchedulerAssumption
  DEF Init, RightsSound, Handled, ReleasesLate, RunsPermitted, GrantSound, Hand, Resting

\* Jobs with distinct permits cannot outnumber the permits.
LEMMA RightsBound ==
    ASSUME TypeOK, PermitsConserved, RunsPermitted PROVE QuotaHeld
<1> SUFFICES ASSUME NEW t \in Limited
             PROVE  Cardinality(RunningOf(job, t) \ reaped) <= Quota[t]
  BY DEF QuotaHeld
<1>1. t \in Tenants /\ Quota[t] \in Nat
  BY SchedulerAssumption
<1>2. RunningOf(job, t) \ reaped \in SUBSET Rows(t) /\ Rows(t) \in SUBSET Jobs
  BY DEF RunningOf, RunsPermitted, Right, Rows, IsLimited
<1>3. Cardinality(RunningOf(job, t) \ reaped) <= Cardinality(Rows(t))
  BY <1>2, JobsCount, FS_Subset
<1>4. Cardinality(Rows(t)) <= Quota[t]
  BY <1>1 DEF PermitsConserved, Rows
<1>5. Cardinality(Rows(t)) \in Nat /\ Cardinality(RunningOf(job, t) \ reaped) \in Nat
  BY <1>2, JobsCount
<1>6. QED
  BY <1>1, <1>3, <1>4, <1>5

\* THE QUOTA IS FLEET-WIDE: whatever the pumps of the replicas read before they ask
\* the ledger, and whatever calls fail or repeat, a limited tenant never runs more
\* jobs than its quota over all replicas, those apart whose permit lapsed under them.
THEOREM QuotaIsHeld == Spec => []QuotaHeld
<1> DEFINE I == TypeOK /\ PumpSound /\ PermitsConserved /\ RightsSound
<1>1. Init => I
  BY InitTyped, InitConserves, InitRights
<1>2. I /\ [Next]_vars => I'
  BY NextTyped, NextShape, NextConserves, NextRights
<1>3. I => QuotaHeld
  BY RightsBound DEF RightsSound
<1>4. QED
  BY <1>1, <1>2, <1>3, PTL DEF Spec

-----------------------------------------------------------------------------
(* The pool of permits: the refinement of AdmissionContract.               *)

\* What a pump has brought to the ledger has asked for a permit.
Asked == \A r \in Replicas : pump[r].pc \in InLedger => pump[r].cur \in asked
\* A replica renews the permits of its own limited runs only.
LiveSound ==
    \A r \in Replicas : \A j \in live[r] :
       j \in Jobs /\ ReplicaOf[j] = r /\ job[j].st = "running" /\ IsLimited(j) /\ j \in asked
\* Since the sweep of a pump that is past it no lease has run out.
Swept == (\E r \in Replicas : pump[r].pc \in {"claim", "granted"}) => \A j \in Jobs : ~Lapsed(j)
\* A grant still has its row when the pump comes to commit it.
HeldGrants == \A r \in Replicas : pump[r].pc = "granted" /\ job[pump[r].cur].st = "queued"
                                    => HasRow(pump[r].cur)
PoolSound == Asked /\ LiveSound /\ Swept /\ HeldGrants

\* A pump comes to the ledger having asked, and past its sweep only by it.
LEMMA LedgerPumps ==
    ASSUME TypeOK, PumpSound, [Next]_vars, NEW q \in Replicas, pump'[q].pc \in InLedger
    PROVE  \/ /\ pump[q].pc \in InLedger /\ pump'[q].cur = pump[q].cur
              /\ \/ Reap(q)
                 \/ pump'[q].pc \in {"claim", "granted"} => pump[q].pc \in {"claim", "granted"}
           \/ pump'[q].pc = "reap" /\ pump'[q].cur \in asked'
<1> DEFINE Goal == \/ /\ pump[q].pc \in InLedger /\ pump'[q].cur = pump[q].cur
                      /\ \/ Reap(q)
                         \/ pump'[q].pc \in {"claim", "granted"} => pump[q].pc \in {"claim", "granted"}
                   \/ pump'[q].pc = "reap" /\ pump'[q].cur \in asked'
<1>a. \A r \in Replicas : pump[r] \in Pump
  BY DEF TypeOK
<1>b. ASSUME NEW r \in Replicas, NEW p, pump' = [pump EXCEPT ![r] = p], p.pc \notin InLedger PROVE Goal
  BY <1>b DEF TypeOK
<1>c. ASSUME pump' = pump PROVE Goal
  BY <1>c
<1>d. ASSUME NEW r \in Replicas, Dies(r) PROVE Goal
  BY <1>b, <1>d DEF Dies, Resting, InLedger
<1>e. \A p, r, jb : Round(p, jb, r).pc = "scan" \/ p \notin Pump
  BY DEF Round, Pump
<1>1. ASSUME NEW j \in Jobs, Dispatch(j) \/ Settle(j) PROVE Goal
  <2> DEFINE r == ReplicaOf[j]
  <2>1. r \in Replicas
    BY SchedulerAssumption
  <2>2. pump' = pump \/ \E jb : pump' = [pump EXCEPT ![r] = Woken(pump[r], jb, r)]
    BY <1>1 DEF Dispatch, Settle
  <2>3. \A jb : Woken(pump[r], jb, r) = pump[r] \/ Woken(pump[r], jb, r).pc = "probe"
    BY <1>a, <2>1 DEF Pump, Woken
  <2>4. ASSUME NEW jb, pump' = [pump EXCEPT ![r] = Woken(pump[r], jb, r)] PROVE Goal
    <3>1. CASE Woken(pump[r], jb, r) = pump[r]
      <4>1. pump' = pump
        BY <2>4, <3>1 DEF TypeOK
      <4>2. QED
        BY <1>c, <4>1
    <3>2. QED
      BY <1>b, <2>1, <2>3, <2>4, <3>1 DEF InLedger
  <2>5. QED
    BY <1>c, <2>2, <2>4
<1>2. ASSUME NEW r \in Replicas, Poke(r) PROVE Goal
  <2>1. pump' = [pump EXCEPT ![r] = [pump[r] EXCEPT !.pc = "probe"]]
    BY <1>2 DEF Poke, Woken
  <2>2. [pump[r] EXCEPT !.pc = "probe"].pc = "probe"
    BY <1>a DEF Pump
  <2>3. QED
    BY <1>b, <2>1, <2>2 DEF InLedger
<1>3. ASSUME NEW r \in Replicas, Probe(r) PROVE Goal
  <2>1. PICK u : pump' = [pump EXCEPT ![r] = [pump[r] EXCEPT !.pc = "fleet", !.used = u]]
    BY <1>3 DEF Probe
  <2>2. [pump[r] EXCEPT !.pc = "fleet", !.used = u].pc = "fleet"
    BY <1>a DEF Pump
  <2>3. QED
    BY <1>b, <2>1, <2>2 DEF InLedger
<1>4. ASSUME NEW r \in Replicas, Fleet(r) PROVE Goal
  <2> DEFINE base == [t \in Tenants |-> tenantCountFor(job, r, t)]
  <2>1. PICK s \in [Tenants -> 0..Cardinality(Jobs)] :
           LET p == [pump[r] EXCEPT !.seen = s, !.base = base]
           IN pump' = [pump EXCEPT ![r] = IF Queue(job, r) = {} THEN Resting ELSE Round(p, job, r)]
    BY <1>4 DEF Fleet
  <2>2. s \in [Tenants -> Nat] /\ base \in [Tenants -> Nat]
    BY JobsCount, CountType
  <2>3. [pump[r] EXCEPT !.seen = s, !.base = base] \in Pump
    BY <1>a, <2>2, ReadingType
  <2>4. Round([pump[r] EXCEPT !.seen = s, !.base = base], job, r).pc = "scan" /\ Resting.pc = "idle"
    BY <1>e, <2>3 DEF Resting
  <2>5. QED
    BY <1>b, <2>1, <2>4 DEF InLedger
<1>5. ASSUME NEW r \in Replicas, EndRound(r) PROVE Goal
  <2>1. Round(pump[r], job, r).pc = "scan" /\ Resting.pc = "idle"
    BY <1>a, <1>e DEF Resting
  <2>2. QED
    BY <1>b, <1>5, <2>1 DEF EndRound, InLedger
<1>6. ASSUME NEW r \in Replicas, Scan(r) PROVE Goal
  <2>1. PICK p : /\ pump' = [pump EXCEPT ![r] = p] /\ p.pc \in {"scan", "room"}
    <3>1. PICK j \in pump[r].todo :
            LET rest == [pump[r] EXCEPT !.todo = @ \ {j}] IN
            \/ pump' = [pump EXCEPT ![r] = rest]
            \/ pump' = [pump EXCEPT ![r] = [rest EXCEPT !.placed = TRUE]]
            \/ \E b : pump' = [pump EXCEPT ![r] = [rest EXCEPT !.pc = "room", !.cur = j, !.on = b]]
      BY <1>6 DEF Scan
    <3> DEFINE rest == [pump[r] EXCEPT !.todo = @ \ {j}]
    <3>2. rest.pc = "scan" /\ [rest EXCEPT !.placed = TRUE].pc = "scan"
      BY <1>6, <1>a DEF Pump, Scan
    <3>3. \A b : [rest EXCEPT !.pc = "room", !.cur = j, !.on = b].pc = "room"
      BY <1>a DEF Pump
    <3>4. QED
      BY <3>1, <3>2, <3>3
  <2>2. QED
    BY <1>b, <2>1 DEF InLedger
<1>7. ASSUME NEW r \in Replicas, Room(r) \/ Granted(r) \/ Refused(r) PROVE Goal
  <2>1. Placed(pump[r]).pc = "scan" /\ Passed(pump[r]).pc = "scan"
    BY <1>a DEF Pump, Placed, Passed
  <2>2. CASE \/ pump' = [pump EXCEPT ![r] = Placed(pump[r])]
             \/ pump' = [pump EXCEPT ![r] = Passed(pump[r])]
    BY <1>b, <2>1, <2>2 DEF InLedger
  <2>3. CASE pump' = [pump EXCEPT ![r] = [pump[r] EXCEPT !.pc = "reap"]]
             /\ asked' = asked \cup {pump[r].cur}
    <3>1. [pump[r] EXCEPT !.pc = "reap"].pc = "reap" /\ [pump[r] EXCEPT !.pc = "reap"].cur = pump[r].cur
      BY <1>a DEF Pump
    <3>2. pump'[r] = [pump[r] EXCEPT !.pc = "reap"] /\ \A x \in Replicas \ {r} : pump'[x] = pump[x]
      BY <2>3 DEF TypeOK
    <3>3. QED
      BY <2>3, <3>1, <3>2
  <2>4. QED
    BY <1>7, <1>d, <2>2, <2>3 DEF Room, Granted, Refused
<1>8. ASSUME NEW r \in Replicas, Reap(r) \/ LedgerDown(r) \/ Claim(r) PROVE Goal
  <2>1. PICK c \in {"claim", "refused", "granted"} :
          /\ pump' = [pump EXCEPT ![r] = [pump[r] EXCEPT !.pc = c]]
          /\ c = "claim" => Reap(r)
          /\ c = "granted" => pump[r].pc = "claim"
          /\ pump[r].pc \in InLedger
    BY <1>8 DEF Reap, LedgerDown, Claim, InLedger
  <2>2. [pump[r] EXCEPT !.pc = c].pc = c /\ [pump[r] EXCEPT !.pc = c].cur = pump[r].cur
    BY <1>a DEF Pump
  <2>3. pump'[r] = [pump[r] EXCEPT !.pc = c] /\ \A x \in Replicas \ {r} : pump'[x] = pump[x]
    BY <2>1 DEF TypeOK
  <2>4. CASE q = r
    BY <2>1, <2>2, <2>3, <2>4 DEF InLedger
  <2>5. CASE q # r
    BY <2>3, <2>5
  <2>6. QED
    BY <2>4, <2>5
<1>9. ASSUME NEW r \in Replicas, Crash(r) PROVE Goal
  BY <1>9, <1>d DEF Crash
<1>10. QED
  BY <1>1, <1>2, <1>3, <1>4, <1>5, <1>6, <1>7, <1>8, <1>9, <1>c
  DEF Next, PumpStep, JobStep, RecordSettled, Release, Cancel, Beat, Unregister, Tick, vars

\* Only time makes a lease run out, and time stands while a pump is at work.
LEMMA NextSwept ==
    ASSUME TypeOK, PumpSound, PoolSound, [Next]_vars PROVE Swept'
<1>1. CASE Tick
  <2>1. \A r \in Replicas : pump'[r].pc = "idle"
    BY <1>1 DEF Tick
  <2>2. QED
    BY <2>1 DEF Swept
<1>2. ASSUME NEW r \in Replicas, Reap(r) PROVE Swept'
  <2>1. \A j \in Jobs : ~Lapsed(j)'
    BY <1>2, SchedulerAssumption DEF Reap, Lapsed, NoRow
  <2>2. QED
    BY <2>1 DEF Swept, Lapsed
<1>3. CASE ~Tick /\ ~\E r \in Replicas : Reap(r)
  <2>1. ASSUME NEW j \in Jobs, ~Lapsed(j) PROVE ~Lapsed(j)'
    <3>1. ASSUME NEW r \in Replicas, Claim(r) \/ Beat(r) PROVE ~Lapsed(j)'
      BY <2>1, <3>1, SchedulerAssumption DEF Claim, Beat, Lapsed, TypeOK
    <3>2. ASSUME NEW k \in Jobs, Release(k) PROVE ~Lapsed(j)'
      BY <2>1, <3>2, SchedulerAssumption DEF Release, Lapsed, NoRow, TypeOK
    <3>3. ASSUME permit' = permit PROVE ~Lapsed(j)'
      BY <2>1, <3>3 DEF Lapsed
    <3>4. QED
      BY <1>3, <3>1, <3>2, <3>3, LedgerMoves
  <2>2. ASSUME NEW q \in Replicas, pump'[q].pc \in {"claim", "granted"}
        PROVE  pump[q].pc \in {"claim", "granted"}
    BY <1>3, <2>2, LedgerPumps DEF InLedger
  <2>3. QED
    BY <2>1, <2>2 DEF PoolSound, Swept, Lapsed
<1>4. QED
  BY <1>1, <1>2, <1>3

\* A row is lost to a release that was under way, or to the sweep of a lapsed lease.
LEMMA RowStays ==
    ASSUME TypeOK, [Next]_vars, NEW j \in Jobs, HasRow(j), ~Lapsed(j), j \notin releasing
    PROVE  HasRow(j)'
<1>1. ASSUME NEW r \in Replicas, Reap(r) PROVE HasRow(j)'
  BY <1>1 DEF Reap, HasRow, TypeOK
<1>2. ASSUME NEW r \in Replicas, Claim(r) \/ Beat(r) PROVE HasRow(j)'
  BY <1>2, SchedulerAssumption DEF Claim, Beat, HasRow, NoRow, TypeOK
<1>3. ASSUME NEW k \in Jobs, Release(k) PROVE HasRow(j)'
  BY <1>3 DEF Release, HasRow, TypeOK
<1>4. ASSUME Tick PROVE HasRow(j)'
  BY <1>4, SchedulerAssumption DEF Tick, HasRow, NoRow, TypeOK
<1>5. ASSUME permit' = permit PROVE HasRow(j)'
  BY <1>5 DEF HasRow
<1>6. QED
  BY <1>1, <1>2, <1>3, <1>4, <1>5, LedgerMoves

\* No step queues a job again.
LEMMA QueuedBefore ==
    ASSUME TypeOK, PumpSound, [Next]_vars, NEW j \in Jobs, job'[j].st = "queued"
    PROVE  job[j].st \in {"queued", "new"}
<1>1. CASE Quiet
  BY <1>1 DEF Quiet, Moves, Answered
<1>2. ASSUME NEW r \in Replicas, Starts(r) PROVE job[j].st \in {"queued", "new"}
  BY <1>2 DEF Starts, TypeOK
<1>3. QED
  BY <1>1, <1>2, JobMoves

LEMMA NextHeldGrants ==
    ASSUME TypeOK, PumpSound, RightsSound, PoolSound, [Next]_vars PROVE HeldGrants'
<1> SUFFICES ASSUME NEW q \in Replicas, pump'[q].pc = "granted", job'[pump'[q].cur].st = "queued"
             PROVE  HasRow(pump[q].cur)'
  BY DEF HeldGrants
<1>1. pump[q].pc \in {"claim", "granted"} /\ pump'[q].cur = pump[q].cur
  <2>1. ~Reap(q)
    <3> SUFFICES ASSUME Reap(q) PROVE FALSE
      OBVIOUS
    <3>1. pump'[q] = [pump[q] EXCEPT !.pc = "claim"] /\ pump[q] \in Pump
      BY DEF Reap, TypeOK
    <3>2. pump'[q].pc = "claim"
      BY <3>1 DEF Pump
    <3>3. QED
      BY <3>2
  <2>2. QED
    BY <2>1, LedgerPumps DEF InLedger
<1>2. PICK j \in Jobs : j = pump[q].cur
  BY <1>1 DEF PumpSound, Shape, Placing
<1>3. CASE pump[q].pc = "granted"
  <2>1. job[j].st = "queued"
    BY <1>1, <1>2, QueuedBefore DEF RightsSound, Handled, Hand
  <2>2. HasRow(j) /\ ~Lapsed(j)
    BY <1>2, <1>3, <2>1 DEF PoolSound, HeldGrants, Swept
  <2>3. j \notin releasing
    BY <2>1 DEF RightsSound, ReleasesLate, Answered
  <2>4. HasRow(j)'
    BY <2>2, <2>3, RowStays
  <2>5. QED
    BY <1>1, <1>2, <2>4 DEF HasRow
<1>4. CASE pump[q].pc = "claim"
  <2>1. HasRow(pump[q].cur)'
    BY <1>4, PumpMoves
  <2>2. QED
    BY <1>1, <2>1 DEF HasRow
<1>5. QED
  BY <1>1, <1>3, <1>4

LEMMA NextAsked ==
    ASSUME TypeOK, PumpSound, PoolSound, [Next]_vars PROVE Asked'
<1>1. asked \subseteq asked'
  <2>1. ASSUME NEW r \in Replicas, Room(r) PROVE asked \subseteq asked'
    BY <2>1 DEF Room, Dies
  <2>2. ASSUME asked' = asked PROVE asked \subseteq asked'
    BY <2>2
  <2>3. QED
    BY <2>1, <2>2
    DEF Next, PumpStep, JobStep, Dispatch, Settle, RecordSettled, Release, Probe, Fleet, Scan, EndRound,
        Granted, Refused, Reap, Claim, LedgerDown, Cancel, Poke, Beat, Crash, Dies, Unregister, Tick, vars
<1>2. QED
  BY <1>1, LedgerPumps DEF PoolSound, Asked

\* What a run's end takes from the live permits, and a commit adds to them.
LEMMA NextLive ==
    ASSUME TypeOK, PumpSound, PoolSound, [Next]_vars PROVE LiveSound'
<1> DEFINE Fit(r, j) == /\ j \in Jobs /\ ReplicaOf[j] = r /\ job[j].st = "running" /\ IsLimited(j)
                        /\ j \in asked
<1>a. \A r \in Replicas : \A j \in live[r] : Fit(r, j)
  BY DEF PoolSound, LiveSound
<1>b. ASSUME \A r \in Replicas : live'[r] \subseteq live[r], asked \subseteq asked',
             \A r \in Replicas : \A j \in live'[r] : job'[j].st = "running"
      PROVE  LiveSound'
  BY <1>a, <1>b DEF LiveSound, IsLimited
<1>1. ASSUME NEW k \in Jobs, Settle(k) PROVE LiveSound'
  <2>1. \A r \in Replicas : live'[r] = live[r] \ ({k} \cap asked)
    BY <1>1 DEF Settle, Returned
  <2>2. \A j \in Jobs \ {k} : job'[j] = job[j]
    BY <1>1 DEF Settle
  <2>3. asked' = asked
    BY <1>1 DEF Settle
  <2>4. QED
    BY <1>a, <1>b, <2>1, <2>2, <2>3
<1>2. ASSUME NEW r \in Replicas, Cancel(r) PROVE LiveSound'
  <2>1. PICK S \in SUBSET Queue(job, r) :
          /\ job' = [k \in Jobs |-> IF k \in S THEN [job[k] EXCEPT !.st = "cancelled"] ELSE job[k]]
          /\ Returned(S)
    BY <1>2 DEF Cancel
  <2>2. \A x \in Replicas : live'[x] \subseteq live[x]
    BY <2>1 DEF Returned
  <2>3. \A j \in Jobs : job[j].st = "running" => job'[j] = job[j]
    BY <2>1 DEF Queue
  <2>4. asked' = asked
    BY <1>2 DEF Cancel
  <2>5. QED
    BY <1>a, <1>b, <2>2, <2>3, <2>4
<1>3. ASSUME NEW r \in Replicas, Dies(r) PROVE LiveSound'
  <2>1. live'[r] = {} /\ \A x \in Replicas \ {r} : live'[x] = live[x]
    BY <1>3 DEF Dies, TypeOK
  <2>2. \A j \in Jobs : ReplicaOf[j] # r => job'[j] = job[j]
    BY <1>3 DEF Dies
  <2>3. asked' = asked
    BY <1>3 DEF Dies
  <2>4. QED
    BY <1>a, <1>b, <2>1, <2>2, <2>3
<1>4. ASSUME NEW r \in Replicas, Granted(r) PROVE LiveSound'
  <2>1. PICK j \in Jobs : j = pump[r].cur /\ ReplicaOf[j] = r /\ IsLimited(j) /\ j \in asked
    BY <1>4 DEF Granted, PumpSound, Shape, Placing, InLedger, PoolSound, Asked
  <2>2. CASE Commits(r) /\ live' = [live EXCEPT ![r] = @ \cup {j}]
             /\ job' = [job EXCEPT ![j] = [st |-> "running", on |-> pump[r].on]] /\ asked' = asked
    <3>1. live'[r] = live[r] \cup {j} /\ \A x \in Replicas \ {r} : live'[x] = live[x]
      BY <2>2 DEF TypeOK
    <3>2. job'[j].st = "running" /\ \A k \in Jobs \ {j} : job'[k] = job[k]
      BY <2>2 DEF TypeOK
    <3>3. QED
      BY <1>a, <2>1, <2>2, <3>1, <3>2 DEF LiveSound, IsLimited
  <2>3. CASE Returned({j}) /\ job' = job /\ asked' = asked
    <3>1. \A x \in Replicas : live'[x] \subseteq live[x]
      BY <2>3 DEF Returned
    <3>2. QED
      BY <1>a, <1>b, <2>3, <3>1
  <2>4. QED
    BY <1>3, <1>4, <2>1, <2>2, <2>3 DEF Granted
<1>5. ASSUME live' = live, asked \subseteq asked',
             \A j \in Jobs : job[j].st = "running" => job'[j].st = "running"
      PROVE  LiveSound'
  BY <1>a, <1>b, <1>5
<1>6. ASSUME live' = live, asked' = asked, job' = job PROVE LiveSound'
  BY <1>5, <1>6
<1>7. ASSUME NEW k \in Jobs, Dispatch(k) \/ RecordSettled(k) PROVE LiveSound'
  <2>1. job[k].st # "running" /\ \E x : job' = [job EXCEPT ![k] = x]
    <3>1. CASE Dispatch(k)
      BY <3>1 DEF Dispatch
    <3>2. CASE RecordSettled(k)
      BY <3>2 DEF RecordSettled
    <3>3. QED
      BY <1>7, <3>1, <3>2
  <2>2. live' = live /\ asked' = asked
    BY <1>7 DEF Dispatch, RecordSettled
  <2>3. QED
    BY <1>5, <2>1, <2>2
<1>8. ASSUME NEW r \in Replicas, Scan(r) PROVE LiveSound'
  <2>1. live' = live /\ asked' = asked
    BY <1>8 DEF Scan
  <2>2. PICK k \in pump[r].todo : job' = job \/ job' = Rejected(k)
    BY <1>8 DEF Scan
  <2>3. \A j \in Jobs : job[j].st = "running" => job'[j] = job[j]
    BY <2>2 DEF Rejected, TypeOK, Job
  <2>4. QED
    BY <1>5, <2>1, <2>3
<1>9. ASSUME NEW r \in Replicas, Room(r), ~Dies(r) PROVE LiveSound'
  <2>1. live' = live /\ asked \subseteq asked'
    BY <1>9 DEF Room
  <2>2. \A j \in Jobs : job[j].st = "running" => job'[j].st = "running"
    BY <1>9 DEF Room, TypeOK
  <2>3. QED
    BY <1>5, <2>1, <2>2
<1>10. QED
  BY <1>1, <1>2, <1>3, <1>4, <1>6, <1>7, <1>8, <1>9
  DEF Next, PumpStep, JobStep, Release, Probe, Fleet, EndRound, Refused, Reap, Claim, LedgerDown,
      Poke, Beat, Crash, Unregister, Tick, vars

\* PoolSound is inductive.
LEMMA NextPool ==
    ASSUME TypeOK, PumpSound, RightsSound, PoolSound, [Next]_vars PROVE PoolSound'
  BY NextAsked, NextLive, NextSwept, NextHeldGrants DEF PoolSound

LEMMA InitPool == Init => PoolSound
  BY DEF Init, PoolSound, Asked, LiveSound, Swept, HeldGrants, Resting, InLedger

\* Each step on the pool.
Held == {j \in Jobs : HasRow(j)}
Out == {j \in Jobs : Lapsed(j)}
Runs == {j \in Jobs : job[j].st = "running" /\ IsLimited(j)}
PoolStep ==
    \/ UNCHANGED <<Held, Out, Runs>>
    \/ Pool!Next

LEMMA OutHeld == Out \subseteq Held
  BY SchedulerAssumption DEF Out, Held, Lapsed, HasRow, NoRow

\* While the ledger stands, runs end or one starts.
LEMMA JobsPool ==
    ASSUME TypeOK, PumpSound, PoolSound, [Next]_vars, UNCHANGED permit
    PROVE  PoolStep
<1>1. Held' = Held /\ Out' = Out
  BY DEF Held, Out, HasRow, Lapsed
<1>2. CASE Quiet
  <2>1. Runs' \subseteq Runs
    BY <1>2 DEF Quiet, Moves, Answered, Runs, IsLimited
  <2>2. QED
    BY <1>1, <2>1 DEF PoolStep, Pool!Next, Pool!Ends, Held, Out, Runs
<1>3. ASSUME NEW r \in Replicas, Starts(r) PROVE PoolStep
  <2>1. PICK j \in Jobs : j = pump[r].cur /\ job[j].st = "queued"
    BY <1>3 DEF Starts, PumpSound, Shape, Placing
  <2>2. job'[j].st = "running" /\ \A k \in Jobs \ {j} : job'[k] = job[k]
    BY <1>3, <2>1 DEF Starts, TypeOK
  <2>3. CASE IsLimited(j)
    <3>1. j \in Held /\ j \notin Out /\ j \notin Runs
      BY <1>3, <2>1, <2>3 DEF Starts, PoolSound, HeldGrants, Swept, Held, Out, Runs
    <3>2. Runs' = Runs \cup {j}
      BY <2>2, <2>3 DEF Runs, IsLimited
    <3>3. QED
      BY <1>1, <3>1, <3>2 DEF PoolStep, Pool!Next, Pool!Starts, Held, Out, Runs
  <2>4. CASE ~IsLimited(j)
    <3>1. Runs' = Runs
      BY <2>2, <2>4 DEF Runs, IsLimited
    <3>2. QED
      BY <1>1, <3>1 DEF PoolStep
  <2>5. QED
    BY <2>3, <2>4
<1>4. QED
  BY <1>2, <1>3, JobMoves

LEMMA RunsStay == ASSUME job' = job PROVE Runs' = Runs
  BY DEF Runs, IsLimited

LEMMA ReapPool ==
    ASSUME TypeOK, NEW r \in Replicas, Reap(r) PROVE PoolStep
<1>1. Runs' = Runs
  BY RunsStay DEF Reap
<1>2. Held' = Held \ Out /\ Out' = {}
  BY SchedulerAssumption DEF Reap, Held, Out, HasRow, Lapsed, NoRow, TypeOK
<1>3. QED
  BY <1>1, <1>2 DEF PoolStep, Pool!Next, Pool!Sweeps, Held, Out, Runs

LEMMA ClaimPool ==
    ASSUME TypeOK, PumpSound, PermitsConserved, NEW r \in Replicas, Claim(r) PROVE PoolStep
<1>1. PICK j \in Jobs : j = pump[r].cur /\ TenantOf[j] \in Limited /\ TenantOf[j] \in Tenants
  BY SchedulerAssumption DEF Claim, PumpSound, Shape, Placing, InLedger, IsLimited
<1>2. Runs' = Runs
  BY RunsStay DEF Claim
<1>3. CASE ~Claims(j)
  <2>1. permit' = permit
    BY <1>1, <1>3 DEF Claim
  <2>2. QED
    BY <1>2, <2>1 DEF PoolStep, Held, Out, HasRow, Lapsed
<1>4. CASE Claims(j)
  <2>1. permit' = [permit EXCEPT ![j] = 0] /\ ~HasRow(j) /\ counter[TenantOf[j]] < Quota[TenantOf[j]]
    BY <1>1, <1>4 DEF Claim, Claims
  <2>2. Held' = Held \cup {j} /\ j \notin Held /\ Out' = Out
    BY <2>1, SchedulerAssumption DEF Held, Out, HasRow, Lapsed, NoRow, TypeOK
  <2>3. Pool!HeldBy(TenantOf[j]) = Rows(TenantOf[j])
    BY DEF Pool!HeldBy, Rows
  <2>4. counter[TenantOf[j]] = Cardinality(Rows(TenantOf[j]))
    BY <1>1 DEF PermitsConserved, Rows
  <2>5. Pool!Cardinality(Pool!HeldBy(TenantOf[j])) < Quota[TenantOf[j]]
    <3>1. Pool!Cardinality(Rows(TenantOf[j])) = Cardinality(Rows(TenantOf[j]))
      BY DEF Pool!Cardinality, Cardinality
    <3>2. QED
      BY <2>1, <2>3, <2>4, <3>1
  <2>6. Pool!Grants(j)
    <3>1. TenantOf[j] \in DOMAIN Quota
      BY <1>1, SchedulerAssumption
    <3>2. QED
      BY <1>2, <2>2, <2>5, <3>1 DEF Pool!Grants, Held, Out, Runs
  <2>7. QED
    BY <2>6 DEF PoolStep, Pool!Next
<1>5. QED
  BY <1>3, <1>4

LEMMA BeatPool ==
    ASSUME TypeOK, PoolSound, NEW r \in Replicas, Beat(r) PROVE PoolStep
<1>1. Runs' = Runs
  BY RunsStay DEF Beat
<1>2. Held' = Held /\ Out' \subseteq Out /\ Out \ Out' \subseteq live[r]
  BY SchedulerAssumption DEF Beat, Held, Out, HasRow, Lapsed, NoRow, TypeOK
<1>3. live[r] \subseteq Runs
  BY DEF PoolSound, LiveSound, Runs
<1>4. QED
  BY <1>1, <1>2, <1>3 DEF PoolStep, Pool!Next, Pool!Renews, Held, Out, Runs

LEMMA ReleasePool ==
    ASSUME TypeOK, RightsSound, NEW j \in Jobs, Release(j) PROVE PoolStep
<1>1. Runs' = Runs
  BY RunsStay DEF Release
<1>2. CASE permit' = permit
  BY <1>1, <1>2 DEF PoolStep, Held, Out, HasRow, Lapsed
<1>3. CASE permit' = [permit EXCEPT ![j] = NoRow]
  <2>1. Held' = Held \ {j} /\ Out' = Out \ {j}
    BY <1>3, SchedulerAssumption DEF Held, Out, HasRow, Lapsed, NoRow, TypeOK
  <2>2. j \notin Runs
    BY DEF Release, RightsSound, ReleasesLate, Answered, Runs
  <2>3. CASE j \in Held
    <3>1. Pool!GivesBack(j)
      BY <1>1, <2>1, <2>2, <2>3 DEF Pool!GivesBack, Held, Out, Runs
    <3>2. QED
      BY <3>1 DEF PoolStep, Pool!Next
  <2>4. CASE j \notin Held
    BY <1>1, <2>1, <2>4, OutHeld DEF PoolStep
  <2>5. QED
    BY <2>3, <2>4
<1>4. QED
  BY <1>2, <1>3 DEF Release

LEMMA TickPool ==
    ASSUME TypeOK, Tick PROVE PoolStep
<1>1. Runs' = Runs
  BY RunsStay DEF Tick
<1>2. Held' = Held /\ Out \subseteq Out' /\ Out' \subseteq Held
  BY SchedulerAssumption DEF Tick, Held, Out, HasRow, Lapsed, NoRow, TypeOK
<1>3. QED
  BY <1>1, <1>2 DEF PoolStep, Pool!Next, Pool!Ages, Held, Out, Runs

\* THE POOL: over all replicas, with lost replies, late releases, sweeps and crashes,
\* tryAdmit, renewAdmissions and releaseAdmission implement a pool of leased permits in
\* which nothing of a limited tenant starts before it has one.
THEOREM SchedulerKeepsPool == Spec => KeepsPool
<1> DEFINE I == TypeOK /\ PumpSound /\ PermitsConserved /\ RightsSound /\ PoolSound
<1>1. Init => I /\ Pool!Init
  <2>1. Init => I
    BY InitTyped, InitConserves, InitRights, InitPool
  <2>2. Init => Pool!Init
    <3> SUFFICES ASSUME Init PROVE Held = {} /\ Out = {} /\ Runs = {}
      BY DEF Pool!Init, Held, Out, Runs
    <3>1. QED
      BY SchedulerAssumption DEF Init, Held, Out, Runs, HasRow, Lapsed, NoRow
  <2>3. QED
    BY <2>1, <2>2
<1>2. I /\ [Next]_vars => I'
  BY NextTyped, NextShape, NextConserves, NextRights, NextPool
<1>3. I /\ [Next]_vars => [Pool!Next]_(Pool!vars)
  <2> SUFFICES ASSUME I, [Next]_vars PROVE PoolStep
    BY DEF PoolStep, Pool!vars, Held, Out, Runs
  <2>1. QED
    BY JobsPool, ReapPool, ClaimPool, BeatPool, ReleasePool, TickPool, LedgerMoves
<1>4. QED
  BY <1>1, <1>2, <1>3, PTL DEF Spec, KeepsPool, Pool!Spec

-----------------------------------------------------------------------------
(* The slots of a replica.                                                 *)

HeldOn(r, b) == {j \in Running(job, r) : job[j].on = b}
\* The slots a round counts as free are free besides those the replica holds.
RoundSound ==
    \A r \in Replicas, b \in Backends :
       /\ Cardinality(HeldOn(r, b)) <= Total[b]
       /\ pump[r].pc \notin NoRound => Cardinality(HeldOn(r, b)) + pump[r].free[b] <= Total[b]

\* What a round computes from the probe and from what the replica holds.
LEMMA FreshSlots ==
    ASSUME TypeOK, NEW p \in Pump, NEW r \in Replicas, NEW b \in Backends,
           Cardinality(HeldOn(r, b)) <= Total[b]
    PROVE  Cardinality(HeldOn(r, b)) + freeSlotsFrom(p, job, r)[b] <= Total[b]
<1> DEFINE n == Cardinality(HeldOn(r, b))
<1>1. HeldOn(r, b) \in SUBSET Jobs
  BY DEF HeldOn, Running
<1>2. n \in Nat /\ Total[b] \in Nat /\ p.used[b] \in Nat
  BY <1>1, JobsCount, SchedulerAssumption DEF Pump
<1>3. countFor(job, r, b) = n
  BY DEF countFor, HeldOn
<1>4. freeSlotsFrom(p, job, r)[b] = Less(Total[b], IF p.used[b] > n THEN p.used[b] ELSE n)
  BY <1>3 DEF freeSlotsFrom, backendSlotOf, effectiveUsed
<1>5. QED
  BY <1>2, <1>4 DEF Less

\* The free slots of a round are those of the step before, or fresh, except where the
\* pump places an entry.
LEMMA SlotMoves ==
    ASSUME TypeOK, PumpSound, [Next]_vars, NEW q \in Replicas, pump'[q].pc \notin NoRound
    PROVE  \/ pump[q].pc \notin NoRound /\ pump'[q].free = pump[q].free
           \/ job' = job /\ \E p \in Pump : pump'[q].free = freeSlotsFrom(p, job, q)
           \/ Starts(q)
<1> DEFINE Same == pump[q].pc \notin NoRound /\ pump'[q].free = pump[q].free
           Fresh == job' = job /\ \E p \in Pump : pump'[q].free = freeSlotsFrom(p, job, q)
           Goal == Same \/ Fresh \/ Starts(q)
<1>a. \A r \in Replicas : pump[r] \in Pump
  BY DEF TypeOK
<1>b. ASSUME NEW r \in Replicas, NEW p, pump' = [pump EXCEPT ![r] = p],
             p.pc \notin NoRound => pump[r].pc \notin NoRound /\ p.free = pump[r].free
      PROVE  Goal
  BY <1>b DEF TypeOK
<1>c. ASSUME pump' = pump PROVE Goal
  BY <1>c
<1>d. Resting.pc \in NoRound
  BY DEF Resting, NoRound
<1>e. ASSUME NEW r \in Replicas, Dies(r) PROVE Goal
  BY <1>b, <1>d, <1>e DEF Dies
<1>f. ASSUME NEW r \in Replicas, pump[r].pc \notin NoRound,
             NEW c \in {"reap", "claim", "granted", "refused"},
             pump' = [pump EXCEPT ![r] = [pump[r] EXCEPT !.pc = c]]
      PROVE  Goal
  <2>1. [pump[r] EXCEPT !.pc = c].free = pump[r].free
    BY <1>a DEF Pump
  <2>2. QED
    BY <1>b, <1>f, <2>1
<1>g. ASSUME NEW r \in Replicas, NEW p \in Pump, job' = job,
             pump' = [pump EXCEPT ![r] = Round(p, job, r)]
      PROVE  Goal
  <2>1. Round(p, job, r).free = freeSlotsFrom(p, job, r)
    BY DEF Round, Pump
  <2>2. CASE q = r
    BY <1>g, <2>1, <2>2 DEF TypeOK
  <2>3. CASE q # r
    BY <1>g, <2>3 DEF TypeOK
  <2>4. QED
    BY <2>2, <2>3
<1>1. ASSUME NEW j \in Jobs, Dispatch(j) \/ Settle(j) PROVE Goal
  <2> DEFINE r == ReplicaOf[j]
  <2>1. r \in Replicas
    BY SchedulerAssumption
  <2>2. pump' = pump \/ \E jb : pump' = [pump EXCEPT ![r] = Woken(pump[r], jb, r)]
    BY <1>1 DEF Dispatch, Settle
  <2>3. \A jb : Woken(pump[r], jb, r) = pump[r] \/ Woken(pump[r], jb, r).pc \in NoRound
    BY <1>a, <2>1 DEF Pump, Woken, NoRound
  <2>4. QED
    BY <1>b, <1>c, <2>1, <2>2, <2>3
<1>2. ASSUME NEW r \in Replicas, Poke(r) PROVE Goal
  <2>1. Woken(pump[r], job, r).pc \in NoRound
    BY <1>2, <1>a DEF Poke, Pump, Woken, NoRound
  <2>2. QED
    BY <1>2, <1>b, <2>1 DEF Poke
<1>3. ASSUME NEW r \in Replicas, Probe(r) PROVE Goal
  <2>1. PICK u : pump' = [pump EXCEPT ![r] = [pump[r] EXCEPT !.pc = "fleet", !.used = u]]
    BY <1>3 DEF Probe
  <2>2. [pump[r] EXCEPT !.pc = "fleet", !.used = u].pc \in NoRound
    BY <1>a DEF Pump, NoRound
  <2>3. QED
    BY <1>b, <2>1, <2>2
<1>4. ASSUME NEW r \in Replicas, Fleet(r) PROVE Goal
  <2> DEFINE base == [t \in Tenants |-> tenantCountFor(job, r, t)]
  <2>1. PICK s \in [Tenants -> 0..Cardinality(Jobs)] :
           LET p == [pump[r] EXCEPT !.seen = s, !.base = base]
           IN pump' = [pump EXCEPT ![r] = IF Queue(job, r) = {} THEN Resting ELSE Round(p, job, r)]
    BY <1>4 DEF Fleet
  <2>2. s \in [Tenants -> Nat] /\ base \in [Tenants -> Nat]
    BY JobsCount, CountType
  <2> DEFINE p == [pump[r] EXCEPT !.seen = s, !.base = base]
  <2>3. p \in Pump
    BY <1>a, <2>2, ReadingType
  <2>4. CASE pump' = [pump EXCEPT ![r] = Resting]
    BY <1>b, <1>d, <2>4
  <2>5. CASE pump' = [pump EXCEPT ![r] = Round(p, job, r)]
    BY <1>4, <1>g, <2>3, <2>5 DEF Fleet
  <2>6. QED
    BY <2>1, <2>4, <2>5
<1>5. ASSUME NEW r \in Replicas, EndRound(r) PROVE Goal
  <2>1. CASE pump' = [pump EXCEPT ![r] = Resting]
    BY <1>b, <1>d, <2>1
  <2>2. CASE pump' = [pump EXCEPT ![r] = Round(pump[r], job, r)]
    BY <1>5, <1>a, <1>g, <2>2 DEF EndRound
  <2>3. QED
    BY <1>5, <2>1, <2>2 DEF EndRound
<1>6. ASSUME NEW r \in Replicas, Scan(r) PROVE Goal
  <2>1. PICK j \in pump[r].todo :
          LET rest == [pump[r] EXCEPT !.todo = @ \ {j}] IN
          \/ pump' = [pump EXCEPT ![r] = rest]
          \/ pump' = [pump EXCEPT ![r] = [rest EXCEPT !.placed = TRUE]]
          \/ \E b : pump' = [pump EXCEPT ![r] = [rest EXCEPT !.pc = "room", !.cur = j, !.on = b]]
    BY <1>6 DEF Scan
  <2> DEFINE rest == [pump[r] EXCEPT !.todo = @ \ {j}]
  <2>2. rest.free = pump[r].free /\ [rest EXCEPT !.placed = TRUE].free = pump[r].free
    BY <1>a DEF Pump
  <2>3. \A b : [rest EXCEPT !.pc = "room", !.cur = j, !.on = b].free = pump[r].free
    BY <1>a DEF Pump
  <2>4. pump[r].pc \notin NoRound
    BY <1>6 DEF Scan, NoRound
  <2>5. QED
    BY <1>b, <2>1, <2>2, <2>3, <2>4
<1>7. ASSUME NEW r \in Replicas, Room(r) \/ Granted(r) \/ Refused(r) PROVE Goal
  <2>1. pump[r].pc \notin NoRound /\ Passed(pump[r]).free = pump[r].free
    BY <1>7, <1>a DEF Room, Granted, Refused, Passed, Pump, NoRound
  <2>2. CASE pump' = [pump EXCEPT ![r] = Passed(pump[r])]
    BY <1>b, <2>1, <2>2
  <2>3. CASE pump' = [pump EXCEPT ![r] = [pump[r] EXCEPT !.pc = "reap"]]
    BY <1>f, <2>1, <2>3
  <2>4. CASE Starts(r)
    BY <2>4 DEF Starts, TypeOK
  <2>5. QED
    BY <1>7, <1>e, <2>2, <2>3, <2>4
    DEF Room, Granted, Refused, Commits, Throws, StillQueued, Starts
<1>8. ASSUME NEW r \in Replicas, Reap(r) \/ LedgerDown(r) PROVE Goal
  BY <1>8, <1>f DEF Reap, LedgerDown, NoRound
<1>9. ASSUME NEW r \in Replicas, Claim(r) PROVE Goal
  <2>1. \E c \in {"granted", "refused"} : pump' = [pump EXCEPT ![r] = [pump[r] EXCEPT !.pc = c]]
    BY <1>9 DEF Claim
  <2>2. QED
    BY <1>9, <1>f, <2>1 DEF Claim, NoRound
<1>10. ASSUME NEW r \in Replicas, Crash(r) PROVE Goal
  BY <1>10, <1>e DEF Crash
<1>11. QED
  BY <1>1, <1>2, <1>3, <1>4, <1>5, <1>6, <1>7, <1>8, <1>9, <1>10, <1>c
  DEF Next, PumpStep, JobStep, RecordSettled, Release, Cancel, Beat, Unregister, Tick, vars

\* RoundSound is inductive: a commit takes a slot from the round, anything else frees some.
LEMMA NextSlots ==
    ASSUME TypeOK, PumpSound, RoundSound, [Next]_vars PROVE RoundSound'
<1> SUFFICES ASSUME NEW q \in Replicas, NEW b \in Backends
             PROVE  /\ Cardinality(HeldOn(q, b)') <= Total[b]
                    /\ pump'[q].pc \notin NoRound
                         => Cardinality(HeldOn(q, b)') + pump'[q].free[b] <= Total[b]
  BY DEF RoundSound
<1> DEFINE n == Cardinality(HeldOn(q, b))
           m == Cardinality(HeldOn(q, b)')
<1>1. HeldOn(q, b) \in SUBSET Jobs /\ HeldOn(q, b)' \in SUBSET Jobs
  BY DEF HeldOn, Running
<1>2. n \in Nat /\ m \in Nat /\ Total[b] \in Nat /\ IsFiniteSet(HeldOn(q, b))
  BY <1>1, JobsCount, SchedulerAssumption
<1>3. n <= Total[b] /\ (pump[q].pc \notin NoRound => n + pump[q].free[b] <= Total[b])
  BY DEF RoundSound
<1>4. pump[q] \in Pump /\ pump'[q] \in Pump
  BY NextTyped DEF TypeOK
<1>5. pump[q].free[b] \in Nat /\ pump'[q].free[b] \in Nat
  BY <1>4 DEF Pump
<1>6. CASE Starts(q)
  <2> DEFINE p == pump[q]
             j == pump[q].cur
  <2>1. /\ p.pc \notin NoRound /\ j \in Jobs /\ p.on \in Backends /\ p.free[p.on] > 0
        /\ ReplicaOf[j] = q /\ job[j].st = "queued"
    BY <1>6 DEF Starts, PumpSound, Shape, Placing, NoRound
  <2>2. pump'[q].free = [p.free EXCEPT ![p.on] = p.free[p.on] - 1]
    BY <1>4, <1>6 DEF Starts, Placed, FreeAfter, Pump, TypeOK
  <2>3. job' = [job EXCEPT ![j] = [st |-> "running", on |-> p.on]]
    BY <1>6 DEF Starts
  <2>4. CASE b = p.on
    <3>1. HeldOn(q, b)' = HeldOn(q, b) \cup {j}
      BY <2>1, <2>3, <2>4 DEF HeldOn, Running, TypeOK
    <3>2. m <= n + 1
      <4>1. Cardinality(HeldOn(q, b) \cup {j}) =
              IF j \in HeldOn(q, b) THEN Cardinality(HeldOn(q, b))
                                    ELSE Cardinality(HeldOn(q, b)) + 1
        BY <1>2, FS_AddElement
      <4>2. QED
        BY <1>2, <3>1, <4>1
    <3>3. pump'[q].free[b] = p.free[b] - 1
      BY <1>4, <2>2, <2>4 DEF Pump
    <3>4. QED
      BY <1>2, <1>3, <1>5, <2>1, <2>4, <3>2, <3>3
  <2>5. CASE b # p.on
    <3>1. HeldOn(q, b)' = HeldOn(q, b)
      BY <2>1, <2>3, <2>5 DEF HeldOn, Running, TypeOK
    <3>2. pump'[q].free[b] = p.free[b]
      BY <1>4, <2>2, <2>5 DEF Pump
    <3>3. QED
      BY <1>2, <1>3, <2>1, <3>1, <3>2
  <2>6. QED
    BY <2>4, <2>5
<1>7. CASE ~Starts(q)
  <2>1. HeldOn(q, b)' \subseteq HeldOn(q, b)
    <3>1. CASE Quiet
      BY <3>1 DEF Quiet, Moves, HeldOn, Running, Answered
    <3>2. ASSUME NEW r \in Replicas, r # q, Starts(r) PROVE HeldOn(q, b)' \subseteq HeldOn(q, b)
      <4>1. pump[r].cur \in Jobs /\ ReplicaOf[pump[r].cur] # q
        BY <3>2 DEF Starts, PumpSound, Shape, Placing
      <4>2. job' = [job EXCEPT ![pump[r].cur] = [st |-> "running", on |-> pump[r].on]]
        BY <3>2 DEF Starts
      <4>3. QED
        BY <4>1, <4>2 DEF HeldOn, Running, TypeOK
    <3>3. QED
      BY <1>7, <3>1, <3>2, JobMoves
  <2>2. m <= n
    BY <1>2, <2>1, FS_Subset
  <2>3. CASE pump[q].pc \notin NoRound /\ pump'[q].free = pump[q].free
    BY <1>2, <1>3, <1>5, <2>2, <2>3
  <2>4. ASSUME NEW p \in Pump, pump'[q].free = freeSlotsFrom(p, job, q)
        PROVE  m + pump'[q].free[b] <= Total[b]
    BY <1>2, <1>3, <1>5, <2>2, <2>4, FreshSlots
  <2>5. QED
    BY <1>2, <1>3, <1>7, <2>2, <2>3, <2>4, SlotMoves
<1>8. QED
  BY <1>6, <1>7

\* RoundSound holds at the start.
LEMMA InitSlots == Init => RoundSound
<1> SUFFICES ASSUME Init, NEW r \in Replicas, NEW b \in Backends
             PROVE  /\ Cardinality(HeldOn(r, b)) <= Total[b]
                    /\ pump[r].pc \in NoRound
  BY DEF RoundSound
<1>1. HeldOn(r, b) = {}
  BY DEF Init, HeldOn, Running
<1>2. Total[b] \in Nat
  BY SchedulerAssumption
<1>3. QED
  BY <1>1, <1>2, FS_EmptySet DEF Init, Resting, NoRound

\* SLOTS: one replica never runs more jobs on a backend than the backend has slots,
\* although the probe of a drain is taken before its rounds and jobs end and start
\* between the two.
THEOREM SlotsAreRespected == Spec => []SlotsRespected
<1> DEFINE I == TypeOK /\ PumpSound /\ RoundSound
<1>1. Init => I
  BY InitTyped, InitSlots
<1>2. I /\ [Next]_vars => I'
  BY NextTyped, NextShape, NextSlots
<1>3. I => SlotsRespected
  BY DEF RoundSound, SlotsRespected, countFor, HeldOn
<1>4. QED
  BY <1>1, <1>2, <1>3, PTL DEF Spec
=============================================================================
