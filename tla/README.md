# A TLA+ model of everdict's execution core

everdict is a control plane that runs agent evaluations: it accepts cases, finds
somewhere to run them (clusters, or self-hosted runners that pull work), collects one
result per case, settles it and scores it.  Several replicas of the control plane share
one database.  This project models the life of a case in that core: how it is admitted and
placed, leased to a runner, settled on the ledger, recovered after a crash and torn down
after a cancel, and the two services all replicas lean on, the leader election and the
event log.

## 1. Inventory

### Parts that are modelled

| Component | State | Operations | Module |
|---|---|---|---|
| Database-backed lease hub (`store-runner-hub.ts`, `runner-job-store.ts`) | a row per parked job: status, holder, lease epoch, cancel flag, attempt, result, `activity_at` | park and poll, touchWaiting, claim transaction (two sweeps, candidate, mint), touch, complete, fail, ackCancelled, expire, cancel | `StoreRunnerHub` |
| In-process lease hub (`runner-hub.ts`) | a PendingEntry per job, its idle timer, its promise | enqueue, idle timeout, lease, mintAttempt, heartbeat, complete, fail, requestCancel | `RunnerHub` |
| Runner loop (`runner-loop.ts`) | the worker's token and what it is doing | lease, run with heartbeats, submit, resubmit, fail_job, crash | both hubs |
| Scheduler (`scheduler.ts`) | queue, Admission counters, the pump, live permits and their timer | dispatch, pump, commit, end of a run, cancel, poke, renew | `Scheduler` |
| Admission ledger (`pg-run-store.ts`) | permits and a counter per tenant | tryAdmit (reap, claim), renew, release, inFlightByTenant | `Scheduler` |
| Backend registry (`registry.ts`, `runtime-dispatcher.ts`) | the registered names of a replica | register at dispatch, invalidateTenant, unregisterSelfRunnerBackend | `Scheduler` |
| Batch driver (`in-process-batch-driver.ts`) | what it knows of each case, its abort signal | fenced start, dispatch, return, join, terminal write, attach after an abort | `Settlement` |
| Case settlement (`case-outcome-committer.ts`, `pg-case-receipt-store.ts`) | receipts, child runs, attempts | the commit transaction, its rejection before or after COMMIT, readback | `Settlement` |
| Restart recovery (`startup-recovery.ts`, `recovery-planner.ts`) | the driver epoch of a batch, the children still to look at | claim, list, adopt, interrupt, follow, defer, tombstone | `Settlement` |
| Attempt ledger (`pg-execution-attempt-store.ts`) | the state and the work handle of each attempt | open, markExecuting, supersede; reserveWork, activateWork, revokeReservation; adoptAtSettlement | both hubs; `Teardown`; `Settlement` |
| Managed lanes (`nomad.ts`, `k8s.ts`, `backend.ts`) | the cluster object of a dispatch | reserve, inert create, activate, start, wait, reclaim; killWork, probeWork | `Teardown` |
| Stop path and coordinator (`scorecard-service.ts`, `cancellation-coordinator.ts`) | the cancellation operation | cancel, stopInFlight, reconcile, certify | `Teardown`, `Settlement` |
| Leadership (`leader-elector.ts`, `leadership.ts`) | the lease row, each replica's belief | start, renew, stop, isLeader | `Leadership` |
| Event consumers (`event-consumer-runner.ts`, its two stores) | the log, cursors, dead letters | append, drain, deliver, park, setCursor | `EventConsumers` |

How they meet: a batch is driven by one replica, which dispatches its cases.  A dispatch enters
the scheduler of that replica, waits for a slot and for its tenant's quota, and is handed
to a backend.  A managed lane asks the attempt ledger for leave, creates an inert object, asks again
and starts it.  A self-hosted runner's backend parks the job in a hub and waits; a worker
leases it, proves it is alive with heartbeats, and reports.  The result comes back to the driver,
which commits the case (receipt, child, attempt in one transaction) and in the end the
batch.  If the replica dies, another claims the batch under the next epoch and carries on.
A cancel makes the batch terminal first and then tears its work down until it can certify
that nothing runs.  Replicas meet only in the database.

### What is hard here

* every SQL statement and every `await` is a point where somebody else acts: a value read
  before one is stale after it (`enqueue()`'s poll, `mintAttempt()`'s awaits, the pump's readings,
  the recovery's list of children, the record read before the abort signal);
* replies are lost after their effect was committed (a claim, a submit, a tryAdmit, the commit of
  a case, the create of a cluster object), and the caller retries or has to find out;
* a runner, a driver or a teardown dies in the middle, or is only paused and comes back
  with its old leave, token or results in hand;
* a statement reads the batch in its snapshot and writes another row later;
* something must always answer the dispatch, wake the queue, end the driver, replace the leader,
  move the cursor and close the cancellation.

`PROJECT.json` lists these as hazards, each at its line, with the properties that watch it.

### What makes each part correct

* **lease hubs**: one holder at a time can report; the stored result belongs to the current
  attempt; an outcome is final; a cancel sticks; only the current holder keeps a lease
  alive; every dispatch is answered;
* **scheduler and ledger**: a tenant's runs stay within its quota over the whole fleet; a
  backend's slots are not overrun by a replica; an answered entry is never run; the counter equals
  the permits whatever is retried, lost, released twice or reaped;
* **settlement**: receipt, child and attempt of a case agree and there is one answer per case; a
  batch that succeeded counted every answer; the first terminal write wins; a driver does not leave a batch
  that is still its own; answered work is not paid for again;
* **teardown**: certified zero is zero and stays zero; a cancellation is certified in the end;
* **leadership**: a replica acts only under its own unexpired row; a leader is found again;
* **consumers**: nothing at or below a cursor went unanswered; consumers catch up.

### Parts that are not modelled

Publication, run records, the event outbox's writers, the replica registry, speculation and
spillover, the verifier lane and its operation, the Temporal driver, fair queue and budgets, and
the services around the core (campaigns, sessions, registries, issues, schedules, the web and the
command line).  `PROJECT.json` has one entry for each with the reason.  The repository is large
(some 377,000 lines); most of it is services over one row each, adapters, presentation and
scripts, where a model would say no more than the code.  This project is about the part where
processes race and fail, which is small.

## 2. Modules

```
LeaseContract            what a lease hub promises about one job (abstract)
  ^            ^
StoreRunnerHub RunnerHub     the two hubs, each with the runners' workers;
                             each INSTANCEs LeaseContract with a refinement mapping
AdmissionContract        a pool of leased permits (abstract)
  ^
Scheduler                    replicas' schedulers and the admission ledger
BatchContract            what a batch promises to its submitter (abstract)
  ^
Settlement                   drivers, recovery, commit of a case, end of a batch
Teardown                     managed lanes and attempt ledger against the teardown
LeaderLock               a lock with one leader (abstract)
  ^
Leadership                   the lease row and the replicas' beliefs
EventConsumers               the log, the cursors and the replicas' drains
XProofs                      the theorems of module X
MCX                          the instances of module X for TLC
```

**`LeaseContract`**: a job is absent, waiting, held under an epoch, revoked, or ended with
a verdict.  A new lease has the next epoch, a revoked job is never held again, an ended one
never moves.  One step may move several jobs, because one claim sweeps every expired lease.

**`AdmissionContract`**: jobs of tenants with a quota hold permits of a pool.  A permit is granted within the quota,
nothing starts before it holds one whose lease runs, a running job's lease alone is renewed, a permit is given back only by what
does not run, and a sweep takes what lapsed and nothing else.  `Scheduler` reads `held` and `lapsed` off the permit rows and `running`
off the jobs of all replicas.  Runs may end together (a replica dies), and a run whose permit was swept goes on: the contract
bounds the permits, `QuotaHeld` the runs.

**`BatchContract`**: a case is answered once, one at a time; the batch ends once; a success needs every answer and reports them
all, and nothing is answered after it.  `Settlement` reads an answer off the receipt and the child it names, and the report off the
summary.  Drivers, takeovers and transactions do not appear in it.

**`LeaderLock`**: a lock with an owner, and those who act on it: nobody, or the owner alone.  It does not change hands while somebody
acts.  `Leadership` reads the owner off the lease row and the leaders off the beliefs of the serving replicas.

**`StoreRunnerHub`**: one step per SQL statement.  The claim transaction is one step: its
statements run on one connection and commit together.  `FOR UPDATE SKIP LOCKED` appears as
`Locked`: a candidate may pass over an older row only if another worker is claiming.
Time is kept as ages: `age[j]` since `activity_at`, `lag[w]` since a lease call read its
clock, so that a sweep may use an old reading.  `enqueue()`'s loop is `Poll` (read the
outcome) and, after the await, `Expire`.  `cancel()` is its SELECT and its UPDATE.  `complete()`
followed by `ackCancelled()` for a revoked holder is one `Report`: the two statements match
disjoint rows, so at most one of them changes anything.  A worker's heartbeat timer runs until its last
report has settled, so heartbeats also come from a worker that resubmits or fails its job.  `MaxEpoch` bounds the claims of a
row and nothing else: a row there is requeued, cancelled and expired as any other.

**`RunnerHub`**: the hub runs on one thread, so a method is a step, except `mintAttempt`,
which awaits the open, the stamp and the end of the replaced attempt.  A long poll that
times out leaves no trace, so a worker is idle until its lease succeeds; its heartbeats are as in the other hub.  Which leasable
entry goes first is left open.

**`Scheduler`**: each replica's pump with a program counter that rests where the code
awaits (`probe`, `fleet`, `room`, and the ledger's `reap` and `claim`); in `scan` it runs to
completion, so no other event of that replica can happen.  The Admission counters are read
off the jobs (a running job holds one slot of its backend and one of its tenant).  Memory and CPU
follow the same fold as slots and are left out, as are harness-keyed pools (their
await is kept); the scan order is open, so WFQ, urgency and promotion are all covered.
`registry` is the replica's backend registry: dispatch registers the target's backend, a
secret change or a revoke removes it.  An exception that leaves the pump ends the process
(`Dies`): every caller discards the pump's promise, nothing handles unhandled rejections,
and Node then exits.  `Faults` switches on failing probes and ledger calls, lost replies and
crashes.  A tick is several minutes, so that a drain fits in one.  Renewals do not fail: a replica
cut off from the ledger is the limit the port documents itself.

**`Settlement`**: a driver is named by the epoch it drives under, and `Claim` starts the next one while
the driver before may only be paused.  The commit of a case is a transaction under READ COMMITTED:
`tx` holds what it has locked (a rival claim of the case and every other write of the child wait),
the rows change at COMMIT (`CommitLands`), and nothing keeps the batch as it was when `AdoptAttempt` looked at
it.  `CommitThrows` is a rejection before or after COMMIT.  `SettleThrows` is a throw at the driver's end, by a read or by a
terminal write that took effect or did not: the catch settles the batch as failed, or attaches after an abort.  A throw out of
the catch has no handler and ends the process (`Crash`).  `Faults` says which of these throws may occur.  A recovery that
cannot find out puts the batch on `DeferredRecoverySweep`'s list (`Defer`, `owes`); at boot an unresumable one is buried
(`Tombstone`), on the list it is dropped (`Discharge`).  Abstractions: a driver opens at most one child and one attempt per case (`runSuite`'s retry, which
abandons a child for another, is left out); `Dispatch` is proveAuthority, the open of the attempt and the create of
the child in one step; a refused create goes to `lost` at once, where the code takes a round through the
committer; the summary's read of the receipts is the terminal write's (its count is compared in that
transaction); the branch of `commitCase` that lets an authorised in-place retry replace a receipt is left out; `supersedeInFlight` is `Cancel`; the last driver of an instance does not crash.

**`Teardown`**: each work is one dispatch with a child, an attempt and the cluster object its reservation names.
`reserveWork` and `activateWork` are two steps each, the snapshot that reads the batch and the write
of the row.  `answers` says whether cluster and database are within reach: a call out of reach may have been
carried out or not.  "aged" is an activation older than `ACTIVATION_LEASE_MS`.  `onStarted` sends two writes
nobody waits for, `StampExecuting` (which also names the child on the attempt) and `MarkRunning`; either may come first and either
may fail.  A child that a teardown listed as running and that no placed work names is `bare`: what it runs is unknown
(`killUnhandled` on a managed lane), and this pass fails.  Any number of teardowns (the
canceller's, its retry's, the leader's) overlap.  Abstractions: backoff, budget and escalation all read as
"owed"; a finished object counts as gone; a queued or leased dispatch that the cancel drops is `Dropped`; the
takeover epoch in PARENT_AUTHORIZES is left to `Settlement`; label sweeps and repeats of a reservation
are left out; the two writes of `onStarted` land before the lane's wait ends.

**`Leadership`**: time is what is left of the row and of each belief.  The interval does not wait for the upsert
before, so a replica has several under way (`Calls`), executed and answered in any order.  A replica is one
boot of a process.  A reply may take as long as it likes.  `overrun` is a history variable that no step reads: the part of a
belief that no row backed, because the winning reply was slower than the margin of one renewal.

**`EventConsumers`**: a transaction draws its number at the insert and shows its fact at COMMIT.  Every replica
drains every consumer over the same cursors, giving its thread up at each store call and handler.  Transactions overlap and commit
in any order.  `late` is a history variable that no step reads: the facts that became visible when a later one that the
consumer asks for already was.

Definitions keep the source's names where there is one (`outcome`, `freeSlotsFrom`, `effectiveUsed`,
`eligibleNames`, `isLeader`, ...).  Operators whose comment begins with *Mutant* are a mistaken form of the definition
that follows them and are used by nothing: putting one in the place of its neighbour shows that a
property notices it.  The type invariants of `Scheduler`, `Leadership`, `Teardown` and `Settlement` are theorems and no run repeats them.

## 3. Runs

| Run | Instance | Shows |
|---|---|---|
| `store_releases` | 1 pool job, 3 workers (2 of one runner), 3 leases, clock lag 1 | tokens distinct, one live attempt, results attributed, outcomes frozen, cancels stick, renewals fenced, lease contract kept |
| `store_liveness` | 2 jobs (one no runner can run), 1 worker, 3 leases | every dispatch is answered or its job leased the third time, a cancelled lease ends |
| `hub_releases` | 1 pool job, 3 workers, 3 leases, mints interleaved, only timers fair | tokens, attribution of evidence, revocation, fenced renewals; a cancelled entry leaves, every dispatch is answered unless served for ever |
| `hub_queues` | 3 jobs in an own queue and the pool, cap 1, one in each beyond the capabilities of the runner; its 2 workers, 2 leases | the cap bounds what waits, lease contract kept |
| `scheduler` | 2 replicas, 2 jobs of a tenant with quota 1, 1 of another, queue caps, 1 slot, a backend unregistered at any time, all faults | permits conserved, quota and slots held, each dispatch answered once, the pool of permits kept |
| `scheduler_lost_wakeup` | 1 replica, 2 jobs, no faults | **violated**: a queued job waits for ever |
| `leadership` | 2 replicas, 2 upserts each, lease 2, interval 1, replies of any delay, fair | no action past the lease beyond the overrun, the lock kept, a leader found again and again |
| `event_consumers` | 2 replicas, 2 consumers, 2 facts, pages of 2, 2 attempts, overlapping writers, fair | nothing left behind but what committed late; consumers catch up |
| `consumers_late_commit` | 2 facts | **violated**: a fact that commits behind a later one is dropped |
| `settlement` | 2 cases, a driver and its successor, authority checks and commits may throw | ledgers agree, summaries stand, first terminal write wins, nobody strands a batch, nothing is run twice, the batch contract kept |
| `settlement_faults` | 1 case, throws at every call the module lets throw, deferred recovery included | ledgers agree, drivers end |
| `teardown` | 1 work on Nomad, 2 teardowns of which one may die, outages, `onStarted`'s writes failing alone | certified zero is zero, cancellations converge |

**Bounds.**  Three leases of one job by three workers is the smallest instance with a stale
token of the same runner, a stale token of another runner and a current one at once.  Lease and queue
timeouts of one or two ticks keep "not yet", "just" and "long ago" apart; ages stop at the
first value no comparison tells from the next (`AgeCap`).  A row at `MaxEpoch` is requeued but
not claimed again; the code has no such bound and may lease a job for ever whose workers keep dying, so
`DispatchAnswered` of both hubs ends in an answer or in the bound.  `hub_queues` sets the idle timeout to 0, so
that it may fire at any moment, and leases run out at once.  In `scheduler` quota 1 with two
jobs on two replicas is the smallest contest.  Two cases and one takeover are the smallest
instance in which a case of the former driver is carried over, one is adopted or interrupted, and a
summary may be incomplete.  `teardown` has one work because its postcondition is a conjunction over works
that share only the batch and the operation; the theorem is for any number.  Two facts in one page
are enough for a walk that another replica has passed and for a commit behind a later number.  With lease 2 and interval 1 a belief is one
tick long and a reply overruns none of it or all of it; the theorem is for any lease and interval.  Deadlock is not checked where everything may come to rest:
all jobs answered, all processes gone, the batch ended.

**Fairness.**  `StoreRunnerHub`: the clock advances, a polling replica polls and expires, a connected worker
asks again, and its calls and its run end; `Claim` and `ClaimNothing` are strongly fair, because
the lease call in progress is retried through database failures that may alternate with
success.  `RunnerHub` (`TimelySpec`): only the clock and the timers; no runner is assumed to do
anything.  `Scheduler`: a pump whose await was answered goes on, runs end and are recorded, and
the ledger executes what it was sent; nothing is assumed of pokes, which the code makes only on
scaling and configuration events, nor of further dispatches.  `Settlement`: a driver that lives takes its steps and the work of
a case ends; nothing makes a recovery begin.  `Teardown`: a teardown that was begun is carried on, the leader's
sweep takes up what is owed, grace periods end and time passes; submitters may stop anywhere.  `Leadership`: clocks, timers, and a database that
is up.  `EventConsumers`: a process that is up goes on.  `Failover`, `CatchesUp` and `CancelConverges` name the outages that end as
a premise of their own.

## 4. Disagreements with the code's own words

Two are runs:

* **`scheduler_lost_wakeup`** job B's drain has read the capacity, in which job A still runs; A ends and
  its wake-up is turned away by the reentrancy guard; the drain finds no room and ends.  B waits
  on an idle backend until something unrelated calls the pump.
* **`consumers_late_commit`** numbers are drawn before the order of commits is settled: a cursor that passed a later fact never looks at
  an earlier one that commits after it.  `event-consumer-runner.ts:69` says "never as dropped facts".

Four more are found by TLC under a small change of a configuration above:

* In `Leadership.cfg`, the invariant `SlowQueryHarmless`: the row is written for `ttlMs` by the database's clock, the belief starts at
  `ttlMs - renewMs` when the reply is read.  A reply slower than `renewMs` (statements may run for 15 s, the interval is 10 s, and a stalled
  loop reads late) leaves a belief that outlives the row, where `leader-elector.ts:37` says a slow query never can.
* In `Leadership.cfg`, the invariant `StopStands`: `stop()` clears the belief while a renewal is under way; its reply sets it again, and the
  gated loops of the stopping replica act until the process exits.  Its upsert may also write the row again after the DELETE.
* In `Settlement.cfg`, one case and `Faults = {"create"}` against `NeverStranded`: the create of a child throws
  (`case-outcome-committer.ts:226`); the failure exit records the id of a child that is not there, its commit finds no row and takes it for
  one that somebody else settled, and on that answer the driver leaves an open batch whose owner is alive, so that no recovery claims it.
* In `Settlement.cfg`, one case and `Faults = {"replan"}` against `NeverStranded`: a recovery that was put off is asked again by
  `retryDeferredRecovery()`, which forgets a batch that is unresumable by now instead of settling it as the boot's pass does: open, owned by
  a live replica, driven by nobody.

Others were met while modelling.  Each was reproduced on an earlier or a changed instance of the modules, or follows from the lines named:

* `store-runner-hub.ts:147` `enqueue()` expires from an outcome read before an await; a result accepted in between is stored, and the
  dispatch is told no_runner.
* `runner-hub.ts:521` after `await markExecuting()` the mint reads `lastAttempt` without asking whether its lease is still the current
  one, and may mark its successor's attempt superseded.
* `scheduler.ts:757` `runOne()`'s `registry.get()` throws, outside any handler, if the backend was unregistered during the
  pump's awaits; Node ends the process (`Dies`).
* `pg-run-store.ts:577` a retried claim is told "held" without a refresh of `renewed_at`, and may lapse before the holder's first
  renewal.  `QuotaHeld` therefore excepts runs whose permit lapsed under them.
* `runner-job-store.ts` `cancel()`'s UPDATE has no condition on `status` and marks a row that ended after its SELECT.  Only the flag is written.
* `k8s.ts:1839` the delete is `--cascade=background --wait=false`, so the Job object is gone at once and `probeWork` answers absent
  while the pod runs out its grace period, which the comment at 1832 sets out to exclude.  `CertifiedZero` counts a dying
  object on Nomad only.
* `scorecard-batch-service.ts:454` a fault of the store in `holdsBatch` reads as lost authority: the driver aborts and settles an open batch as
  superseded, which `scorecard-batch.ts:613` calls unreached.
* `in-process-batch-driver.ts:1110` the record is read before the abort signal is looked at: a cancel in between is
  rewritten to superseded (`FirstTerminalWins` lets the two aborted statuses replace each other).
* `in-process-batch-driver.ts:1015` a case that is `unwritten` makes the batch terminally failed, where comments call it recoverable.
* `recovery-planner.ts:363` a recovery whose judges fail passes the child over and drives the case again: with `"adopt"` in `Faults`, `NoRework`
  and `NeverStranded` do not hold, and `settlement` leaves that fault out.
* `scorecard-service.ts:1245` a revocation that fails is collected after the failures were looked at.  Harmless to `CertifiedZero`: the object was
  verified gone.

## 5. Proofs

TLAPS checks the following for every value of the constants that the modules' own assumptions
(`HubAssumption`, `SchedulerAssumption`, ...) allow: finitely many jobs, bounds and quotas in Nat, sentinels outside
their sets.  No fairness is assumed; premises beyond that are named below.

**`StoreRunnerHubProofs`.**  `TypeCorrect` is the type invariant.  The safety invariants are not inductive by
themselves; `Inductive` proves `IInv`, whose parts are:

| part | says | needed because |
|---|---|---|
| `TypeOK` | types | a claim adds 1 to an epoch and must stay within the bound |
| `Unparked` | a job nobody dispatched has no row and no attempt; a cancel under way has a row | `park()` writes a fresh row and must not meet an old attempt |
| `AttemptSound` | a row's attempt is its epoch (1 before the first lease), it is live in the ledger and no other is; a completed row's result is its attempt's | gives `OneLiveAttempt` and `ResultAttribution` |
| `Resolved` | a dispatch that was told a result was told the row's | the row may be looked at long after the answer |
| `TokensSound` | a worker is busy iff it holds a token, and its epoch is at most the row's | a new lease's token is larger than all that are out |
| `TokensDistinct` | no two workers hold the same token | the property itself |

From it follow `TokensStayDistinct`, `AttemptsExclusive` and `ResultsAttributed`.  The action properties
(`OutcomesFrozen`, `CancelsStick`, `RenewalsFenced`) follow from a classification of what one step can do to one
row (`RowMove`, lemma `StepMoves`).  `HubKeepsContract` is the refinement: the standings `LeaseContract`
sees are read off the rows, and each row move is a step of the contract or a stutter.

**`RunnerHubProofs`.**  The in-process hub has no rows whose statements exclude each other; what makes it right is that a method
runs to its end and that a promise settles once.  `IInv` says:

| part | says | needed because |
|---|---|---|
| `TypeOK` | types | a lease adds 1 to an epoch and must stay within the bound |
| `EntrySound` | a lease has an epoch and a runner that could run the job; an entry never leased is on its dispatch's own attempt | `requeueExpired()` puts a leased entry back and must not make it look like a new one |
| `PromiseSound` | a promise is open exactly while an uncancelled entry stands for it, and an entry that is still there with its promise settled was cancelled | the map and the promise are written apart, and a late result must find nothing to settle |
| `PcSound`, `TokensSound` | a worker is idle iff it has no token, and its epoch is at most the entry's | a new lease's token is larger than all that are out |
| `TokensDistinct` | no two workers hold the same token | the property itself |
| `OpenedSound` | past the restamp, the holder of the newest lease carries the attempt the entry names, the one opened for that lease or none | `mintAttempt` gives the thread up three times, and `EvidenceAttribution` is about what it finds when it goes on |
| `ParkedBounded` | the cap of a queue | the property itself: only `enqueue()` makes an entry that was never leased |

From it: `TokensStayDistinct`, `EvidenceAttributed` and `ParkedStaysBounded`.  The action properties `CancelsRevoke` and
`RenewalsFenced`, and the refinement `HubKeepsContract`, go through a classification of a step's effect on one job (`JobMove`, eight
cases) and on one worker (`WorkersMove`), since `lease()` sweeps, rejects and grants in one step.  Both hubs are thus
shown to implement the same `LeaseContract`.

**`SchedulerProofs`.**  `SchedulerTypeCorrect` needs `PumpSound` (what a pump is placing is its own replica's,
out of the scan, on a backend with a free slot): without it a round's slot count could go below zero.
`JobMoves` shows that a step either commits one pump's entry (`Starts`) or starts nothing (`Quiet`); from it:

* `DispatchesAnsweredOnce`: an answer is final, although pumps hold entries across awaits.
* `PermitsAreConserved`: `PermitsConserved` is inductive with the types; the cases are the sweep (a lapsed row is a
  row, so the subtraction is exact), the claim and the release.
* `QuotaIsHeld`: a running limited job has a row or lost it to the sweep (`RunsPermitted`).  That needs
  `GrantSound` (a grant still has its row when the pump comes to commit it), which needs `ReleasesLate` (a release
  under way is of a job with its answer), which needs `Handled` (what a pump has in its hand is neither new nor
  running).  Running jobs whose permit did not lapse then inject into the rows, which are at most the quota.
* `SlotsAreRespected`: `RoundSound`, that the slots a replica holds plus the ones its round still counts as free
  are at most the backend's.
* `SchedulerKeepsPool`: the refinement of `AdmissionContract`.  `Starts` asks for a permit whose lease runs, at the commit, an await after the
  claim; that is `PoolSound`: what a pump took to the ledger has asked (`Asked`), a grant still has its row when the pump comes to commit it (`HeldGrants`),
  and no lease has run out since the sweep of a pump that is past it (`Swept`), which is where the abstraction that a drain fits
  in a tick of the clock is used.  `LiveSound` (a replica renews its own limited runs only) gives `Renews`.

**`LeadershipProofs`.**  Safety is a race of three clocks.  `IInv` compares each with the row, for replies of any
delay: what a belief of a serving replica has left beyond its overrun ends before its own row does (`BeliefUnderRow`); a winning reply
younger than the lease comes from a row that is still the replica's and has lost no more than the reply's age
(`ReplyUnderRow`), which is what makes the belief and the overrun it turns into add up; of an older reply nothing is claimed, since all it makes is overrun;
a DELETE under way is that of a replica told to stop (`Boots`).  From it:
`BeliefsExpireFirst`, `LeadersAreUnique` (no two replicas lead by right) and `LeadersKeepTheRow` (no upsert or DELETE takes the row
from under one).  `ElectionKeepsLock` puts them together: with these facts every step is one of `LeaderLock`'s or a stutter, since an
upsert or a DELETE that moves the row finds nobody leading by right and makes nobody lead (`PassesUnled`).  There is no premise on delays;
that a belief may have an overrun at all is shown in section 4 (`SlowQueryHarmless`).

**`EventConsumersProofs`.**  Replicas set one cursor back and forth, so nothing about it is monotone.  `IInv` speaks of each walk:
whatever lies at or below the cursor it read, or before the fact it is at, was answered for by somebody or committed late (`CursorSound`,
`ListSound`, `PageSound`).  Writers overlap: a commit preserves it because a fact that becomes visible below a walk or a
cursor lies below a visible one of that consumer (`LogStep`), so that it is late.  There is no premise on writers.

**`TeardownProofs`.**  A work is `Safe` when nothing of it runs and no submitter is about to start an object that is there.  Under a
cancelled batch a safe work stays safe: an activation is refused, and a start is applied only to the object its own dispatch
registered.  `Cleared` says that a teardown without a failure has made every work safe that it has been through
(`Unplaced`: a work without a handle has no object), and ended the children once it reads the pending attempts.  `CertificatesAreTrue`
is `CertifiedZero` for any works on either cluster and any number of teardowns.

**`SettlementProofs`**, in two layers.  `LedgerInv` holds whatever throws: a transaction under way holds the claim of its case
alone and settles an open child (`TxSound`, `OneTx`), a driver that has not dispatched a case has no child of it
(`Undispatched`), and one about to settle the batch has seen every receipt (`Counted`), which stay, since the batch's fence is
looked at again but the receipts are not.  From it: `LedgersAgree`, `SummariesStand` and `FirstTerminalHolds`, also when the driver's last reads and
writes throw (`SettleThrowsStep`).
`BatchKeepsContract` is the refinement, again under every fault: a step answers one case at most, and the child its receipt names
never moves again (`AnswersMove`); it ends the batch or leaves the card alone (`BatchMoves`); and there is no summary before a success (`Unreported`).
`TakeoverInv` follows a takeover, driver by driver, and needs `NoLoss` (`create`, `adopt` and `replan` not in `Faults`; `prove`, `commit` and `settle`
may throw): what a paused driver has under way, or has committed since the lists were read, is on the recovery's list until it is
resolved (`ListedAt`); so once the successor drives, a case it has still to answer has no receipt and nobody else's commit
(`OwnedAt`), and its child stays open while the batch is held (`OpenAt`); so an answer lost means that the batch is
(`GivenAt`).  Steps of one driver leave the others' part alone (`OthersKeep`).  From it: `NobodyStrands` and `NobodyPaysTwice`.
Without the premise `NeverStranded` fails in each of the three ways, see section 4.

## 6. Only model-checked

Liveness and everything under fairness (`DispatchAnswered`, `CancelTerminates`, `CancelledLeaves`, `Failover`, `CatchesUp`,
`DriverEnds`, `CancelConverges`; `QueueDrains` and `NeverDropped` are refuted).  Every invariant, action property and refinement of the passing runs is a
theorem; `NeverStranded` and `NoRework` under the premise named in section 5.

That a pump's drain ends is not a run: each round takes an entry out of the queue or is the last, and every await of a
round is answered or rejected.

Left out of the modules on purpose: `claim`/`restampJob`/`mintAttempt` as three round trips (the lane of a
store without `claimAttempt`; both stores have it); `InMemoryRunnerJobStore`, the single-process twin
of the same statements; status reports, evidence channels and self-update of the runner loop.

## 7. Plan

1. *done* lease contract, both hubs, runner loop; scheduler and ledger; their proofs.
2. *done* settlement with drivers and recovery; the attempt ledger and the lanes against the teardown; leadership; event
   consumers; their proofs.
3. *done* proofs of `RunnerHub` (tokens, revocation, contract); contracts of the admission ledger, the batch and the election, with
   their refinements;
4. publication as a resumable operation; the verifier lane, a second placer on the scheduler's Admission and quota, and its
   phases on the attempt ledger; the Temporal driver on the same ledger as `Settlement`;
5. the composition of `Settlement` and `Teardown` over one attempt row.
