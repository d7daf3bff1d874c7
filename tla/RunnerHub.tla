------------------------------ MODULE RunnerHub ------------------------------
(***************************************************************************)
(* The in-process lease hub for self-hosted runners (RunnerHub): one entry *)
(* per parked job with its idle timer and its lease, the promise that      *)
(* enqueue() returned, and the runners' workers that lease, renew and      *)
(* report.                                                                 *)
(*                                                                         *)
(* The hub runs on one thread, so a method is one step up to its first     *)
(* await.  Only mintAttempt awaits: it opens an attempt for a re-lease,    *)
(* restamps the entry, stamps the attempt executing and ends the attempt   *)
(* it replaced, and every other method can run in between.                 *)
(*                                                                         *)
(* A long poll that times out and is repeated leaves no trace in the hub,  *)
(* so a worker is idle until its lease() takes a job.  Which leasable      *)
(* entry of a queue goes first (priority, group rotation, arrival) is left *)
(* open: nothing stated here depends on it.                                *)
(***************************************************************************)
EXTENDS Naturals, FiniteSets

CONSTANTS Jobs, NoJob, Runners, NoRunner, Pool,
          Workers, RunnerOf,     \* the runners' lease loops
          QueueOf, Capable,      \* where a job is parked, and who can run it
          LeaseTtl, QueueTimeout,   \* in ticks
          MaxWaiting,            \* backpressure: waiting jobs per queue, 0 = unlimited
          MaxEpoch               \* bound: leases of one job, after which it is not leased

ASSUME HubAssumption ==
    /\ IsFiniteSet(Jobs) /\ NoJob \notin Jobs
    /\ NoRunner \notin Runners
    /\ Pool \notin Runners
    /\ RunnerOf \in [Workers -> Runners]
    /\ QueueOf \in [Jobs -> Runners \cup {Pool}]
    /\ Capable \in [Runners -> SUBSET Jobs]
    /\ LeaseTtl \in Nat /\ QueueTimeout \in Nat /\ MaxWaiting \in Nat
    /\ MaxEpoch \in Nat \ {0}

VARIABLES
    entry,     \* entry[j]: the job's PendingEntry
    leaseAge,  \* leaseAge[j]: ticks since leasedAt was written
    idle,      \* idle[j]: ticks since the idle timer was armed
    promise,   \* promise[j]: the promise enqueue() returned
    ledger,    \* ledger[j][e]: state of the attempt opened for epoch e
    worker     \* worker[w]: its lease token, and its mint while one is in flight

vars == <<entry, leaseAge, idle, promise, ledger, worker>>

Epochs == 0..MaxEpoch
Entry == [st : {"absent", "present", "gone"},
          leased : BOOLEAN,            \* leasedAt is set
          leasedBy : Runners \cup {NoRunner},
          epoch : Epochs,              \* leaseEpoch
          cancel : BOOLEAN,            \* cancelRequested
          attempt : Epochs,            \* job.attemptId, 0 when stripped
          last : Epochs]               \* lastAttempt, 0 when the hub minted none

NoEntry == [st |-> "absent", leased |-> FALSE, leasedBy |-> NoRunner, epoch |-> 0,
            cancel |-> FALSE, attempt |-> 0, last |-> 0]

InMint == {"opening", "stamping", "ending"}      \* where a mint awaits
InRun == {"running", "aborted"}
Reporting == {"resubmit", "failing"}             \* a report's reply did not come
Worker == [pc : {"idle"} \cup Reporting \cup InMint \cup InRun,
           job : Jobs \cup {NoJob},
           epoch : Epochs,
           prior : Epochs,     \* the attempt the open was asked to supersede
           opened : Epochs]    \* the attempt its copy of the job names
Free == [pc |-> "idle", job |-> NoJob, epoch |-> 0, prior |-> 0, opened |-> 0]

Init ==
    /\ entry = [j \in Jobs |-> NoEntry]
    /\ leaseAge = [j \in Jobs |-> 0]
    /\ idle = [j \in Jobs |-> 0]
    /\ promise = [j \in Jobs |-> "none"]
    /\ ledger = [j \in Jobs |-> [e \in 1..MaxEpoch |-> "none"]]
    /\ worker = [w \in Workers |-> Free]

Serves(r, j) == QueueOf[j] \in {r, Pool} /\ j \in Capable[r]
\* Mutant: a cancelled entry still counts as waiting for a runner.
WaitingCancelled(x) == x.st = "present" /\ ~x.leased
Waiting(x) == x.st = "present" /\ ~x.leased /\ ~x.cancel
WaitingIn(q) == {k \in Jobs : QueueOf[k] = q /\ Waiting(entry[k])}

-----------------------------------------------------------------------------
(* The dispatcher's side.                                                  *)

\* Mutant: the cap is compared one too late.
QueueFullLate(q) == MaxWaiting > 0 /\ Cardinality(WaitingIn(q)) > MaxWaiting
\* Backpressure counts the waiting jobs only.
QueueFull(q) == MaxWaiting > 0 /\ Cardinality(WaitingIn(q)) >= MaxWaiting

\* enqueue(): parks the job and arms its idle timer, or refuses it when the
\* queue already holds MaxWaiting waiting jobs.
Enqueue(j) ==
    /\ promise[j] = "none"
    /\ IF QueueFull(QueueOf[j])
         THEN /\ promise' = [promise EXCEPT ![j] = "rate_limited"]
              /\ UNCHANGED <<entry, idle, ledger>>
         ELSE /\ promise' = [promise EXCEPT ![j] = "pending"]
              /\ entry' = [entry EXCEPT ![j] = [NoEntry EXCEPT !.st = "present", !.attempt = 1]]
              /\ idle' = [idle EXCEPT ![j] = 0]
              /\ ledger' = [ledger EXCEPT ![j][1] = "created"]
    /\ UNCHANGED <<leaseAge, worker>>

\* A promise settles once: a later resolve or reject of it is a no-op.
Settled(p, outcome) == IF p = "pending" THEN outcome ELSE p

\* Mutant: the timer gives up only on jobs nobody took.
IdleTimeoutWaiting(j) ==
    /\ Waiting(entry[j]) /\ idle[j] >= QueueTimeout
    /\ entry' = [entry EXCEPT ![j].st = "gone"]
    /\ promise' = [promise EXCEPT ![j] = Settled(@, "no_runner")]
    /\ UNCHANGED <<leaseAge, idle, ledger, worker>>

\* The idle timer fires: the entry is removed and its promise rejected.
IdleTimeout(j) ==
    /\ entry[j].st = "present" /\ idle[j] >= QueueTimeout
    /\ entry' = [entry EXCEPT ![j].st = "gone"]
    /\ promise' = [promise EXCEPT ![j] = Settled(@, "no_runner")]
    /\ UNCHANGED <<leaseAge, idle, ledger, worker>>

\* requestCancel(): every matching entry is marked and its promise rejected at
\* once; the entry stays, so that its holder's heartbeat hears the cancel.
RequestCancel ==
    \E S \in SUBSET {j \in Jobs : entry[j].st = "present" /\ ~entry[j].cancel} :
      /\ S # {}
      /\ entry' = [j \in Jobs |-> IF j \in S THEN [entry[j] EXCEPT !.cancel = TRUE]
                                             ELSE entry[j]]
      /\ promise' = [j \in Jobs |-> IF j \in S THEN Settled(promise[j], "cancelled")
                                               ELSE promise[j]]
      /\ UNCHANGED <<leaseAge, idle, ledger, worker>>

\* The control-plane process dies: entries, promises and calls in flight are
\* gone, and the runners keep tokens for jobs no hub knows.
HubCrash ==
    /\ \E j \in Jobs : entry[j].st = "present"
    /\ entry' = [j \in Jobs |-> IF entry[j].st = "present"
                                  THEN [entry[j] EXCEPT !.st = "gone"] ELSE entry[j]]
    /\ promise' = [j \in Jobs |-> Settled(promise[j], "lost")]
    /\ worker' = [w \in Workers |-> IF worker[w].pc \in InMint THEN Free ELSE worker[w]]
    /\ UNCHANGED <<leaseAge, idle, ledger>>

-----------------------------------------------------------------------------
(* lease(): the synchronous take.                                          *)

\* requeueExpired() over one queue: an uncancelled lease that ran out is cleared.
Requeued(q) ==
    [j \in Jobs |->
       IF /\ QueueOf[j] = q /\ entry[j].st = "present" /\ entry[j].leased
          /\ ~entry[j].cancel /\ leaseAge[j] > LeaseTtl
         THEN [entry[j] EXCEPT !.leased = FALSE] ELSE entry[j]]

Leasable(x, q) == {j \in Jobs : QueueOf[j] = q /\ Waiting(x[j]) /\ x[j].epoch < MaxEpoch}

\* rearm() of every waiting job the runner could take: touchByRunner.
Rearmed(clock, x, r) == [j \in Jobs |-> IF Waiting(x[j]) /\ Serves(r, j) THEN 0 ELSE clock[j]]

\* Mutant: the holder is taken from the queue's key, so a pool job is held by the pool.
LeasedByQueue(x, j, r) == [x[j] EXCEPT !.leased = TRUE, !.leasedBy = QueueOf[j], !.epoch = @ + 1]
\* Mutant: only the first lease bumps the epoch.
LeasedSameEpoch(x, j, r) == [x[j] EXCEPT !.leased = TRUE, !.leasedBy = r, !.epoch = 1]
\* The lease itself: the holder and a new epoch.
Leased(x, j, r) == [x[j] EXCEPT !.leased = TRUE, !.leasedBy = r, !.epoch = @ + 1]

\* A first lease fires the onLease hook (which stamps the dispatch's attempt), runs
\* that attempt and goes straight to the runner.  A re-lease opens an attempt first, and supersedes the one the job
\* names if no attempt of this hub's own stands in between.
Take(w, x, j) ==
    LET r == RunnerOf[w]
        y == [x EXCEPT ![j] = Leased(x, j, r)]
    IN /\ entry' = y
       /\ leaseAge' = [leaseAge EXCEPT ![j] = 0]
       /\ idle' = Rearmed([idle EXCEPT ![j] = 0], y, r)
       /\ ledger' = IF x[j].epoch = 0 /\ ledger[j][1] = "created"
                      THEN [ledger EXCEPT ![j][1] = "executing"] ELSE ledger
       /\ IF x[j].epoch = 0
            THEN \/ worker' = [worker EXCEPT ![w] = [Free EXCEPT
                        !.pc = "running", !.job = j, !.epoch = 1, !.opened = x[j].attempt]]
                 \/ worker' = worker          \* the reply is lost
            ELSE worker' = [worker EXCEPT ![w] = [Free EXCEPT
                        !.pc = "opening", !.job = j, !.epoch = y[j].epoch,
                        !.prior = IF x[j].last = 0 THEN x[j].attempt ELSE 0]]

\* Entries of the runner's own queue that it cannot run and meets before the one
\* it takes are removed and rejected; those in the pool are passed over.
Rejected(x, S) == [j \in Jobs |-> IF j \in S THEN [x[j] EXCEPT !.st = "gone"] ELSE x[j]]

LeaseOwn(w) ==
    /\ worker[w].pc = "idle"
    /\ LET r == RunnerOf[w]
           x == Requeued(r)
           unfit == Leasable(x, r) \ Capable[r]
       IN \E S \in SUBSET unfit, j \in Leasable(x, r) \cap Capable[r] :
            /\ promise' = [k \in Jobs |-> IF k \in S THEN Settled(promise[k], "mismatch") ELSE promise[k]]
            /\ Take(w, Rejected(x, S), j)

LeasePool(w) ==
    /\ worker[w].pc = "idle"
    /\ LET r == RunnerOf[w]
           own == Requeued(r)
           x == [j \in Jobs |-> IF QueueOf[j] = Pool THEN Requeued(Pool)[j] ELSE own[j]]
           unfit == Leasable(own, r)
       IN /\ unfit \cap Capable[r] = {}
          /\ promise' = [k \in Jobs |-> IF k \in unfit THEN Settled(promise[k], "mismatch") ELSE promise[k]]
          /\ \E j \in Leasable(x, Pool) \cap Capable[r] : Take(w, Rejected(x, unfit), j)

\* Nothing to take: the requeues and the rejections have happened all the same.
LeaseNothing(w) ==
    /\ worker[w].pc = "idle"
    /\ LET r == RunnerOf[w]
           own == Requeued(r)
           x == [j \in Jobs |-> IF QueueOf[j] = Pool THEN Requeued(Pool)[j] ELSE own[j]]
           unfit == Leasable(own, r)
       IN /\ (unfit \cup Leasable(x, Pool)) \cap Capable[r] = {}
          /\ promise' = [k \in Jobs |-> IF k \in unfit THEN Settled(promise[k], "mismatch") ELSE promise[k]]
          /\ entry' = Rejected(x, unfit)
    /\ UNCHANGED <<leaseAge, idle, ledger, worker>>

-----------------------------------------------------------------------------
(* The token fence, and mintAttempt between its awaits.                    *)

\* Mutant: the fence names the runner but not which of its leases.
HoldsAnyEpoch(x, w) == x.st = "present" /\ x.leased /\ x.leasedBy = RunnerOf[w]
\* Mutant: the fence names the lease number but not that it is still out.
HoldsRequeued(x, w) == /\ x.st = "present"
                       /\ x.epoch = worker[w].epoch /\ x.leasedBy = RunnerOf[w]
\* Mutant: whoever asks about a leased job holds it.
HoldsUnfenced(x, w) == x.st = "present" /\ x.leased
HoldsCurrentLease(x, w) ==
    /\ x.st = "present" /\ x.leased
    /\ x.epoch = worker[w].epoch /\ x.leasedBy = RunnerOf[w]
\* Mutant: a cancel is a hint, and the lease is renewed all the same.
WritableDespiteCancel(x, w) == HoldsCurrentLease(x, w)
HoldsWritableLease(x, w) == HoldsCurrentLease(x, w) /\ ~x.cancel

\* transition(): a terminal attempt stays as it is, and executing is entered
\* only from created.
Live == {"created", "executing"}
Supersede(led, e) == IF e # 0 /\ led[e] \in Live THEN [led EXCEPT ![e] = "superseded"] ELSE led
MarkExecuting(led, e) == IF e # 0 /\ led[e] = "created" THEN [led EXCEPT ![e] = "executing"] ELSE led

\* What openAttempt does to the ledger: supersede the prior (best effort), then
\* open the attempt of this lease, whose number is e, or fail to (e = 0).
Opened(led, prior, e) ==
    {IF e = 0 THEN l ELSE [l EXCEPT ![e] = "created"] : l \in {led, Supersede(led, prior)}}

\* Mutant: the entry is restamped without asking whether the lease is still there.
MintOpenedUnchecked(w) ==
    /\ worker[w].pc = "opening"
    /\ LET j == worker[w].job IN
       \E e \in {0, worker[w].epoch} : \E led \in Opened(ledger[j], worker[w].prior, e) :
         /\ entry' = [entry EXCEPT ![j].attempt = e]
         /\ ledger' = [ledger EXCEPT ![j] = led]
         /\ worker' = [worker EXCEPT ![w].pc = "stamping", ![w].opened = e]
    /\ UNCHANGED <<leaseAge, idle, promise>>

\* openAttempt settles, and the lease is validated again: current, the entry is
\* restamped; lost while the open was in flight, the opened attempt is ended
\* (best effort) and the runner gets nothing.
MintOpened(w) ==
    /\ worker[w].pc = "opening"
    /\ LET j == worker[w].job IN
       \E e \in {0, worker[w].epoch} : \E led \in Opened(ledger[j], worker[w].prior, e) :
         IF HoldsWritableLease(entry[j], w)
           THEN /\ entry' = [entry EXCEPT ![j].attempt = e]
                /\ ledger' = [ledger EXCEPT ![j] = led]
                /\ worker' = [worker EXCEPT ![w].pc = "stamping", ![w].opened = e]
           ELSE /\ \E l \in {led, Supersede(led, e)} : ledger' = [ledger EXCEPT ![j] = l]
                /\ worker' = [worker EXCEPT ![w] = Free]
                /\ UNCHANGED entry
    /\ UNCHANGED <<leaseAge, idle, promise>>

\* The mint is over: the entry remembers the attempt and the reply carries the
\* job to the runner, unless it is lost.
Deliver(w, j) ==
    /\ entry' = [entry EXCEPT ![j].last = IF worker[w].opened # 0 THEN worker[w].opened ELSE @]
    /\ \/ worker' = [worker EXCEPT ![w].pc = "running", ![w].prior = 0]
       \/ worker' = [worker EXCEPT ![w] = Free]

\* markExecuting (best effort) settles.  What lastAttempt names at this point is
\* taken to be the attempt this lease replaced, and is superseded.
MintStamped(w) ==
    /\ worker[w].pc = "stamping"
    /\ LET j == worker[w].job
           own == worker[w].opened
           replaced == entry[j].last
       IN \E led \in {ledger[j], MarkExecuting(ledger[j], own)} :
            IF replaced \notin {0, own}
              THEN /\ \E l \in {led, Supersede(led, replaced)} : ledger' = [ledger EXCEPT ![j] = l]
                   /\ worker' = [worker EXCEPT ![w].pc = "ending"]
                   /\ UNCHANGED entry
              ELSE /\ ledger' = [ledger EXCEPT ![j] = led]
                   /\ Deliver(w, j)
    /\ UNCHANGED <<leaseAge, idle, promise>>

MintEnded(w) ==
    /\ worker[w].pc = "ending"
    /\ Deliver(w, worker[w].job)
    /\ UNCHANGED <<leaseAge, idle, promise, ledger>>

-----------------------------------------------------------------------------
(* The runner's side: renewals and reports.                                *)

\* heartbeat(): the runner's waiting jobs are rearmed in any case; its own lease
\* is renewed while it is current and not cancelled, and a cancel is heard.  The timer
\* stops when the last report is done: until then it goes on, with no run to abort.
Heartbeat(w) ==
    /\ worker[w].pc \in InRun \cup Reporting
    /\ LET j == worker[w].job
           renew == HoldsWritableLease(entry[j], w)
           clock == Rearmed(idle, entry, RunnerOf[w])
           aborts == worker[w].pc \in InRun /\ HoldsCurrentLease(entry[j], w) /\ entry[j].cancel
       IN /\ leaseAge' = IF renew THEN [leaseAge EXCEPT ![j] = 0] ELSE leaseAge
          /\ idle' = IF renew THEN [clock EXCEPT ![j] = 0] ELSE clock
          /\ worker' = IF aborts THEN [worker EXCEPT ![w].pc = "aborted"] ELSE worker
    /\ UNCHANGED <<entry, promise, ledger>>

\* complete() and fail(): under a writable lease the entry is removed and its
\* promise settled with the attempt the entry ended up on; otherwise nothing.
Report(w, outcome, replied, lost) ==
    /\ LET j == worker[w].job IN
         IF HoldsWritableLease(entry[j], w)
           THEN /\ entry' = [entry EXCEPT ![j].st = "gone"]
                /\ promise' = [promise EXCEPT ![j] = Settled(@, outcome)]
           ELSE UNCHANGED <<entry, promise>>
    /\ \/ worker' = [worker EXCEPT ![w] = replied]
       \/ worker' = [worker EXCEPT ![w] = lost]
    /\ UNCHANGED <<leaseAge, idle, ledger>>

\* The run ends, with a result or a classified failure: submit_job_result.  If
\* its reply is lost the worker submits a classified failure instead.
Submit(w) == /\ worker[w].pc \in InRun
             /\ Report(w, "resolved", Free, [worker[w] EXCEPT !.pc = "resubmit"])
Resubmit(w) == /\ worker[w].pc = "resubmit"
               /\ Report(w, "resolved", Free, [worker[w] EXCEPT !.pc = "failing"])
\* fail_job: after two lost replies, or for a job the runner cannot parse.
FailJob(w) == /\ worker[w].pc \in {"running", "failing"}
              /\ Report(w, "failed", Free, Free)

\* The runner dies and comes back knowing nothing.  A mint it was waiting for
\* goes on in the hub without it.
WorkerCrash(w) ==
    /\ worker[w].pc \in InRun \cup Reporting
    /\ worker' = [worker EXCEPT ![w] = Free]
    /\ UNCHANGED <<entry, leaseAge, idle, promise, ledger>>

-----------------------------------------------------------------------------
Tick ==
    /\ leaseAge' = [j \in Jobs |-> IF entry[j].st = "present" /\ entry[j].leased
                                      /\ leaseAge[j] <= LeaseTtl
                                    THEN leaseAge[j] + 1 ELSE leaseAge[j]]
    /\ idle' = [j \in Jobs |-> IF entry[j].st = "present" /\ idle[j] < QueueTimeout
                                THEN idle[j] + 1 ELSE idle[j]]
    /\ UNCHANGED <<entry, promise, ledger, worker>>

DispatcherStep(j) == Enqueue(j) \/ IdleTimeout(j)
WorkerStep(w) == \/ LeaseOwn(w) \/ LeasePool(w) \/ LeaseNothing(w)
                 \/ MintOpened(w) \/ MintStamped(w) \/ MintEnded(w)
                 \/ Heartbeat(w) \/ Submit(w) \/ Resubmit(w) \/ FailJob(w) \/ WorkerCrash(w)

Next == \/ \E j \in Jobs : DispatcherStep(j)
        \/ \E w \in Workers : WorkerStep(w)
        \/ RequestCancel \/ HubCrash \/ Tick

Spec == Init /\ [][Next]_vars

-----------------------------------------------------------------------------
(* Properties.                                                             *)

TypeOK ==
    /\ entry \in [Jobs -> Entry]
    /\ leaseAge \in [Jobs -> 0..LeaseTtl + 1]
    /\ idle \in [Jobs -> 0..QueueTimeout]
    /\ promise \in [Jobs -> {"none", "pending", "resolved", "failed", "cancelled",
                             "no_runner", "mismatch", "rate_limited", "lost"}]
    /\ ledger \in [Jobs -> [1..MaxEpoch -> {"none", "created", "executing", "superseded"}]]
    /\ worker \in [Workers -> Worker]

HasToken(w) == worker[w].job # NoJob

\* No two workers, running or still waiting for their mint, carry the same token.
TokensDistinct ==
    \A v, w \in Workers :
       (v # w /\ HasToken(v) /\ HasToken(w) /\ worker[v].job = worker[w].job)
         => worker[v].epoch # worker[w].epoch

\* While a worker's token is honoured, the attempt the hub names for the job (to
\* authorize its evidence, and to settle the dispatch with when it completes) is
\* the one its own lease opened and its copy of the job carries, however the
\* mints of earlier leases interleaved with it.
EvidenceAttribution ==
    \A w \in Workers :
       LET j == worker[w].job IN
       (worker[w].pc \in InRun /\ HoldsWritableLease(entry[j], w))
         => /\ entry[j].attempt = worker[w].opened
            /\ worker[w].opened \in {0, worker[w].epoch}

\* A cancelled job is never leased again and never resolves its dispatch.
CancelRevokes ==
    [][\A j \in Jobs : entry[j].cancel =>
          entry'[j].epoch = entry[j].epoch /\ promise'[j] = promise[j]]_vars

\* Only the current, unrevoked holder keeps a lease from running out.
OnlyHolderRenews ==
    [][\A j \in Jobs :
          (entry[j].leased /\ entry'[j].epoch = entry[j].epoch /\ leaseAge'[j] < leaseAge[j])
            => /\ ~entry[j].cancel
               /\ \E w \in Workers : worker[w].job = j /\ worker[w].epoch = entry[j].epoch]_vars

\* Backpressure bounds what the dispatches themselves pile up: the jobs of a queue
\* that were never leased.  (Requeued ones come on top of it.)
ParkedBounded ==
    MaxWaiting > 0 => \A q \in Runners \cup {Pool} :
       Cardinality({j \in WaitingIn(q) : entry[j].epoch = 0}) <= MaxWaiting

\* The hub keeps the contract every lease hub keeps.
Verdict(p) == CASE p = "resolved" -> "completed" [] p = "cancelled" -> "cancelled"
                [] OTHER -> "failed"
Ended(j) == entry[j].st = "gone" \/ (entry[j].st = "present" /\ entry[j].cancel /\ ~entry[j].leased)
Contract == INSTANCE LeaseContract WITH
    lease <- [j \in Jobs |->
       [phase |-> IF entry[j].st = "absent" THEN "absent"
                  ELSE IF Ended(j) THEN "ended"
                  ELSE IF ~entry[j].leased THEN "waiting"
                  ELSE IF entry[j].cancel THEN "revoked" ELSE "held",
        epoch |-> entry[j].epoch,
        holder |-> IF entry[j].leased THEN entry[j].leasedBy ELSE NoRunner,
        verdict |-> IF Ended(j) THEN Verdict(promise[j]) ELSE "none"]]
KeepsContract == Contract!Spec

-----------------------------------------------------------------------------
(* Liveness.  The clock runs and timers fire.  No runner is assumed to ask  *)
(* for work, to heartbeat or to stop when it is told to.                    *)
TimersFire == WF_vars(Tick) /\ \A j \in Jobs : WF_vars(IdleTimeout(j))
TimelySpec == Spec /\ TimersFire

\* A cancelled entry leaves the queue even if its holder ignores the cancel and
\* heartbeats for ever.
CancelledLeaves ==
    \A j \in Jobs : (entry[j].st = "present" /\ entry[j].cancel) ~> entry[j].st = "gone"

\* Some runner that could run the job is in the middle of a run or of its report: its
\* signs of life keep the lease, or the jobs that wait behind it, from timing out.
Served(j) == \E w \in Workers : worker[w].pc \in InRun \cup Reporting /\ Serves(RunnerOf[w], j)

\* A parked dispatch is answered unless runners that could run it stay at work for
\* ever, or its job is leased again and again (once more than any MaxEpoch says):
\* silence, lost leases and dead holders all end in an answer.
DispatchAnswered ==
    \A j \in Jobs :
       []<>Served(j) \/ (promise[j] = "pending" ~> promise[j] # "pending" \/ entry[j].epoch = MaxEpoch)

=============================================================================
