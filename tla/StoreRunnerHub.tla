--------------------------- MODULE StoreRunnerHub ---------------------------
(***************************************************************************)
(* The database-backed lease hub for self-hosted runners: the jobs table   *)
(* every control-plane replica shares (PgRunnerJobStore), the replica that *)
(* parked a job and polls for its outcome (StoreRunnerHub.enqueue), the    *)
(* runners' workers that lease, renew and report (runLeaseWorkers through  *)
(* the hub) and the operator's cancel.                                     *)
(*                                                                         *)
(* Each SQL statement, and the claim transaction, is one step; everything  *)
(* that awaits between two statements can be interleaved there.  Time is   *)
(* kept as ages: age[j] is how long ago the row's activity_at was written  *)
(* and lag[w] how long ago the lease call of worker w read the clock, so   *)
(* a timestamp captured before an await is old when it is used.            *)
(*                                                                         *)
(* The attempt ledger appears as far as the claim writes it: attempt e of  *)
(* a job is the physical execution opened for its lease epoch e, attempt 1 *)
(* being the one its dispatch opened before parking it.                    *)
(***************************************************************************)
EXTENDS Naturals, FiniteSets

CONSTANTS Jobs, NoJob, Runners, NoRunner, Pool,
          Workers,       \* the runners' concurrent lease loops
          RunnerOf,      \* the runner each worker belongs to
          QueueOf,       \* the runner a job is parked for, or the owner's Pool
          Capable,       \* Capable[r]: the jobs whose capabilities r advertises
          LeaseTtl, QueueTimeout,   \* in ticks
          MaxEpoch,      \* bound: leases of one job, after which it is not claimed
          MaxLag         \* bound: ticks one lease call may take

ASSUME HubAssumption ==
    /\ IsFiniteSet(Jobs) /\ NoJob \notin Jobs
    /\ NoRunner \notin Runners
    /\ Pool \notin Runners
    /\ RunnerOf \in [Workers -> Runners]
    /\ QueueOf \in [Jobs -> Runners \cup {Pool}]
    /\ Capable \in [Runners -> SUBSET Jobs]
    /\ LeaseTtl \in Nat /\ QueueTimeout \in Nat /\ MaxLag \in Nat
    /\ MaxEpoch \in Nat \ {0}

VARIABLES
    row,         \* row[j]: the job's row in everdict_runner_jobs
    created,     \* created[j]: the row's place in created_at order, 0 before park
    age,         \* age[j]: ticks since activity_at
    ledger,      \* ledger[j][e]: state of the attempt opened for epoch e
    disp,        \* disp[j]: the parking replica's enqueue() call
    fired,       \* jobs whose onLease hook ran
    reply,       \* reply[j]: the attempt a resolved enqueue() named, 0 if none
    worker,      \* worker[w]: what the worker is doing, with its lease token
    lag,         \* lag[w]: ticks since its lease call read the clock
    cancelling   \* the ids cancel() has selected and not yet updated

vars == <<row, created, age, ledger, disp, fired, reply, worker, lag, cancelling>>

Terminal == {"completed", "failed", "cancelled"}
Epochs == 0..MaxEpoch
\* No comparison tells ages beyond this apart.
AgeCap == 1 + IF QueueTimeout > LeaseTtl + MaxLag THEN QueueTimeout ELSE LeaseTtl + MaxLag

Row == [status : {"absent", "queued", "leased"} \cup Terminal,
        leasedBy : Runners \cup {NoRunner},
        epoch : Epochs,          \* lease_epoch
        cancel : BOOLEAN,        \* cancel_requested
        attempt : Epochs,        \* the attempt the job document and current_attempt_id name
        result : Epochs]         \* the lease that wrote the result, 0 if none

AttemptState == {"none", "created", "executing", "superseded"}
Answers == {"resolved", "failed", "cancelled", "no_runner"}
InRun == {"running", "beat_ok", "beat_cancelled", "aborted"}   \* its run is going on
Reporting == {"resubmit", "failing"}                  \* a report's reply did not come
Worker == [pc : {"idle", "leasing"} \cup Reporting \cup InRun,
           job : Jobs \cup {NoJob},
           epoch : Epochs]
Idle == [pc |-> "idle", job |-> NoJob, epoch |-> 0]

NoRow == [status |-> "absent", leasedBy |-> NoRunner, epoch |-> 0,
          cancel |-> FALSE, attempt |-> 0, result |-> 0]

Init ==
    /\ row = [j \in Jobs |-> NoRow]
    /\ created = [j \in Jobs |-> 0]
    /\ age = [j \in Jobs |-> 0]
    /\ ledger = [j \in Jobs |-> [e \in 1..MaxEpoch |-> "none"]]
    /\ disp = [j \in Jobs |-> "idle"]
    /\ fired = {}
    /\ reply = [j \in Jobs |-> 0]
    /\ worker = [w \in Workers |-> Idle]
    /\ lag = [w \in Workers |-> 0]
    /\ cancelling = {}

-----------------------------------------------------------------------------
(* The parking replica: StoreRunnerHub.enqueue.                            *)

\* park(): the row is inserted queued, naming the attempt the dispatch opened.
Park(j) ==
    /\ disp[j] = "idle"
    /\ disp' = [disp EXCEPT ![j] = "polling"]
    /\ row' = [row EXCEPT ![j] = [NoRow EXCEPT !.status = "queued", !.attempt = 1]]
    /\ created' = [created EXCEPT ![j] =
                     Cardinality({k \in Jobs : created[k] # 0}) + 1]
    /\ age' = [age EXCEPT ![j] = 0]
    /\ ledger' = [ledger EXCEPT ![j][1] = "created"]
    /\ UNCHANGED <<fired, reply, worker, lag, cancelling>>

\* outcome(): a cancel shows through a row that has not ended yet.
outcome(r) == IF r.cancel /\ r.status \notin {"completed", "failed"}
                THEN "cancelled" ELSE r.status

\* Mutant: an undecided row's status is returned as if it were an answer.
SettlementRaw(o) == IF o = "completed" THEN "resolved" ELSE o
\* One poll's answer for what it read: settle, or see nothing decided.
Settlement(o) == CASE o = "completed" -> "resolved"
                   [] o = "failed"    -> "failed"
                   [] o = "cancelled" -> "cancelled"
                   [] OTHER           -> "polling"

\* onLease: the first poll that sees the row leased stamps the dispatch's attempt.
FireOnLease(j) ==
    IF row[j].status = "leased" /\ ~row[j].cancel /\ j \notin fired
      THEN /\ fired' = fired \cup {j}
           /\ ledger' = [ledger EXCEPT ![j][1] = IF @ = "created" THEN "executing" ELSE @]
      ELSE UNCHANGED <<fired, ledger>>

\* One round of the poll loop.  A row that is still open and silent for longer
\* than the queue timeout sends the loop on to expire(), a later statement.
Poll(j) ==
    /\ disp[j] = "polling"
    /\ FireOnLease(j)
    /\ LET o == outcome(row[j]) IN
         /\ disp' = [disp EXCEPT ![j] =
                       IF o \in {"queued", "leased"} /\ age[j] > QueueTimeout
                         THEN "expiring" ELSE Settlement(o)]
         /\ reply' = [reply EXCEPT ![j] = IF o = "completed" THEN row[j].attempt ELSE @]
    /\ UNCHANGED <<row, created, age, worker, lag, cancelling>>

\* Mutant: the expiry is not conditioned on the row still being open.
ExpireAnyRow(j) ==
    /\ disp[j] = "expiring"
    /\ row' = [row EXCEPT ![j].status = "failed"]
    /\ disp' = [disp EXCEPT ![j] = "no_runner"]
    /\ UNCHANGED <<created, age, ledger, fired, reply, worker, lag, cancelling>>

\* expire(): fails the row if it has not ended, and the dispatch rejects with
\* no_runner whatever the statement found.
Expire(j) ==
    /\ disp[j] = "expiring"
    /\ row' = [row EXCEPT ![j].status = IF @ \in {"queued", "leased"} THEN "failed" ELSE @]
    /\ disp' = [disp EXCEPT ![j] = "no_runner"]
    /\ UNCHANGED <<created, age, ledger, fired, reply, worker, lag, cancelling>>

\* The parking replica dies: nobody polls for this job any more.
DispatcherCrash(j) ==
    /\ disp[j] \in {"polling", "expiring"}
    /\ disp' = [disp EXCEPT ![j] = "gone"]
    /\ UNCHANGED <<row, created, age, ledger, fired, reply, worker, lag, cancelling>>
-----------------------------------------------------------------------------
(* The lease call: StoreRunnerHub.leaseWait and PgRunnerJobStore's claim.  *)

\* The queue predicate of claim and touchWaiting: own queue or pool, and the
\* required capabilities are among the advertised ones.
Serves(r, j) == QueueOf[j] \in {r, Pool} /\ j \in Capable[r]

\* Mutant: any runner's liveness refreshes any waiting job, capable of it or not.
TouchedByAnyone(a, r, lagged) ==
    [j \in Jobs |->
       IF row[j].status = "queued" /\ ~row[j].cancel /\ a[j] > lagged THEN lagged ELSE a[j]]

\* touchWaiting(): a runner that was heard from at a clock reading `lagged` ticks
\* old keeps every waiting job it could take alive, never moving one backwards.
Touched(a, r, lagged) ==
    [j \in Jobs |->
       IF row[j].status = "queued" /\ ~row[j].cancel /\ Serves(r, j) /\ a[j] > lagged
         THEN lagged ELSE a[j]]

\* A worker asks for a job: claimOnce reads the clock and refreshes the queue.
StartLease(w) ==
    /\ worker[w].pc = "idle"
    /\ worker' = [worker EXCEPT ![w].pc = "leasing"]
    /\ lag' = [lag EXCEPT ![w] = 0]
    /\ age' = Touched(age, RunnerOf[w], 0)
    /\ UNCHANGED <<row, created, ledger, disp, fired, reply, cancelling>>

\* The two sweeps a claim opens with, at the clock reading of the claim: an
\* expired lease goes back to the queue, an expired and cancelled one ends.
Expired(j, lagged) == row[j].status = "leased" /\ age[j] > LeaseTtl + lagged
\* Mutant: an expired cancelled lease is excluded from the requeue and ended by nothing.
SweptLimbo(lagged) ==
    [j \in Jobs |->
       IF Expired(j, lagged) /\ ~row[j].cancel
         THEN [row[j] EXCEPT !.status = "queued", !.leasedBy = NoRunner]
         ELSE row[j]]
Swept(lagged) ==
    [j \in Jobs |->
       IF ~Expired(j, lagged) THEN row[j]
       ELSE IF row[j].cancel THEN [row[j] EXCEPT !.status = "cancelled"]
       ELSE [row[j] EXCEPT !.status = "queued", !.leasedBy = NoRunner]]

\* The candidates of the claim statement in table state t.
Claimable(t, r) ==
    {j \in Jobs : /\ t[j].status = "queued" /\ ~t[j].cancel
                  /\ Serves(r, j) /\ t[j].epoch < MaxEpoch}

\* ORDER BY: the runner's own queue before the pool, then created_at.
Before(j, k) == \/ QueueOf[j] # Pool /\ QueueOf[k] = Pool
                \/ (QueueOf[j] = Pool) = (QueueOf[k] = Pool) /\ created[j] < created[k]

\* SKIP LOCKED: a row may be passed over only while another claim that could
\* have locked it is in flight.
Locked(w, k) == \E v \in Workers \ {w} :
                  worker[v].pc = "leasing" /\ k \in Claimable(row, RunnerOf[v])

Picks(t, w, j) ==
    /\ j \in Claimable(t, RunnerOf[w])
    /\ \A k \in Claimable(t, RunnerOf[w]) : Before(k, j) => Locked(w, k)

\* Mutant: a re-lease keeps the epoch of the lease it replaces.
ClaimedRowSameEpoch(r, old) ==
    [old EXCEPT !.status = "leased", !.leasedBy = r, !.epoch = 1]

\* The claimed row: the next epoch, and from the second lease on the job
\* document is restamped with the attempt minted for it.
ClaimedRow(r, old) ==
    [old EXCEPT !.status = "leased", !.leasedBy = r, !.epoch = @ + 1,
                !.attempt = IF old.epoch = 0 THEN @ ELSE old.epoch + 1]

\* Mutant: nothing ends the attempt a re-lease replaces.
MintedBeside(led, old) ==
    IF old.epoch = 0 THEN led ELSE [led EXCEPT ![old.epoch + 1] = "executing"]

\* The mint: the attempt the row named is superseded and the new one is opened
\* and marked executing.  A first lease runs the attempt its dispatch opened.
Minted(led, old) ==
    IF old.epoch = 0 THEN led
    ELSE [e \in 1..MaxEpoch |->
            IF e = old.epoch + 1 THEN "executing"
            ELSE IF e = old.attempt /\ led[e] \in {"created", "executing"}
                   THEN "superseded" ELSE led[e]]

\* claimAttempt(): the sweeps, the claim, the mint and the restamp commit
\* together.  The reply reaches the worker, or is lost on the way to it.
Claim(w) ==
    /\ worker[w].pc = "leasing"
    /\ LET r == RunnerOf[w]
           t == Swept(lag[w])
       IN \E j \in Jobs :
            /\ Picks(t, w, j)
            /\ row' = [t EXCEPT ![j] = ClaimedRow(r, t[j])]
            /\ ledger' = [ledger EXCEPT ![j] = Minted(@, t[j])]
            /\ age' = [age EXCEPT ![j] = lag[w]]
            /\ \/ worker' = [worker EXCEPT ![w] =
                               [pc |-> "running", job |-> j, epoch |-> row'[j].epoch]]
               \/ worker' = [worker EXCEPT ![w] = Idle]
    /\ lag' = [lag EXCEPT ![w] = 0]
    /\ UNCHANGED <<created, disp, fired, reply, cancelling>>

\* Nothing to take (or only rows another claim has locked): the sweeps still
\* commit and the long poll goes round again.
ClaimNothing(w) ==
    /\ worker[w].pc = "leasing"
    /\ \A k \in Claimable(Swept(lag[w]), RunnerOf[w]) : Locked(w, k)
    /\ row' = Swept(lag[w])
    /\ worker' = [worker EXCEPT ![w] = Idle]
    /\ lag' = [lag EXCEPT ![w] = 0]
    /\ UNCHANGED <<created, age, ledger, disp, fired, reply, cancelling>>

\* The mint threw, or the call failed before its transaction: all of it rolls back.
ClaimFails(w) ==
    /\ worker[w].pc = "leasing"
    /\ worker' = [worker EXCEPT ![w] = Idle]
    /\ lag' = [lag EXCEPT ![w] = 0]
    /\ UNCHANGED <<row, created, age, ledger, disp, fired, reply, cancelling>>

-----------------------------------------------------------------------------
(* The holder of a lease: renewals and reports, each fenced by the token.  *)

\* Mutant: the fence asks which runner holds the job, not which lease.
HoldsLeaseAnyEpoch(r, w) == r.status = "leased" /\ r.leasedBy = RunnerOf[w] /\ r.epoch > 0
\* Mutant: the fence asks only whether the job is leased.
HoldsLeaseUnfenced(r, w) == r.status = "leased" /\ r.epoch > 0
\* The current-lease predicate, and the writable one that a cancel revokes.
HoldsLease(r, w) == r.status = "leased" /\ r.leasedBy = RunnerOf[w]
                    /\ r.epoch = worker[w].epoch /\ r.epoch > 0
\* Mutant: a cancel is a hint, the holder may still write.
WritableDespiteCancel(r, w) == HoldsLease(r, w)
HoldsWritableLease(r, w) == HoldsLease(r, w) /\ ~r.cancel

\* touch(): renews an unrevoked lease.  A cancelled one, ended or not, is not
\* renewed but its holder is told.
HearsCancel(r, w) == \/ HoldsLease(r, w) /\ r.cancel
                     \/ /\ r.status = "cancelled" /\ r.leasedBy = RunnerOf[w]
                        /\ r.epoch = worker[w].epoch /\ r.epoch > 0

\* The timer stops when the last report is done: while the worker reports it goes on,
\* and aborts nothing any more.
Heartbeat(w) ==
    /\ worker[w].pc \in {"running", "aborted"} \cup Reporting
    /\ LET j == worker[w].job IN
         /\ age' = IF HoldsWritableLease(row[j], w) THEN [age EXCEPT ![j] = 0] ELSE age
         /\ worker' = [worker EXCEPT ![w].pc =
                         IF @ \in Reporting THEN @
                         ELSE IF @ = "aborted" \/ HearsCancel(row[j], w)
                           THEN "beat_cancelled" ELSE "beat_ok"]
    /\ UNCHANGED <<row, created, ledger, disp, fired, reply, lag, cancelling>>

\* The same call goes on to touchWaiting() and its reply reaches the run, if it still
\* goes on.  (While the worker reports, the two statements are not tied to each other.)
HeartbeatReply(w) ==
    /\ worker[w].pc \in {"beat_ok", "beat_cancelled"} \cup Reporting
    /\ age' = Touched(age, RunnerOf[w], 0)
    /\ worker' = [worker EXCEPT ![w].pc =
                    CASE @ = "beat_ok" -> "running"
                      [] @ = "beat_cancelled" -> "aborted"
                      [] OTHER -> @]
    /\ UNCHANGED <<row, created, ledger, disp, fired, reply, lag, cancelling>>

\* complete() and fail(): end the row under a writable lease.  Refused, they
\* acknowledge a cancel of the caller's own lease and change nothing else.
ReportedRow(r, w, status) ==
    CASE HoldsWritableLease(r, w) ->
           [r EXCEPT !.status = status,
                     !.result = IF status = "completed" THEN worker[w].epoch ELSE @]
      [] HoldsLease(r, w) /\ r.cancel -> [r EXCEPT !.status = "cancelled"]
      [] OTHER -> r

Report(w, status, replied, lost) ==
    /\ row' = [row EXCEPT ![worker[w].job] = ReportedRow(@, w, status)]
    /\ \/ worker' = [worker EXCEPT ![w] = replied]
       \/ worker' = [worker EXCEPT ![w] = lost]
    /\ UNCHANGED <<created, age, ledger, disp, fired, reply, lag, cancelling>>

\* The run ends, with a result or a classified failure: submit_job_result.  If
\* its reply is lost the worker submits a classified failure instead.
Submit(w) == /\ worker[w].pc \in InRun
             /\ Report(w, "completed", Idle, [worker[w] EXCEPT !.pc = "resubmit"])

Resubmit(w) == /\ worker[w].pc = "resubmit"
               /\ Report(w, "completed", Idle, [worker[w] EXCEPT !.pc = "failing"])

\* fail_job: the last word after two lost replies, and the first about a job
\* the runner cannot parse.
FailJob(w) == /\ worker[w].pc \in {"running", "failing"}
              /\ Report(w, "failed", Idle, Idle)

\* The runner process dies and comes back knowing nothing of its leases.
WorkerCrash(w) ==
    /\ worker[w].pc # "idle"
    /\ worker' = [worker EXCEPT ![w] = Idle]
    /\ lag' = [lag EXCEPT ![w] = 0]
    /\ UNCHANGED <<row, created, age, ledger, disp, fired, reply, cancelling>>

-----------------------------------------------------------------------------
(* The operator's cancel: PgRunnerJobStore.cancel is two statements.       *)

CancelSelect ==
    /\ cancelling = {}
    /\ \E ids \in SUBSET {j \in Jobs : row[j].status \in {"queued", "leased"}
                                      /\ ~row[j].cancel} :
         ids # {} /\ cancelling' = ids
    /\ UNCHANGED <<row, created, age, ledger, disp, fired, reply, worker, lag>>

\* The update names the selected ids and asks nothing about what they became.
CancelledRow(r) == [r EXCEPT !.cancel = TRUE,
                             !.status = IF @ = "queued" THEN "cancelled" ELSE @]
CancelUpdate ==
    /\ cancelling # {}
    /\ row' = [j \in Jobs |-> IF j \in cancelling THEN CancelledRow(row[j]) ELSE row[j]]
    /\ cancelling' = {}
    /\ UNCHANGED <<created, age, ledger, disp, fired, reply, worker, lag>>

-----------------------------------------------------------------------------
\* One tick of the clock all of them read.  No lease call outlives MaxLag ticks.
Tick ==
    /\ \A w \in Workers : worker[w].pc = "leasing" => lag[w] < MaxLag
    /\ age' = [j \in Jobs |->
                 IF row[j].status \in {"queued", "leased"} /\ age[j] < AgeCap
                   THEN age[j] + 1 ELSE age[j]]
    /\ lag' = [w \in Workers |->
                 IF worker[w].pc = "leasing" THEN lag[w] + 1 ELSE lag[w]]
    /\ UNCHANGED <<row, created, ledger, disp, fired, reply, worker, cancelling>>

DispatcherStep(j) == Park(j) \/ Poll(j) \/ Expire(j) \/ DispatcherCrash(j)
WorkerStep(w) == \/ StartLease(w) \/ Claim(w) \/ ClaimNothing(w) \/ ClaimFails(w)
                 \/ Heartbeat(w) \/ HeartbeatReply(w)
                 \/ Submit(w) \/ Resubmit(w) \/ FailJob(w) \/ WorkerCrash(w)

Next == \/ \E j \in Jobs : DispatcherStep(j)
        \/ \E w \in Workers : WorkerStep(w)
        \/ CancelSelect \/ CancelUpdate \/ Tick

Spec == Init /\ [][Next]_vars

-----------------------------------------------------------------------------
(* Properties.                                                             *)

TypeOK ==
    /\ row \in [Jobs -> Row]
    /\ created \in [Jobs -> Nat]
    /\ age \in [Jobs -> 0..AgeCap]
    /\ ledger \in [Jobs -> [1..MaxEpoch -> AttemptState]]
    /\ disp \in [Jobs -> {"idle", "polling", "expiring", "gone"} \cup Answers]
    /\ fired \in SUBSET Jobs
    /\ reply \in [Jobs -> Epochs]
    /\ worker \in [Workers -> Worker]
    /\ lag \in [Workers -> 0..MaxLag]
    /\ cancelling \in SUBSET Jobs

HasToken(w) == worker[w].job # NoJob

\* Two workers never hold the same lease token, whatever requeues, lost replies
\* and crashes came before: the token alone decides whose report is accepted.
TokensDistinct ==
    \A v, w \in Workers :
       (v # w /\ HasToken(v) /\ HasToken(w) /\ worker[v].job = worker[w].job)
         => worker[v].epoch # worker[w].epoch

\* At most one physical attempt of a job is alive in the ledger, and once a
\* runner has been handed the job it is the one the row names.
OneLiveAttempt ==
    \A j \in Jobs : \A e \in 1..MaxEpoch :
       ledger[j][e] \in {"created", "executing"} => e = row[j].attempt

\* A completed row names the attempt that produced the result, that attempt is
\* not superseded, and it is what a resolved dispatch was told to settle.
ResultAttribution ==
    \A j \in Jobs :
       /\ row[j].status = "completed" =>
            /\ row[j].result = row[j].epoch /\ row[j].attempt = row[j].result
            /\ ledger[j][row[j].attempt] \in {"created", "executing"}
       /\ disp[j] = "resolved" => row[j].status = "completed" /\ reply[j] = row[j].attempt

\* A row that has ended keeps its status, result, attempt and holder: no late
\* report, sweep, expiry or retry rewrites an outcome.
OutcomeFrozen ==
    [][\A j \in Jobs : row[j].status \in Terminal =>
          [row'[j] EXCEPT !.cancel = row[j].cancel] = row[j]]_vars

\* A cancel that landed before the end sticks: the job is never leased again and
\* its holder's result never becomes the outcome.
CancelSticks ==
    [][\A j \in Jobs : row[j].cancel /\ row[j].status \notin Terminal =>
          row'[j].epoch = row[j].epoch /\ row'[j].status # "completed"]_vars

\* Only the current, unrevoked holder of a lease keeps it from running out.
OnlyHolderRenews ==
    [][\A j \in Jobs :
          (row[j].status = "leased" /\ row'[j].epoch = row[j].epoch /\ age'[j] < age[j])
            => /\ ~row[j].cancel
               /\ \E w \in Workers : worker[w].job = j /\ worker[w].epoch = row[j].epoch]_vars

\* The hub keeps the contract every lease hub keeps.
Contract == INSTANCE LeaseContract WITH
    lease <- [j \in Jobs |->
       [phase |-> CASE row[j].status = "absent" -> "absent"
                    [] row[j].status = "queued" -> "waiting"
                    [] row[j].status = "leased" /\ ~row[j].cancel -> "held"
                    [] row[j].status = "leased" /\ row[j].cancel -> "revoked"
                    [] OTHER -> "ended",
        epoch |-> row[j].epoch,
        holder |-> row[j].leasedBy,
        verdict |-> IF row[j].status \in Terminal THEN row[j].status ELSE "none"]]
KeepsContract == Contract!Spec

-----------------------------------------------------------------------------
(* Liveness.  The parking replica polls and the clock runs; every run ends, *)
(* in a report that is eventually made; a worker asks again when it is idle *)
(* and its lease calls do not fail for ever.                                *)
Fairness ==
    /\ WF_vars(Tick)
    /\ \A j \in Jobs : WF_vars(Poll(j)) /\ WF_vars(Expire(j))
    /\ \A w \in Workers :
         /\ WF_vars(StartLease(w)) /\ SF_vars(Claim(w)) /\ SF_vars(ClaimNothing(w))
         /\ WF_vars(Submit(w)) /\ WF_vars(Resubmit(w))
         /\ WF_vars(worker[w].pc = "failing" /\ FailJob(w))

FairSpec == Spec /\ Fairness

\* A dispatch whose replica stays up is answered, or its job is leased again and again
\* (once more than any MaxEpoch says): a silent queue, lost lease replies, dead holders
\* and refused reports each end in an answer or in the next lease.
DispatchAnswered ==
    \A j \in Jobs :
       disp[j] = "polling" ~> disp[j] \in Answers \cup {"gone"} \/ row[j].epoch = MaxEpoch

\* A cancelled lease never stays in limbo: its row reaches a terminal status.
CancelTerminates ==
    \A j \in Jobs : (row[j].cancel /\ row[j].status = "leased") ~> row[j].status \in Terminal

=============================================================================
