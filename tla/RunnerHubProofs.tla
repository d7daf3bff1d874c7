--------------------------- MODULE RunnerHubProofs ---------------------------
(***************************************************************************)
(* What RunnerHub guarantees for any jobs, runners, workers, queues and    *)
(* bounds.  First the types and what the take of lease() can do to an      *)
(* entry, then the inductive invariant IInv and the classification of a    *)
(* step's effect on one job (JobMove) and on one worker, from which the    *)
(* invariants, the action properties and the lease contract follow.        *)
(***************************************************************************)
EXTENDS RunnerHub, FiniteSetTheorems, TLAPS

-----------------------------------------------------------------------------
(* Types.                                                                  *)

Outcome == {"resolved", "failed", "cancelled", "no_runner", "mismatch", "rate_limited", "lost"}
Promise == {"none", "pending"} \cup Outcome
AttemptState == {"none", "created", "executing", "superseded"}
Ledger == [1..MaxEpoch -> AttemptState]

\* The small numbers the handlers write are in their ranges.
LEMMA Bounds == /\ LeaseTtl \in Nat /\ QueueTimeout \in Nat /\ MaxEpoch \in Nat
                /\ 0 \in Epochs /\ 1 \in Epochs /\ 1 \in 1..MaxEpoch
                /\ 0 \in 0..LeaseTtl + 1 /\ 0 \in 0..QueueTimeout
                /\ Epochs \subseteq Nat
  BY HubAssumption DEF Epochs

\* Below the bound there is a next epoch.
LEMMA NextEpoch ==
  ASSUME NEW e \in Epochs, e < MaxEpoch
  PROVE  e + 1 \in Epochs /\ e + 1 >= 1
  BY HubAssumption DEF Epochs

\* The handlers' writes keep an entry an entry.
LEMMA EntryWrites ==
  ASSUME NEW x \in Entry
  PROVE  /\ [x EXCEPT !.st = "gone"] \in Entry
         /\ [x EXCEPT !.cancel = TRUE] \in Entry
         /\ [x EXCEPT !.leased = FALSE] \in Entry
         /\ \A e \in Epochs : /\ [x EXCEPT !.attempt = e] \in Entry
                              /\ [x EXCEPT !.last = e] \in Entry
  BY DEF Entry

\* And so does a lease below the bound.
Granted(x, r) == [x EXCEPT !.leased = TRUE, !.leasedBy = r, !.epoch = @ + 1]
LEMMA GrantedType ==
  ASSUME NEW x \in Entry, NEW r \in Runners, x.epoch < MaxEpoch
  PROVE  Granted(x, r) \in Entry
<1>1. x.epoch + 1 \in Epochs
  BY NextEpoch DEF Entry
<1>2. QED
  BY <1>1 DEF Granted, Entry

\* The entries and workers the handlers start from.
LEMMA NoEntryType == NoEntry \in Entry
  BY Bounds DEF NoEntry, Entry

LEMMA ParkedType == [NoEntry EXCEPT !.st = "present", !.attempt = 1] \in Entry
  BY Bounds DEF NoEntry, Entry

LEMMA FreeType == Free \in Worker
  BY Bounds DEF Free, Worker

\* A worker moves on, is stamped with an attempt, or drops the prior it asked to supersede.
LEMMA WorkerWrites ==
  ASSUME NEW x \in Worker,
         NEW pc \in {"idle"} \cup Reporting \cup InMint \cup InRun,
         NEW e \in Epochs
  PROVE  /\ [x EXCEPT !.pc = pc] \in Worker
         /\ [x EXCEPT !.pc = pc, !.opened = e] \in Worker
         /\ [x EXCEPT !.pc = pc, !.prior = 0] \in Worker
  BY Bounds DEF Worker

\* rearm() keeps every clock in its range.
LEMMA RearmedType ==
  ASSUME NEW clock \in [Jobs -> 0..QueueTimeout], NEW x, NEW r
  PROVE  Rearmed(clock, x, r) \in [Jobs -> 0..QueueTimeout]
  BY Bounds DEF Rearmed

\* The ledger's transitions keep it a ledger.
LEMMA LedgerWrites ==
  ASSUME NEW led \in Ledger, NEW e \in Epochs
  PROVE  Supersede(led, e) \in Ledger /\ MarkExecuting(led, e) \in Ledger
  BY DEF Supersede, MarkExecuting, Ledger, AttemptState

LEMMA OpenedType ==
  ASSUME NEW led \in Ledger, NEW prior \in Epochs, NEW e \in Epochs, NEW l \in Opened(led, prior, e)
  PROVE  l \in Ledger
<1>1. PICK k \in {led, Supersede(led, prior)} : l = IF e = 0 THEN k ELSE [k EXCEPT ![e] = "created"]
  BY DEF Opened
<1>2. k \in Ledger
  BY <1>1, LedgerWrites
<1>3. QED
  BY <1>1, <1>2 DEF Ledger, AttemptState

LEMMA SettledType ==
  ASSUME NEW p \in Promise, NEW outcome \in Outcome
  PROVE  Settled(p, outcome) \in Promise
  BY DEF Settled, Promise

\* TypeOK, with its ranges named.
LEMMA Typed ==
  TypeOK <=> /\ entry \in [Jobs -> Entry]
             /\ leaseAge \in [Jobs -> 0..LeaseTtl + 1]
             /\ idle \in [Jobs -> 0..QueueTimeout]
             /\ promise \in [Jobs -> Promise]
             /\ ledger \in [Jobs -> Ledger]
             /\ worker \in [Workers -> Worker]
<1>1. Promise = {"none", "pending", "resolved", "failed", "cancelled",
                 "no_runner", "mismatch", "rate_limited", "lost"}
  BY DEF Promise, Outcome
<1>2. QED
  BY <1>1 DEF TypeOK, Ledger, AttemptState

\* TypeOK holds at the start.
LEMMA InitTyped == Init => TypeOK
<1> SUFFICES ASSUME Init PROVE TypeOK
  OBVIOUS
<1>1. [e \in 1..MaxEpoch |-> "none"] \in Ledger
  BY DEF Ledger, AttemptState
<1>2. entry \in [Jobs -> Entry] /\ worker \in [Workers -> Worker]
  BY NoEntryType, FreeType DEF Init
<1>3. promise \in [Jobs -> Promise] /\ ledger \in [Jobs -> Ledger]
  BY <1>1 DEF Init, Promise
<1>4. leaseAge \in [Jobs -> 0..LeaseTtl + 1] /\ idle \in [Jobs -> 0..QueueTimeout]
  BY Bounds DEF Init
<1>5. QED
  BY <1>2, <1>3, <1>4, Typed

\* The same, after a step.
LEMMA TypedNext ==
  ASSUME entry' \in [Jobs -> Entry], leaseAge' \in [Jobs -> 0..LeaseTtl + 1],
         idle' \in [Jobs -> 0..QueueTimeout], promise' \in [Jobs -> Promise],
         ledger' \in [Jobs -> Ledger], worker' \in [Workers -> Worker]
  PROVE  TypeOK'
<1>1. Promise = {"none", "pending", "resolved", "failed", "cancelled",
                 "no_runner", "mismatch", "rate_limited", "lost"}
  BY DEF Promise, Outcome
<1>2. QED
  BY <1>1 DEF TypeOK, Ledger, AttemptState
-----------------------------------------------------------------------------
(* The inductive invariant.                                                *)

\* A worker is idle exactly while it has no token.
PcSound ==
    \A w \in Workers : /\ worker[w].pc = "idle" <=> ~HasToken(w)
                       /\ HasToken(w) => worker[w].job \in Jobs /\ worker[w].epoch >= 1

\* What the fields of an entry say of each other.  An entry that was never leased is
\* on the dispatch's own attempt; whoever a lease names could run the job.
EntrySound(x, j) ==
    /\ x.st = "absent" => x = NoEntry
    /\ (x.st = "present" /\ x.epoch = 0) => x.attempt = 1
    /\ x.leased => /\ x.epoch >= 1
                   /\ x.leasedBy \in Runners
                   /\ Serves(x.leasedBy, j)

\* The promise is open exactly while an uncancelled entry stands for it, and it is
\* a cancel that settled it if the entry is still there.
PromiseSound(x, p) ==
    /\ x.st = "absent" <=> p \in {"none", "rate_limited"}
    /\ (x.st = "present" /\ ~x.cancel) => p = "pending"
    /\ (x.st = "present" /\ x.cancel) => p = "cancelled"
    /\ (x.st = "gone" \/ x.cancel) => p # "pending"

\* A token names a job the hub has known, and a lease it has given.
TokensSound ==
    \A w \in Workers : HasToken(w) =>
       /\ entry[worker[w].job].st # "absent"
       /\ worker[w].epoch <= entry[worker[w].job].epoch

\* Past the restamp, the holder of the newest lease carries the attempt the entry
\* names: the one opened for its lease, or none if the open failed.
OpenedSound(w) ==
    LET j == worker[w].job IN
    (HasToken(w) /\ worker[w].pc # "opening" /\ worker[w].epoch = entry[j].epoch)
      => /\ entry[j].attempt = worker[w].opened
         /\ worker[w].opened \in {0, worker[w].epoch}

IInv == /\ TypeOK
        /\ \A j \in Jobs : EntrySound(entry[j], j) /\ PromiseSound(entry[j], promise[j])
        /\ PcSound /\ TokensSound /\ TokensDistinct
        /\ \A w \in Workers : OpenedSound(w)
        /\ ParkedBounded

-----------------------------------------------------------------------------
(* What lease() does to the entries: the sweeps, the rejections, the take.  *)

\* What requeueExpired() can make of an entry.
Swept(x, y) ==
    \/ y = x
    \/ x.st = "present" /\ x.leased /\ ~x.cancel /\ y = [x EXCEPT !.leased = FALSE]

\* A table the sweeps of one lease() can leave, and the entries S of it that a
\* runner's lease() rejects: they were waiting all along.
Sweeps(x) == x \in [Jobs -> Entry] /\ \A k \in Jobs : Swept(entry[k], x[k])
Rejects(x, S) == S \subseteq Jobs /\ \A k \in S : x[k] = entry[k] /\ Waiting(entry[k])
RejectedPromises(S) == [k \in Jobs |-> IF k \in S THEN Settled(promise[k], "mismatch") ELSE promise[k]]

\* lease() with a job to take, and without one.
Takes(w) ==
    /\ worker[w].pc = "idle"
    /\ \E x \in [Jobs -> Entry], S \in SUBSET Jobs : \E j \in Jobs \ S :
         /\ Sweeps(x) /\ Rejects(x, S)
         /\ Serves(RunnerOf[w], j) /\ Waiting(x[j]) /\ x[j].epoch < MaxEpoch
         /\ promise' = RejectedPromises(S)
         /\ Take(w, Rejected(x, S), j)
Polls ==
    /\ \E x \in [Jobs -> Entry], S \in SUBSET Jobs :
         /\ Sweeps(x) /\ Rejects(x, S)
         /\ promise' = RejectedPromises(S)
         /\ entry' = Rejected(x, S)
    /\ UNCHANGED <<leaseAge, idle, ledger, worker>>

\* One queue swept, or a runner's own queue and the pool.
Both(r) == [j \in Jobs |-> IF QueueOf[j] = Pool THEN Requeued(Pool)[j] ELSE Requeued(r)[j]]

LEMMA OneSwept ==
  ASSUME TypeOK, NEW q
  PROVE  Sweeps(Requeued(q))
<1>1. ASSUME NEW k \in Jobs
      PROVE  Requeued(q)[k] \in Entry /\ Swept(entry[k], Requeued(q)[k])
  <2>1. entry[k] \in Entry
    BY DEF TypeOK
  <2>2. [entry[k] EXCEPT !.leased = FALSE] \in Entry
    BY <2>1, EntryWrites
  <2>3. QED
    BY <2>1, <2>2 DEF Requeued, Swept
<1>2. Requeued(q) = [k \in Jobs |-> Requeued(q)[k]]
  BY DEF Requeued
<1>3. QED
  BY <1>1, <1>2 DEF Sweeps

LEMMA BothSwept ==
  ASSUME TypeOK, NEW r
  PROVE  Sweeps(Both(r))
<1>1. Sweeps(Requeued(Pool)) /\ Sweeps(Requeued(r))
  BY OneSwept
<1>2. QED
  BY <1>1 DEF Sweeps, Both

\* The rejected entries: a requeued one was held by a runner that could run it, and
\* only a runner's own queue rejects, so a lease that ran out is never rejected.
LEMMA UnfitWaits ==
  ASSUME \A k \in Jobs : EntrySound(entry[k], k), NEW r \in Runners,
         NEW x, Sweeps(x), NEW S, S \subseteq Leasable(x, r) \ Capable[r]
  PROVE  Rejects(x, S)
<1>1. ASSUME NEW k \in S PROVE k \in Jobs /\ x[k] = entry[k] /\ Waiting(entry[k])
  <2>1. k \in Jobs /\ QueueOf[k] = r /\ Waiting(x[k]) /\ k \notin Capable[r] /\ r # Pool
    BY <1>1, HubAssumption DEF Leasable
  <2>2. x[k] = entry[k]
    <3>1. SUFFICES ASSUME entry[k].leased PROVE FALSE
      BY <2>1 DEF Sweeps, Swept
    <3>2. Serves(entry[k].leasedBy, k) /\ entry[k].leasedBy \in Runners
      BY <2>1, <3>1 DEF EntrySound
    <3>3. QED
      BY <2>1, <3>2 DEF Serves
  <2>3. QED
    BY <2>1, <2>2
<1>2. QED
  BY <1>1 DEF Rejects

\* The take from the own queue, and from the pool.
LEMMA LeaseOwnTakes ==
  ASSUME TypeOK, \A k \in Jobs : EntrySound(entry[k], k), NEW w \in Workers, LeaseOwn(w)
  PROVE  Takes(w)
<1> DEFINE r == RunnerOf[w]
           x == Requeued(r)
<1>1. PICK S \in SUBSET (Leasable(x, r) \ Capable[r]), j \in Leasable(x, r) \cap Capable[r] :
        promise' = RejectedPromises(S) /\ Take(w, Rejected(x, S), j)
  BY DEF LeaseOwn, RejectedPromises
<1>2. r \in Runners /\ Sweeps(x)
  BY OneSwept, HubAssumption
<1>3. Rejects(x, S)
  BY <1>1, <1>2, UnfitWaits
<1>4. j \in Jobs \ S /\ Serves(r, j) /\ Waiting(x[j]) /\ x[j].epoch < MaxEpoch
  BY <1>1 DEF Leasable, Serves
<1>5. worker[w].pc = "idle"
  BY DEF LeaseOwn
<1>6. x \in [Jobs -> Entry] /\ S \in SUBSET Jobs
  BY <1>2, <1>3 DEF Sweeps, Rejects
<1> HIDE DEF x, r
<1>7. QED
  BY <1>1, <1>2, <1>3, <1>4, <1>5, <1>6 DEF Takes, r

LEMMA OwnUnfit ==
  ASSUME NEW r \in Runners
  PROVE  Leasable(Requeued(r), r) = Leasable(Both(r), r)
<1>1. r # Pool
  BY HubAssumption
<1>2. QED
  BY <1>1 DEF Leasable, Both

LEMMA LeasePoolTakes ==
  ASSUME TypeOK, \A k \in Jobs : EntrySound(entry[k], k), NEW w \in Workers, LeasePool(w)
  PROVE  Takes(w)
<1> DEFINE r == RunnerOf[w]
           x == Both(r)
           S == Leasable(x, r)
<1>1. r \in Runners /\ Sweeps(x)
  BY BothSwept, HubAssumption
<1>2. /\ S \cap Capable[r] = {}
      /\ promise' = RejectedPromises(S)
      /\ \E j \in Leasable(x, Pool) \cap Capable[r] : Take(w, Rejected(x, S), j)
  BY <1>1, OwnUnfit DEF LeasePool, Both, RejectedPromises
<1>3. PICK j \in Leasable(x, Pool) \cap Capable[r] : Take(w, Rejected(x, S), j)
  BY <1>2
<1>4. Rejects(x, S)
  BY <1>1, <1>2, UnfitWaits
<1>5. j \in Jobs \ S /\ Serves(r, j) /\ Waiting(x[j]) /\ x[j].epoch < MaxEpoch
  BY <1>2, <1>3 DEF Leasable, Serves
<1>6. worker[w].pc = "idle"
  BY DEF LeasePool
<1>7. x \in [Jobs -> Entry] /\ S \in SUBSET Jobs
  BY <1>1, <1>4 DEF Sweeps, Rejects
<1> HIDE DEF x, r, S
<1>8. QED
  BY <1>1, <1>2, <1>3, <1>4, <1>5, <1>6, <1>7 DEF Takes, r

\* A poll that finds nothing.
LEMMA LeaseNothingPolls ==
  ASSUME TypeOK, \A k \in Jobs : EntrySound(entry[k], k), NEW w \in Workers, LeaseNothing(w)
  PROVE  Polls
<1> DEFINE r == RunnerOf[w]
           x == Both(r)
           S == Leasable(x, r)
<1>1. r \in Runners /\ Sweeps(x)
  BY BothSwept, HubAssumption
<1>2. /\ S \cap Capable[r] = {}
      /\ promise' = RejectedPromises(S)
      /\ entry' = Rejected(x, S)
      /\ UNCHANGED <<leaseAge, idle, ledger, worker>>
  BY <1>1, OwnUnfit DEF LeaseNothing, Both, RejectedPromises
<1>3. Rejects(x, S)
  BY <1>1, <1>2, UnfitWaits
<1>4. x \in [Jobs -> Entry] /\ S \in SUBSET Jobs
  BY <1>1, <1>3 DEF Sweeps, Rejects
<1> HIDE DEF x, r, S
<1>5. QED
  BY <1>1, <1>2, <1>3, <1>4 DEF Polls

-----------------------------------------------------------------------------
(* Every step keeps the types.                                             *)

LEMMA RejectedType ==
  ASSUME NEW x \in [Jobs -> Entry], NEW S \in SUBSET Jobs
  PROVE  Rejected(x, S) \in [Jobs -> Entry]
<1>1. \A k \in Jobs : [x[k] EXCEPT !.st = "gone"] \in Entry
  BY EntryWrites
<1>2. QED
  BY <1>1 DEF Rejected

LEMMA RejectedPromisesType ==
  ASSUME TypeOK, NEW S \in SUBSET Jobs
  PROVE  RejectedPromises(S) \in [Jobs -> Promise]
<1>1. promise \in [Jobs -> Promise]
  BY Typed
<1>2. \A k \in Jobs : promise[k] \in Promise /\ Settled(promise[k], "mismatch") \in Promise
  BY <1>1, SettledType DEF Outcome
<1>3. QED
  BY <1>2 DEF RejectedPromises

\* The worker that takes a job.
LEMMA TakerType ==
  ASSUME NEW j \in Jobs, NEW e \in Epochs, NEW a \in Epochs, NEW pc \in {"running", "opening"}
  PROVE  /\ [Free EXCEPT !.pc = pc, !.job = j, !.epoch = e, !.opened = a] \in Worker
         /\ [Free EXCEPT !.pc = pc, !.job = j, !.epoch = e, !.prior = a] \in Worker
  BY Bounds DEF Free, Worker, InMint, InRun

\* A take's writes, part by part.
Taken(w, y, j) ==
    /\ entry' = [y EXCEPT ![j] = Granted(y[j], RunnerOf[w])]
    /\ leaseAge' = [leaseAge EXCEPT ![j] = 0]
    /\ \E t : idle' = Rearmed([idle EXCEPT ![j] = 0], t, RunnerOf[w])
    /\ ledger' = ledger \/ ledger' = [ledger EXCEPT ![j][1] = "executing"]
    /\ \/ worker' = worker
       \/ y[j].epoch = 0 /\ worker' = [worker EXCEPT ![w] =
            [Free EXCEPT !.pc = "running", !.job = j, !.epoch = 1, !.opened = y[j].attempt]]
       \/ \E a \in {0, y[j].attempt} : worker' = [worker EXCEPT ![w] =
            [Free EXCEPT !.pc = "opening", !.job = j, !.epoch = y[j].epoch + 1, !.prior = a]]

LEMMA TakeParts ==
  ASSUME NEW w \in Workers, NEW y \in [Jobs -> Entry], NEW j \in Jobs, Take(w, y, j)
  PROVE  Taken(w, y, j)
<1> DEFINE g == Leased(y, j, RunnerOf[w])
<1>1. g = Granted(y[j], RunnerOf[w])
  BY DEF Leased, Granted
<1>2. [y EXCEPT ![j] = g][j].epoch = y[j].epoch + 1
  BY <1>1 DEF Granted, Entry
<1>3. entry' = [y EXCEPT ![j] = g] /\ leaseAge' = [leaseAge EXCEPT ![j] = 0]
      /\ idle' = Rearmed([idle EXCEPT ![j] = 0], [y EXCEPT ![j] = g], RunnerOf[w])
  BY DEF Take
<1>4. ledger' = ledger \/ ledger' = [ledger EXCEPT ![j][1] = "executing"]
  BY DEF Take
<1>5. \/ worker' = worker
      \/ y[j].epoch = 0 /\ worker' = [worker EXCEPT ![w] =
           [Free EXCEPT !.pc = "running", !.job = j, !.epoch = 1, !.opened = y[j].attempt]]
      \/ \E a \in {0, y[j].attempt} : worker' = [worker EXCEPT ![w] =
           [Free EXCEPT !.pc = "opening", !.job = j, !.epoch = y[j].epoch + 1, !.prior = a]]
  BY <1>2 DEF Take
<1> HIDE DEF g
<1>6. QED
  BY <1>1, <1>3, <1>4, <1>5 DEF Taken

LEMMA TakesTyped ==
  ASSUME TypeOK, NEW w \in Workers, Takes(w)
  PROVE  TypeOK'
<1>1. PICK x \in [Jobs -> Entry], S \in SUBSET Jobs : \E i \in Jobs \ S :
        /\ x[i].epoch < MaxEpoch
        /\ promise' = RejectedPromises(S)
        /\ Take(w, Rejected(x, S), i)
  BY DEF Takes
<1>2. PICK j \in Jobs \ S : /\ x[j].epoch < MaxEpoch
                            /\ promise' = RejectedPromises(S)
                            /\ Take(w, Rejected(x, S), j)
  BY <1>1
<1> DEFINE y == Rejected(x, S)
<1>3. y \in [Jobs -> Entry] /\ y[j] = x[j] /\ y[j] \in Entry /\ RunnerOf[w] \in Runners
  BY RejectedType, HubAssumption DEF Rejected
<1> HIDE DEF y
<1>4. Taken(w, y, j)
  BY <1>2, <1>3, TakeParts DEF y
<1>5. entry' \in [Jobs -> Entry]
  BY <1>2, <1>3, <1>4, GrantedType DEF Taken
<1>6. leaseAge' \in [Jobs -> 0..LeaseTtl + 1] /\ idle' \in [Jobs -> 0..QueueTimeout]
  <2>1. [leaseAge EXCEPT ![j] = 0] \in [Jobs -> 0..LeaseTtl + 1]
        /\ [idle EXCEPT ![j] = 0] \in [Jobs -> 0..QueueTimeout]
    BY Bounds DEF TypeOK
  <2>2. PICK t : idle' = Rearmed([idle EXCEPT ![j] = 0], t, RunnerOf[w])
    BY <1>4 DEF Taken
  <2>3. idle' \in [Jobs -> 0..QueueTimeout]
    BY <2>1, <2>2, RearmedType
  <2>4. QED
    BY <1>4, <2>1, <2>3 DEF Taken
<1>7. ledger' \in [Jobs -> Ledger]
  <2>1. ledger \in [Jobs -> Ledger] /\ ledger[j] \in Ledger
    BY <1>2, Typed
  <2>2. [ledger[j] EXCEPT ![1] = "executing"] \in Ledger
    BY <2>1 DEF Ledger, AttemptState
  <2>3. [ledger EXCEPT ![j][1] = "executing"] \in [Jobs -> Ledger]
    BY <2>1, <2>2
  <2>4. QED
    BY <1>4, <2>1, <2>3 DEF Taken
<1>8. worker' \in [Workers -> Worker]
  <2>1. y[j].attempt \in Epochs /\ y[j].epoch + 1 \in Epochs
    BY <1>2, <1>3, NextEpoch DEF Entry
  <2>2. worker \in [Workers -> Worker]
    BY DEF TypeOK
  <2>3. [Free EXCEPT !.pc = "running", !.job = j, !.epoch = 1, !.opened = y[j].attempt] \in Worker
    BY <2>1, TakerType, Bounds
  <2>4. \A a \in {0, y[j].attempt} :
          [Free EXCEPT !.pc = "opening", !.job = j, !.epoch = y[j].epoch + 1, !.prior = a] \in Worker
    BY <2>1, TakerType, Bounds
  <2>5. QED
    BY <1>4, <2>2, <2>3, <2>4 DEF Taken
<1>9. promise' \in [Jobs -> Promise]
  BY <1>2, RejectedPromisesType
<1>10. QED
  BY <1>5, <1>6, <1>7, <1>8, <1>9, TypedNext

LEMMA PollsTyped ==
  ASSUME TypeOK, Polls
  PROVE  TypeOK'
<1>1. PICK x \in [Jobs -> Entry], S \in SUBSET Jobs :
        promise' = RejectedPromises(S) /\ entry' = Rejected(x, S)
  BY DEF Polls
<1>2. entry' \in [Jobs -> Entry] /\ promise' \in [Jobs -> Promise]
  BY <1>1, RejectedType, RejectedPromisesType
<1>3. UNCHANGED <<leaseAge, idle, ledger, worker>>
  BY DEF Polls
<1>4. QED
  BY <1>2, <1>3, Typed, TypedNext

LEMMA EnqueueTyped ==
  ASSUME TypeOK, NEW j \in Jobs, Enqueue(j)
  PROVE  TypeOK'
<1>1. promise \in [Jobs -> Promise] /\ ledger \in [Jobs -> Ledger] /\ ledger[j] \in Ledger
  BY Typed
<1>2. promise' \in [Jobs -> Promise]
  BY <1>1 DEF Enqueue, Promise, Outcome
<1>3. entry' \in [Jobs -> Entry]
  BY ParkedType DEF Enqueue, TypeOK
<1>4. ledger' \in [Jobs -> Ledger]
  <2>1. [ledger[j] EXCEPT ![1] = "created"] \in Ledger
    BY <1>1 DEF Ledger, AttemptState
  <2>2. [ledger EXCEPT ![j][1] = "created"] \in [Jobs -> Ledger]
    BY <1>1, <2>1
  <2>3. QED
    BY <1>1, <2>2 DEF Enqueue
<1>5. idle' \in [Jobs -> 0..QueueTimeout]
  BY Bounds DEF Enqueue, TypeOK
<1>6. leaseAge' \in [Jobs -> 0..LeaseTtl + 1] /\ worker' \in [Workers -> Worker]
  BY DEF Enqueue, TypeOK
<1>7. QED
  BY <1>2, <1>3, <1>4, <1>5, <1>6, TypedNext

LEMMA IdleTimeoutTyped ==
  ASSUME TypeOK, NEW j \in Jobs, IdleTimeout(j)
  PROVE  TypeOK'
<1>1. promise \in [Jobs -> Promise] /\ entry \in [Jobs -> Entry]
  BY Typed
<1>2. Settled(promise[j], "no_runner") \in Promise
  BY <1>1, SettledType DEF Outcome
<1>3. [entry[j] EXCEPT !.st = "gone"] \in Entry
  BY <1>1, EntryWrites
<1>4. promise' \in [Jobs -> Promise] /\ entry' \in [Jobs -> Entry]
  BY <1>1, <1>2, <1>3 DEF IdleTimeout
<1>5. UNCHANGED <<leaseAge, idle, ledger, worker>>
  BY DEF IdleTimeout
<1>6. QED
  BY <1>4, <1>5, Typed, TypedNext

LEMMA RequestCancelTyped ==
  ASSUME TypeOK, RequestCancel
  PROVE  TypeOK'
<1>1. \A j \in Jobs : entry[j] \in Entry /\ promise[j] \in Promise
  BY Typed
<1>2. \A j \in Jobs : /\ [entry[j] EXCEPT !.cancel = TRUE] \in Entry
                      /\ Settled(promise[j], "cancelled") \in Promise
  BY <1>1, SettledType, EntryWrites DEF Outcome
<1>3. promise' \in [Jobs -> Promise] /\ entry' \in [Jobs -> Entry]
  BY <1>1, <1>2 DEF RequestCancel
<1>4. UNCHANGED <<leaseAge, idle, ledger, worker>>
  BY DEF RequestCancel
<1>5. QED
  BY <1>3, <1>4, Typed, TypedNext

LEMMA HubCrashTyped ==
  ASSUME TypeOK, HubCrash
  PROVE  TypeOK'
<1>1. \A j \in Jobs : entry[j] \in Entry /\ promise[j] \in Promise
  BY Typed
<1>2. \A j \in Jobs : /\ [entry[j] EXCEPT !.st = "gone"] \in Entry
                      /\ Settled(promise[j], "lost") \in Promise
  BY <1>1, SettledType, EntryWrites DEF Outcome
<1>3. promise' \in [Jobs -> Promise] /\ entry' \in [Jobs -> Entry]
  BY <1>1, <1>2 DEF HubCrash
<1>4. worker' \in [Workers -> Worker]
  BY FreeType DEF HubCrash, TypeOK
<1>5. UNCHANGED <<leaseAge, idle, ledger>>
  BY DEF HubCrash
<1>6. QED
  BY <1>3, <1>4, <1>5, Typed, TypedNext

\* The mint's three steps.
LEMMA MintOpenedTyped ==
  ASSUME TypeOK, NEW w \in Workers, worker[w].job \in Jobs, MintOpened(w)
  PROVE  TypeOK'
<1> DEFINE j == worker[w].job
<1>1. /\ entry \in [Jobs -> Entry] /\ ledger \in [Jobs -> Ledger] /\ worker \in [Workers -> Worker]
      /\ worker[w].epoch \in Epochs /\ worker[w].prior \in Epochs
      /\ worker[w] \in Worker /\ entry[j] \in Entry /\ ledger[j] \in Ledger
  <2>1. entry \in [Jobs -> Entry] /\ ledger \in [Jobs -> Ledger] /\ worker \in [Workers -> Worker]
    BY Typed
  <2>2. worker[w] \in Worker /\ entry[j] \in Entry /\ ledger[j] \in Ledger
    BY <2>1
  <2>3. \A x \in Worker : x.epoch \in Epochs /\ x.prior \in Epochs
    BY DEF Worker
  <2>4. QED
    BY <2>1, <2>2, <2>3
<1>2. PICK e \in {0, worker[w].epoch} : \E led \in Opened(ledger[j], worker[w].prior, e) :
         \/ /\ entry' = [entry EXCEPT ![j].attempt = e]
            /\ ledger' = [ledger EXCEPT ![j] = led]
            /\ worker' = [worker EXCEPT ![w].pc = "stamping", ![w].opened = e]
         \/ /\ \E l \in {led, Supersede(led, e)} : ledger' = [ledger EXCEPT ![j] = l]
            /\ worker' = [worker EXCEPT ![w] = Free]
            /\ UNCHANGED entry
  BY DEF MintOpened
<1>3. e \in Epochs
  BY <1>1, Bounds
<1>4. \A led \in Opened(ledger[j], worker[w].prior, e) : led \in Ledger /\ Supersede(led, e) \in Ledger
  BY <1>1, <1>3, OpenedType, LedgerWrites
<1>5. ledger' \in [Jobs -> Ledger]
  BY <1>1, <1>2, <1>4
<1>6. entry' \in [Jobs -> Entry]
  <2>1. [entry[j] EXCEPT !.attempt = e] \in Entry
    BY <1>1, <1>3, EntryWrites
  <2>2. entry' = entry \/ entry' = [entry EXCEPT ![j].attempt = e]
    BY <1>2
  <2>3. QED
    BY <1>1, <2>1, <2>2
<1>7. worker' \in [Workers -> Worker]
  <2>1. [worker[w] EXCEPT !.pc = "stamping", !.opened = e] \in Worker
    BY <1>1, <1>3, WorkerWrites DEF InMint
  <2>2. QED
    BY <1>1, <1>2, <2>1, FreeType
<1>8. UNCHANGED <<leaseAge, idle, promise>>
  BY DEF MintOpened
<1>9. QED
  BY <1>5, <1>6, <1>7, <1>8, Typed, TypedNext

LEMMA DeliverTyped ==
  ASSUME TypeOK, NEW w \in Workers, NEW j \in Jobs, Deliver(w, j)
  PROVE  entry' \in [Jobs -> Entry] /\ worker' \in [Workers -> Worker]
<1>1. /\ entry \in [Jobs -> Entry] /\ worker \in [Workers -> Worker]
      /\ worker[w] \in Worker /\ worker[w].opened \in Epochs
      /\ entry[j] \in Entry /\ entry[j].last \in Epochs
  BY DEF TypeOK, Worker, Entry
<1>2. [worker[w] EXCEPT !.pc = "running", !.prior = 0] \in Worker
  BY <1>1, WorkerWrites, Bounds DEF InRun
<1>3. worker' \in [Workers -> Worker]
  BY <1>1, <1>2, FreeType DEF Deliver
<1>4. PICK e \in Epochs : entry' = [entry EXCEPT ![j].last = e]
  BY <1>1 DEF Deliver
<1>5. entry' \in [Jobs -> Entry]
  BY <1>1, <1>4, EntryWrites
<1>6. QED
  BY <1>3, <1>5

LEMMA MintStampedTyped ==
  ASSUME TypeOK, NEW w \in Workers, worker[w].job \in Jobs, MintStamped(w)
  PROVE  TypeOK'
<1> DEFINE j == worker[w].job
           own == worker[w].opened
           replaced == entry[j].last
<1>1. /\ ledger \in [Jobs -> Ledger] /\ ledger[j] \in Ledger
      /\ worker \in [Workers -> Worker] /\ worker[w] \in Worker
      /\ own \in Epochs /\ replaced \in Epochs
  <2>1. entry \in [Jobs -> Entry] /\ ledger \in [Jobs -> Ledger] /\ worker \in [Workers -> Worker]
    BY Typed
  <2>2. worker[w] \in Worker /\ entry[j] \in Entry /\ ledger[j] \in Ledger
    BY <2>1
  <2>3. QED
    BY <2>1, <2>2 DEF Worker, Entry
<1>2. PICK led \in {ledger[j], MarkExecuting(ledger[j], own)} :
         \/ /\ \E l \in {led, Supersede(led, replaced)} : ledger' = [ledger EXCEPT ![j] = l]
            /\ worker' = [worker EXCEPT ![w].pc = "ending"]
            /\ UNCHANGED entry
         \/ /\ ledger' = [ledger EXCEPT ![j] = led]
            /\ Deliver(w, j)
  BY DEF MintStamped
<1>3. led \in Ledger /\ Supersede(led, replaced) \in Ledger
  BY <1>1, <1>2, LedgerWrites
<1>4. ledger' \in [Jobs -> Ledger]
  BY <1>1, <1>2, <1>3
<1>5. [worker[w] EXCEPT !.pc = "ending"] \in Worker
  BY <1>1, WorkerWrites, Bounds DEF InMint
<1>6. entry' \in [Jobs -> Entry] /\ worker' \in [Workers -> Worker]
  <2>1. CASE Deliver(w, j)
    BY <2>1, DeliverTyped
  <2>2. CASE UNCHANGED entry /\ worker' = [worker EXCEPT ![w].pc = "ending"]
    BY <1>1, <1>5, <2>2, Typed
  <2>3. QED
    BY <1>2, <2>1, <2>2
<1>7. UNCHANGED <<leaseAge, idle, promise>>
  BY DEF MintStamped
<1>8. QED
  BY <1>4, <1>6, <1>7, Typed, TypedNext

LEMMA MintEndedTyped ==
  ASSUME TypeOK, NEW w \in Workers, worker[w].job \in Jobs, MintEnded(w)
  PROVE  TypeOK'
<1>1. entry' \in [Jobs -> Entry] /\ worker' \in [Workers -> Worker]
  BY DeliverTyped DEF MintEnded
<1>2. UNCHANGED <<leaseAge, idle, promise, ledger>>
  BY DEF MintEnded
<1>3. QED
  BY <1>1, <1>2, Typed, TypedNext

\* Renewals and reports.
LEMMA HeartbeatTyped ==
  ASSUME TypeOK, NEW w \in Workers, Heartbeat(w)
  PROVE  TypeOK'
<1> DEFINE clock == Rearmed(idle, entry, RunnerOf[w])
<1>1. clock \in [Jobs -> 0..QueueTimeout]
  BY RearmedType DEF TypeOK
<1>2. leaseAge' \in [Jobs -> 0..LeaseTtl + 1]
  BY Bounds DEF Heartbeat, TypeOK
<1>3. idle' \in [Jobs -> 0..QueueTimeout]
  <2>1. idle' = clock \/ idle' = [clock EXCEPT ![worker[w].job] = 0]
    BY DEF Heartbeat
  <2> HIDE DEF clock
  <2>2. QED
    BY <1>1, <2>1, Bounds
<1>4. worker' \in [Workers -> Worker]
  <2>1. [worker[w] EXCEPT !.pc = "aborted"] \in Worker
    BY WorkerWrites, Bounds DEF InRun, TypeOK
  <2>2. QED
    BY <2>1 DEF Heartbeat, TypeOK
<1>5. UNCHANGED <<entry, promise, ledger>>
  BY DEF Heartbeat
<1>6. QED
  BY <1>2, <1>3, <1>4, <1>5, Typed, TypedNext

LEMMA ReportTyped ==
  ASSUME TypeOK, NEW w \in Workers, worker[w].job \in Jobs, NEW outcome \in Outcome,
         NEW replied \in Worker, NEW lost \in Worker, Report(w, outcome, replied, lost)
  PROVE  TypeOK'
<1> DEFINE j == worker[w].job
<1>1. promise \in [Jobs -> Promise] /\ entry \in [Jobs -> Entry] /\ worker \in [Workers -> Worker]
  BY Typed
<1>2. Settled(promise[j], outcome) \in Promise /\ [entry[j] EXCEPT !.st = "gone"] \in Entry
  BY <1>1, SettledType, EntryWrites
<1>3. promise' \in [Jobs -> Promise] /\ entry' \in [Jobs -> Entry]
  BY <1>1, <1>2 DEF Report
<1>4. worker' \in [Workers -> Worker]
  BY <1>1 DEF Report
<1>5. UNCHANGED <<leaseAge, idle, ledger>>
  BY DEF Report
<1>6. QED
  BY <1>3, <1>4, <1>5, Typed, TypedNext

LEMMA ReportsTyped ==
  ASSUME TypeOK, NEW w \in Workers, worker[w].job \in Jobs, Submit(w) \/ Resubmit(w) \/ FailJob(w)
  PROVE  TypeOK'
<1>1. /\ worker[w] \in Worker
      /\ [worker[w] EXCEPT !.pc = "resubmit"] \in Worker
      /\ [worker[w] EXCEPT !.pc = "failing"] \in Worker
  BY WorkerWrites, Bounds DEF TypeOK, Reporting
<1>2. QED
  BY <1>1, ReportTyped, FreeType DEF Submit, Resubmit, FailJob, Outcome

LEMMA TickTyped ==
  ASSUME TypeOK, Tick
  PROVE  TypeOK'
<1>1. leaseAge' \in [Jobs -> 0..LeaseTtl + 1]
  <2>1. \A a \in 0..LeaseTtl + 1 : a <= LeaseTtl => a + 1 \in 0..LeaseTtl + 1
    BY Bounds
  <2>2. QED
    BY <2>1 DEF Tick, TypeOK
<1>2. idle' \in [Jobs -> 0..QueueTimeout]
  <2>1. \A a \in 0..QueueTimeout : a < QueueTimeout => a + 1 \in 0..QueueTimeout
    BY Bounds
  <2>2. QED
    BY <2>1 DEF Tick, TypeOK
<1>3. UNCHANGED <<entry, promise, ledger, worker>>
  BY DEF Tick
<1>4. QED
  BY <1>1, <1>2, <1>3, Typed, TypedNext

\* A step of any kind keeps TypeOK.
LEMMA NextTyped ==
  ASSUME IInv, [Next]_vars
  PROVE  TypeOK'
<1> TypeOK /\ \A k \in Jobs : EntrySound(entry[k], k)
  BY DEF IInv
<1>1. ASSUME NEW w \in Workers, worker[w].pc # "idle" PROVE worker[w].job \in Jobs
  BY <1>1 DEF IInv, PcSound
<1>2. ASSUME NEW j \in Jobs, DispatcherStep(j) PROVE TypeOK'
  BY <1>2, EnqueueTyped, IdleTimeoutTyped DEF DispatcherStep
<1>3. ASSUME NEW w \in Workers, LeaseOwn(w) \/ LeasePool(w) PROVE TypeOK'
  BY <1>3, LeaseOwnTakes, LeasePoolTakes, TakesTyped
<1>4. ASSUME NEW w \in Workers, LeaseNothing(w) PROVE TypeOK'
  BY <1>4, LeaseNothingPolls, PollsTyped
<1>5. ASSUME NEW w \in Workers, MintOpened(w) \/ MintStamped(w) \/ MintEnded(w) PROVE TypeOK'
  <2>1. worker[w].job \in Jobs
    BY <1>1, <1>5 DEF MintOpened, MintStamped, MintEnded
  <2>2. QED
    BY <1>5, <2>1, MintOpenedTyped, MintStampedTyped, MintEndedTyped
<1>6. ASSUME NEW w \in Workers, Submit(w) \/ Resubmit(w) \/ FailJob(w) PROVE TypeOK'
  <2>1. worker[w].job \in Jobs
    BY <1>1, <1>6 DEF Submit, Resubmit, FailJob, InRun
  <2>2. QED
    BY <1>6, <2>1, ReportsTyped
<1>7. ASSUME NEW w \in Workers, WorkerCrash(w) PROVE TypeOK'
  <2>1. worker' \in [Workers -> Worker] /\ UNCHANGED <<entry, leaseAge, idle, promise, ledger>>
    BY <1>7, FreeType DEF WorkerCrash, TypeOK
  <2>2. QED
    BY <2>1, Typed, TypedNext
<1>8. ASSUME NEW w \in Workers, Heartbeat(w) PROVE TypeOK'
  BY <1>8, HeartbeatTyped
<1>9. ASSUME UNCHANGED vars PROVE TypeOK'
  BY <1>9, Typed, TypedNext DEF vars
<1>10. QED
  BY <1>2, <1>3, <1>4, <1>5, <1>6, <1>7, <1>8, <1>9, RequestCancelTyped, HubCrashTyped, TickTyped
  DEF Next, WorkerStep

-----------------------------------------------------------------------------
(* What one step can do to one job.                                        *)

Unsettled(j) == promise'[j] = promise[j]

\* enqueue() parks it, leaving the other entries alone, or refuses it.
Parks(j) ==
    /\ promise[j] = "none" /\ promise'[j] = "pending"
    /\ ~QueueFull(QueueOf[j])
    /\ entry'[j] = [NoEntry EXCEPT !.st = "present", !.attempt = 1]
    /\ \A i \in Jobs \ {j} : entry'[i] = entry[i]
Refuses(j) == promise[j] = "none" /\ promise'[j] = "rate_limited" /\ entry'[j] = entry[j]

\* Nothing happens to it, or its lease ran out and it waits again.
Rests(j) == Unsettled(j) /\ Swept(entry[j], entry'[j])

\* A runner that could run it takes it.
Grants(j) ==
    /\ Unsettled(j)
    /\ \E x \in Entry, r \in Runners :
         /\ Swept(entry[j], x) /\ Waiting(x) /\ x.epoch < MaxEpoch
         /\ Serves(r, j)
         /\ entry'[j] = Granted(x, r)

Cancels(j) ==
    /\ entry[j].st = "present" /\ ~entry[j].cancel
    /\ entry'[j] = [entry[j] EXCEPT !.cancel = TRUE]
    /\ promise'[j] = Settled(promise[j], "cancelled")

\* It is removed and its promise settled; with a result only under a live lease.
Ends(j) ==
    /\ entry[j].st = "present"
    /\ entry'[j] = [entry[j] EXCEPT !.st = "gone"]
    /\ \/ \E outcome \in {"no_runner", "lost", "mismatch", "failed"} :
             promise'[j] = Settled(promise[j], outcome)
       \/ entry[j].leased /\ ~entry[j].cancel /\ promise'[j] = Settled(promise[j], "resolved")

\* The mint of its current lease restamps it; a mint that ends is remembered.
Restamps(j) ==
    /\ Unsettled(j)
    /\ \E w \in Workers : \E e \in {0, worker[w].epoch} :
         /\ worker[w].pc = "opening" /\ worker[w].job = j
         /\ HoldsWritableLease(entry[j], w)
         /\ entry'[j] = [entry[j] EXCEPT !.attempt = e]
         /\ worker' = [worker EXCEPT ![w].pc = "stamping", ![w].opened = e]
Remembers(j) ==
    /\ Unsettled(j)
    /\ \E e \in Epochs : entry'[j] = [entry[j] EXCEPT !.last = e]
    /\ entry[j].st # "absent"

JobMove(j) == \/ Parks(j) \/ Refuses(j) \/ Rests(j) \/ Grants(j) \/ Cancels(j) \/ Ends(j)
              \/ Restamps(j) \/ Remembers(j)

\* A rejection by lease(), or none.
LEMMA RejectedMoves ==
  ASSUME NEW x, NEW S, Sweeps(x), Rejects(x, S), NEW k \in Jobs,
         promise' = RejectedPromises(S), entry'[k] = Rejected(x, S)[k]
  PROVE  Rests(k) \/ Ends(k)
<1>1. CASE k \in S
  <2>1. x[k] = entry[k] /\ entry[k].st = "present"
    BY <1>1 DEF Rejects, Waiting
  <2>2. entry'[k] = [entry[k] EXCEPT !.st = "gone"] /\ promise'[k] = Settled(promise[k], "mismatch")
    BY <1>1, <2>1 DEF Rejected, RejectedPromises
  <2>3. QED
    BY <2>1, <2>2 DEF Ends
<1>2. CASE k \notin S
  <2>1. entry'[k] = x[k] /\ promise'[k] = promise[k]
    BY <1>2 DEF Rejected, RejectedPromises
  <2>2. QED
    BY <2>1 DEF Rests, Unsettled, Sweeps
<1>3. QED
  BY <1>1, <1>2

\* A take, whole: the job it grants and what happens to the others.
LEMMA TakesMoves ==
  ASSUME TypeOK, NEW w \in Workers, Takes(w), NEW k \in Jobs
  PROVE  Rests(k) \/ Ends(k) \/ Grants(k)
<1>1. PICK x \in [Jobs -> Entry], S \in SUBSET Jobs : \E i \in Jobs \ S :
        /\ Sweeps(x) /\ Rejects(x, S)
        /\ Serves(RunnerOf[w], i) /\ Waiting(x[i]) /\ x[i].epoch < MaxEpoch
        /\ promise' = RejectedPromises(S)
        /\ Take(w, Rejected(x, S), i)
  BY DEF Takes
<1>2. PICK j \in Jobs \ S :
        /\ Serves(RunnerOf[w], j) /\ Waiting(x[j]) /\ x[j].epoch < MaxEpoch
        /\ Take(w, Rejected(x, S), j)
  BY <1>1
<1> DEFINE y == Rejected(x, S)
<1>3. y \in [Jobs -> Entry] /\ y[j] = x[j] /\ RunnerOf[w] \in Runners
  BY RejectedType, HubAssumption DEF Rejected
<1>4. entry' = [y EXCEPT ![j] = Granted(y[j], RunnerOf[w])]
  <2>1. Take(w, y, j) /\ j \in Jobs
    BY <1>2
  <2> HIDE DEF y
  <2>2. Taken(w, y, j)
    BY <1>3, <2>1, TakeParts
  <2>3. QED
    BY <2>2 DEF Taken
<1>5. CASE k = j
  <2>1. entry'[k] = Granted(x[k], RunnerOf[w])
    BY <1>3, <1>4, <1>5
  <2>2. promise'[k] = promise[k] /\ Swept(entry[k], x[k]) /\ x[k] \in Entry
    BY <1>1, <1>2, <1>5 DEF RejectedPromises, Sweeps
  <2>3. QED
    BY <1>2, <1>3, <1>5, <2>1, <2>2 DEF Grants, Unsettled
<1>6. CASE k # j
  <2>1. entry'[k] = Rejected(x, S)[k]
    BY <1>3, <1>4, <1>6
  <2>2. QED
    BY <1>1, <2>1, RejectedMoves
<1>7. QED
  BY <1>5, <1>6

LEMMA PollsMoves ==
  ASSUME Polls, NEW k \in Jobs
  PROVE  Rests(k) \/ Ends(k)
  BY RejectedMoves DEF Polls

LEMMA ReportMoves ==
  ASSUME TypeOK, NEW w, NEW outcome \in {"resolved", "failed"}, NEW replied, NEW lost,
         Report(w, outcome, replied, lost), NEW k \in Jobs
  PROVE  Rests(k) \/ Ends(k)
<1>1. CASE worker[w].job = k /\ HoldsWritableLease(entry[k], w)
  <2>1. entry[k].st = "present" /\ entry[k].leased /\ ~entry[k].cancel
    BY <1>1 DEF HoldsWritableLease, HoldsCurrentLease
  <2>2. entry'[k] = [entry[k] EXCEPT !.st = "gone"] /\ promise'[k] = Settled(promise[k], outcome)
    BY <1>1 DEF Report, TypeOK
  <2>3. QED
    BY <2>1, <2>2 DEF Ends
<1>2. CASE ~(worker[w].job = k /\ HoldsWritableLease(entry[k], w))
  <2>1. entry'[k] = entry[k] /\ promise'[k] = promise[k]
    BY <1>2 DEF Report, TypeOK
  <2>2. QED
    BY <2>1 DEF Rests, Unsettled, Swept
<1>3. QED
  BY <1>1, <1>2

LEMMA DeliverMoves ==
  ASSUME TypeOK, NEW w \in Workers, worker[w].job \in Jobs, Deliver(w, worker[w].job),
         entry[worker[w].job].st # "absent", promise' = promise, NEW k \in Jobs
  PROVE  Rests(k) \/ Remembers(k)
<1>1. entry[k] \in Entry /\ worker[w] \in Worker
  BY DEF TypeOK
<1>2. CASE worker[w].job = k
  <2>1. worker[w].opened \in Epochs /\ entry[k].last \in Epochs
    BY <1>1 DEF Worker, Entry
  <2>2. \E e \in Epochs : entry'[k] = [entry[k] EXCEPT !.last = e]
    BY <1>2, <2>1 DEF Deliver, TypeOK
  <2>3. QED
    BY <1>2, <2>2 DEF Remembers, Unsettled
<1>3. CASE worker[w].job # k
  <2>1. entry'[k] = entry[k]
    BY <1>3 DEF Deliver, TypeOK
  <2>2. QED
    BY <2>1 DEF Rests, Unsettled, Swept
<1>4. QED
  BY <1>2, <1>3

LEMMA MintOpenedMoves ==
  ASSUME TypeOK, NEW w \in Workers, MintOpened(w), NEW k \in Jobs
  PROVE  Rests(k) \/ Restamps(k)
<1>1. promise' = promise /\ worker[w].pc = "opening"
  BY DEF MintOpened
<1>2. CASE worker[w].job = k /\ HoldsWritableLease(entry[k], w)
  <2>1. PICK e \in {0, worker[w].epoch} :
          /\ entry' = [entry EXCEPT ![k].attempt = e]
          /\ worker' = [worker EXCEPT ![w].pc = "stamping", ![w].opened = e]
    BY <1>2 DEF MintOpened
  <2>2. entry'[k] = [entry[k] EXCEPT !.attempt = e]
    BY <2>1 DEF TypeOK
  <2>3. QED
    BY <1>1, <1>2, <2>1, <2>2 DEF Restamps, Unsettled
<1>3. CASE ~(worker[w].job = k /\ HoldsWritableLease(entry[k], w))
  <2>1. entry'[k] = entry[k]
    BY <1>3 DEF MintOpened, TypeOK
  <2>2. QED
    BY <1>1, <2>1 DEF Rests, Unsettled, Swept
<1>4. QED
  BY <1>2, <1>3

LEMMA StepMoves ==
  ASSUME IInv, [Next]_vars, NEW j \in Jobs
  PROVE  JobMove(j)
<1> /\ TypeOK /\ PcSound /\ TokensSound
    /\ \A k \in Jobs : EntrySound(entry[k], k) /\ PromiseSound(entry[k], promise[k])
  BY DEF IInv
<1>1. ASSUME NEW k \in Jobs, Enqueue(k) PROVE JobMove(j)
  <2>1. CASE k # j
    BY <1>1, <2>1 DEF Enqueue, JobMove, Rests, Unsettled, Swept, TypeOK
  <2>2. CASE k = j /\ QueueFull(QueueOf[j])
    BY <1>1, <2>2 DEF Enqueue, JobMove, Refuses, TypeOK
  <2>3. CASE k = j /\ ~QueueFull(QueueOf[j])
    BY <1>1, <2>3 DEF Enqueue, JobMove, Parks, TypeOK
  <2>4. QED
    BY <2>1, <2>2, <2>3
<1>2. ASSUME NEW k \in Jobs, IdleTimeout(k) PROVE JobMove(j)
  <2>1. CASE k # j
    BY <1>2, <2>1 DEF IdleTimeout, JobMove, Rests, Unsettled, Swept, TypeOK
  <2>2. CASE k = j
    BY <1>2, <2>2 DEF IdleTimeout, JobMove, Ends, TypeOK
  <2>3. QED
    BY <2>1, <2>2
<1>3. ASSUME RequestCancel PROVE JobMove(j)
  BY <1>3 DEF RequestCancel, JobMove, Cancels, Rests, Unsettled, Swept
<1>4. ASSUME HubCrash PROVE JobMove(j)
  <2>1. promise'[j] = Settled(promise[j], "lost")
    BY <1>4 DEF HubCrash
  <2>2. CASE entry[j].st = "present"
    BY <1>4, <2>1, <2>2 DEF HubCrash, JobMove, Ends
  <2>3. CASE entry[j].st # "present"
    <3>1. entry'[j] = entry[j]
      BY <1>4, <2>3 DEF HubCrash
    <3>2. promise[j] # "pending"
      BY <2>3 DEF PromiseSound, TypeOK, Entry
    <3>3. QED
      BY <2>1, <3>1, <3>2 DEF JobMove, Rests, Unsettled, Swept, Settled
  <2>4. QED
    BY <2>2, <2>3
<1>5. ASSUME NEW w \in Workers, LeaseOwn(w) \/ LeasePool(w) PROVE JobMove(j)
  BY <1>5, LeaseOwnTakes, LeasePoolTakes, TakesMoves DEF JobMove
<1>6. ASSUME NEW w \in Workers, LeaseNothing(w) PROVE JobMove(j)
  BY <1>6, LeaseNothingPolls, PollsMoves DEF JobMove
<1>7. ASSUME NEW w \in Workers, MintOpened(w) PROVE JobMove(j)
  BY <1>7, MintOpenedMoves DEF JobMove
<1>8. ASSUME NEW w \in Workers, MintStamped(w) \/ MintEnded(w) PROVE JobMove(j)
  <2>1. worker[w].job \in Jobs /\ entry[worker[w].job].st # "absent" /\ promise' = promise
    BY <1>8 DEF MintStamped, MintEnded, PcSound, TokensSound
  <2>2. Deliver(w, worker[w].job) \/ UNCHANGED entry
    BY <1>8 DEF MintStamped, MintEnded
  <2>3. CASE UNCHANGED entry
    BY <2>1, <2>3 DEF JobMove, Rests, Unsettled, Swept
  <2>4. CASE Deliver(w, worker[w].job)
    BY <2>1, <2>4, DeliverMoves DEF JobMove
  <2>5. QED
    BY <2>2, <2>3, <2>4
<1>9. ASSUME NEW w \in Workers, Submit(w) \/ Resubmit(w) \/ FailJob(w) PROVE JobMove(j)
  BY <1>9, ReportMoves DEF Submit, Resubmit, FailJob, JobMove
<1>10. ASSUME UNCHANGED <<entry, promise>> PROVE JobMove(j)
  BY <1>10 DEF JobMove, Rests, Unsettled, Swept
<1>11. QED
  BY <1>1, <1>2, <1>3, <1>4, <1>5, <1>6, <1>7, <1>8, <1>9, <1>10
  DEF Next, DispatcherStep, WorkerStep, Heartbeat, WorkerCrash, Tick, vars

-----------------------------------------------------------------------------
(* What one step can do to one worker.                                     *)

Keeps(w) ==
    /\ worker'[w].job = worker[w].job
    /\ worker'[w].epoch = worker[w].epoch
    /\ worker'[w].opened = worker[w].opened
    /\ worker'[w].pc = "idle" <=> worker[w].pc = "idle"
    /\ worker'[w].pc = "opening" <=> worker[w].pc = "opening"
Drops(w) == worker'[w] = Free

\* Its mint opened an attempt (or failed to) under a lease that is still its own.
Stamps(w) ==
    /\ worker[w].pc = "opening" /\ worker'[w].pc = "stamping"
    /\ worker'[w].job = worker[w].job /\ worker'[w].epoch = worker[w].epoch
    /\ worker'[w].opened \in {0, worker[w].epoch}
    /\ HoldsWritableLease(entry[worker[w].job], w)
    /\ entry'[worker[w].job] = [entry[worker[w].job] EXCEPT !.attempt = worker'[w].opened]

\* It gets the newest lease of a job; a first lease runs the dispatch's own attempt.
Gets(w) ==
    LET j == worker'[w].job IN
    /\ j \in Jobs
    /\ worker'[w].pc \in {"opening", "running"}
    /\ entry'[j].st = "present"
    /\ worker'[w].epoch = entry'[j].epoch /\ entry'[j].epoch = entry[j].epoch + 1
    /\ worker'[w].pc = "running" =>
         worker'[w].epoch = 1 /\ worker'[w].opened = 1 /\ entry'[j].attempt = 1

WorkersMove ==
    \/ \A w \in Workers : Keeps(w) \/ Drops(w) \/ Stamps(w)
    \/ \E g \in Workers : Gets(g) /\ \A w \in Workers \ {g} : worker'[w] = worker[w]

LEMMA TakesWorkers ==
  ASSUME TypeOK, \A k \in Jobs : EntrySound(entry[k], k), NEW w \in Workers, Takes(w)
  PROVE  WorkersMove
<1>1. PICK x \in [Jobs -> Entry], S \in SUBSET Jobs : \E i \in Jobs \ S :
        /\ Sweeps(x) /\ Rejects(x, S)
        /\ Waiting(x[i]) /\ x[i].epoch < MaxEpoch
        /\ Take(w, Rejected(x, S), i)
  BY DEF Takes
<1>2. PICK j \in Jobs \ S : /\ Waiting(x[j]) /\ x[j].epoch < MaxEpoch
                            /\ Take(w, Rejected(x, S), j)
  BY <1>1
<1> DEFINE y == Rejected(x, S)
<1>3. y \in [Jobs -> Entry] /\ y[j] = x[j] /\ y[j] \in Entry /\ j \in Jobs
  BY RejectedType DEF Rejected
<1>4. Take(w, y, j)
  BY <1>2
<1>5. Swept(entry[j], y[j]) /\ Waiting(y[j]) /\ entry[j] \in Entry
  BY <1>1, <1>2, <1>3 DEF Sweeps, TypeOK
<1> HIDE DEF y
<1>6. Taken(w, y, j)
  BY <1>3, <1>4, TakeParts
<1>7. entry[j].epoch = y[j].epoch /\ y[j].epoch \in Nat
  BY <1>3, <1>5, Bounds DEF Swept, Entry
<1>8. y[j].epoch = 0 => y[j].attempt = 1
  <2>1. SUFFICES ASSUME y[j].epoch = 0 PROVE y[j].attempt = 1
    OBVIOUS
  <2>2. EntrySound(entry[j], j) /\ entry[j].epoch = 0
    BY <1>3, <1>7, <2>1
  <2>3. y[j] = entry[j]
    BY <1>5, <2>2 DEF EntrySound, Swept
  <2>4. QED
    BY <1>5, <2>2, <2>3 DEF EntrySound, Waiting
<1>9. entry'[j] = Granted(y[j], RunnerOf[w])
  BY <1>3, <1>6 DEF Taken
<1>10. /\ entry'[j].st = "present" /\ entry'[j].epoch = y[j].epoch + 1
       /\ entry'[j].attempt = y[j].attempt
  BY <1>3, <1>5, <1>9 DEF Granted, Waiting, Entry
<1>11. CASE worker' = worker
  BY <1>11 DEF WorkersMove, Keeps
<1>12. CASE y[j].epoch = 0 /\ worker' = [worker EXCEPT ![w] =
              [Free EXCEPT !.pc = "running", !.job = j, !.epoch = 1, !.opened = y[j].attempt]]
  <2>1. worker'[w] = [Free EXCEPT !.pc = "running", !.job = j, !.epoch = 1, !.opened = y[j].attempt]
        /\ \A v \in Workers \ {w} : worker'[v] = worker[v]
    BY <1>12 DEF TypeOK
  <2>2. /\ worker'[w].pc = "running" /\ worker'[w].job = j /\ worker'[w].epoch = 1
        /\ worker'[w].opened = y[j].attempt
    BY <2>1 DEF Free
  <2>3. Gets(w)
    BY <1>3, <1>7, <1>8, <1>10, <1>12, <2>2 DEF Gets
  <2>4. QED
    BY <2>1, <2>3 DEF WorkersMove
<1>13. CASE \E a \in {0, y[j].attempt} : worker' = [worker EXCEPT ![w] =
              [Free EXCEPT !.pc = "opening", !.job = j, !.epoch = y[j].epoch + 1, !.prior = a]]
  <2>1. PICK a : worker'[w] = [Free EXCEPT !.pc = "opening", !.job = j, !.epoch = y[j].epoch + 1, !.prior = a]
                 /\ \A v \in Workers \ {w} : worker'[v] = worker[v]
    BY <1>13 DEF TypeOK
  <2>2. worker'[w].pc = "opening" /\ worker'[w].job = j /\ worker'[w].epoch = y[j].epoch + 1
    BY <2>1 DEF Free
  <2>3. Gets(w)
    BY <1>3, <1>7, <1>10, <2>2 DEF Gets
  <2>4. QED
    BY <2>1, <2>3 DEF WorkersMove
<1>14. QED
  BY <1>6, <1>11, <1>12, <1>13 DEF Taken

\* A worker whose program counter moves on keeps its token.
LEMMA PcKeeps ==
  ASSUME TypeOK, NEW w \in Workers, NEW pc, worker' = [worker EXCEPT ![w].pc = pc],
         pc \notin {"idle", "opening"}, worker[w].pc \notin {"idle", "opening"}
  PROVE  \A v \in Workers : Keeps(v)
<1>1. /\ worker'[w] = [worker[w] EXCEPT !.pc = pc]
      /\ \A v \in Workers \ {w} : worker'[v] = worker[v]
  BY DEF TypeOK
<1>2. worker[w] \in Worker
  BY DEF TypeOK
<1>3. Keeps(w)
  BY <1>1, <1>2 DEF Keeps, Worker
<1>4. QED
  BY <1>1, <1>3 DEF Keeps

LEMMA DeliverWorkers ==
  ASSUME TypeOK, NEW w \in Workers, NEW j, Deliver(w, j), worker[w].pc \in {"stamping", "ending"}
  PROVE  \A v \in Workers : Keeps(v) \/ Drops(v)
<1>1. CASE worker' = [worker EXCEPT ![w] = Free]
  BY <1>1 DEF Keeps, Drops, TypeOK
<1>2. CASE worker' = [worker EXCEPT ![w].pc = "running", ![w].prior = 0]
  <2>1. /\ worker'[w] = [worker[w] EXCEPT !.pc = "running", !.prior = 0]
        /\ \A v \in Workers \ {w} : worker'[v] = worker[v]
    BY <1>2 DEF TypeOK
  <2>2. worker[w] \in Worker
    BY DEF TypeOK
  <2>3. Keeps(w)
    BY <2>1, <2>2 DEF Keeps, Worker
  <2>4. QED
    BY <2>1, <2>3 DEF Keeps
<1>3. QED
  BY <1>1, <1>2 DEF Deliver

LEMMA MintOpenedWorkers ==
  ASSUME TypeOK, NEW w \in Workers, worker[w].job \in Jobs, MintOpened(w)
  PROVE  \A v \in Workers : Keeps(v) \/ Drops(v) \/ Stamps(v)
<1> DEFINE j == worker[w].job
<1>1. worker[w].pc = "opening" /\ worker[w] \in Worker
  BY DEF MintOpened, TypeOK
<1>2. CASE HoldsWritableLease(entry[j], w)
  <2>1. PICK e \in {0, worker[w].epoch} :
          /\ entry' = [entry EXCEPT ![j].attempt = e]
          /\ worker' = [worker EXCEPT ![w].pc = "stamping", ![w].opened = e]
    BY <1>2 DEF MintOpened
  <2>2. entry'[j] = [entry[j] EXCEPT !.attempt = e]
    BY <2>1 DEF TypeOK
  <2>3. /\ worker'[w] = [worker[w] EXCEPT !.pc = "stamping", !.opened = e]
        /\ \A v \in Workers \ {w} : worker'[v] = worker[v]
    BY <2>1 DEF TypeOK
  <2>4. /\ worker'[w].pc = "stamping" /\ worker'[w].job = worker[w].job
        /\ worker'[w].epoch = worker[w].epoch /\ worker'[w].opened = e
    BY <1>1, <2>3 DEF Worker
  <2>5. Stamps(w)
    BY <1>1, <1>2, <2>1, <2>2, <2>4 DEF Stamps
  <2>6. QED
    BY <2>3, <2>5 DEF Keeps
<1>3. CASE ~HoldsWritableLease(entry[j], w)
  <2>1. worker' = [worker EXCEPT ![w] = Free]
    BY <1>3 DEF MintOpened
  <2>2. QED
    BY <2>1 DEF Keeps, Drops, TypeOK
<1>4. QED
  BY <1>2, <1>3

LEMMA ReportWorkers ==
  ASSUME TypeOK, NEW w \in Workers, Submit(w) \/ Resubmit(w) \/ FailJob(w)
  PROVE  \A v \in Workers : Keeps(v) \/ Drops(v)
<1>1. worker[w].pc \notin {"idle", "opening"}
  BY DEF Submit, Resubmit, FailJob, InRun
<1>2. \/ worker' = [worker EXCEPT ![w] = Free]
      \/ \E pc \in {"resubmit", "failing"} : worker' = [worker EXCEPT ![w].pc = pc]
  BY DEF Submit, Resubmit, FailJob, Report
<1>3. CASE worker' = [worker EXCEPT ![w] = Free]
  BY <1>3 DEF Keeps, Drops, TypeOK
<1>4. CASE \E pc \in {"resubmit", "failing"} : worker' = [worker EXCEPT ![w].pc = pc]
  <2>1. PICK pc \in {"resubmit", "failing"} : worker' = [worker EXCEPT ![w].pc = pc]
    BY <1>4
  <2>2. pc \notin {"idle", "opening"}
    OBVIOUS
  <2>3. QED
    BY <1>1, <2>1, <2>2, PcKeeps
<1>5. QED
  BY <1>2, <1>3, <1>4

LEMMA StepWorkers ==
  ASSUME IInv, [Next]_vars
  PROVE  WorkersMove
<1> /\ TypeOK /\ PcSound
    /\ \A k \in Jobs : EntrySound(entry[k], k)
  BY DEF IInv
<1>1. ASSUME NEW w \in Workers, LeaseOwn(w) \/ LeasePool(w) PROVE WorkersMove
  BY <1>1, LeaseOwnTakes, LeasePoolTakes, TakesWorkers
<1>2. ASSUME NEW w \in Workers, MintOpened(w) PROVE WorkersMove
  <2>1. worker[w].job \in Jobs
    BY <1>2 DEF MintOpened, PcSound
  <2>2. QED
    BY <1>2, <2>1, MintOpenedWorkers DEF WorkersMove
<1>3. ASSUME NEW w \in Workers, MintStamped(w) \/ MintEnded(w) PROVE WorkersMove
  <2>1. worker[w].pc \in {"stamping", "ending"}
    BY <1>3 DEF MintStamped, MintEnded
  <2>2. Deliver(w, worker[w].job) \/ worker' = [worker EXCEPT ![w].pc = "ending"]
    BY <1>3 DEF MintStamped, MintEnded
  <2>3. \A v \in Workers : Keeps(v) \/ Drops(v)
    BY <2>1, <2>2, PcKeeps, DeliverWorkers
  <2>4. QED
    BY <2>3 DEF WorkersMove
<1>4. ASSUME NEW w \in Workers, Submit(w) \/ Resubmit(w) \/ FailJob(w) PROVE WorkersMove
  BY <1>4, ReportWorkers DEF WorkersMove
<1>5. ASSUME NEW w \in Workers, Heartbeat(w) PROVE WorkersMove
  <2>1. worker[w].pc \notin {"idle", "opening"}
    BY <1>5 DEF Heartbeat, InRun, Reporting
  <2>2. worker' = worker \/ worker' = [worker EXCEPT ![w].pc = "aborted"]
    BY <1>5 DEF Heartbeat
  <2>3. \A v \in Workers : Keeps(v)
    BY <2>1, <2>2, PcKeeps DEF Keeps
  <2>4. QED
    BY <2>3 DEF WorkersMove
<1>6. ASSUME NEW w \in Workers, WorkerCrash(w) PROVE WorkersMove
  BY <1>6 DEF WorkerCrash, WorkersMove, Keeps, Drops, TypeOK
<1>7. ASSUME HubCrash PROVE WorkersMove
  BY <1>7 DEF HubCrash, WorkersMove, Keeps, Drops
<1>8. ASSUME UNCHANGED worker PROVE WorkersMove
  BY <1>8 DEF WorkersMove, Keeps
<1>9. QED
  BY <1>1, <1>2, <1>3, <1>4, <1>5, <1>6, <1>7, <1>8
  DEF Next, DispatcherStep, WorkerStep, Enqueue, IdleTimeout, RequestCancel, LeaseNothing,
      Tick, vars

-----------------------------------------------------------------------------
(* IInv is inductive.                                                      *)

LEMMA InitSound == Init => IInv
<1> SUFFICES ASSUME Init PROVE IInv
  OBVIOUS
<1>1. TypeOK
  BY InitTyped
<1>2. \A j \in Jobs : EntrySound(entry[j], j) /\ PromiseSound(entry[j], promise[j])
  BY DEF Init, EntrySound, PromiseSound, NoEntry
<1>3. \A w \in Workers : ~HasToken(w) /\ worker[w].pc = "idle"
  BY DEF Init, HasToken, Free
<1>4. ParkedBounded
  <2>1. \A q : {j \in WaitingIn(q) : entry[j].epoch = 0} = {}
    BY DEF Init, WaitingIn, Waiting, NoEntry
  <2>2. Cardinality({}) = 0 /\ (MaxWaiting > 0 => 0 <= MaxWaiting)
    BY FS_EmptySet, HubAssumption
  <2>3. QED
    BY <2>1, <2>2 DEF ParkedBounded
<1>5. QED
  BY <1>1, <1>2, <1>3, <1>4
  DEF IInv, PcSound, TokensSound, TokensDistinct, OpenedSound

\* A granted entry, field by field.
LEMMA GrantedFields ==
  ASSUME NEW x \in Entry, NEW r
  PROVE  /\ Granted(x, r).st = x.st /\ Granted(x, r).leased /\ Granted(x, r).leasedBy = r
         /\ Granted(x, r).epoch = x.epoch + 1 /\ Granted(x, r).cancel = x.cancel
         /\ Granted(x, r).attempt = x.attempt /\ Granted(x, r).last = x.last
  BY DEF Granted, Entry

\* A swept entry, field by field.
LEMMA SweptFields ==
  ASSUME NEW x \in Entry, NEW y, Swept(x, y)
  PROVE  /\ y.st = x.st /\ y.leasedBy = x.leasedBy /\ y.epoch = x.epoch
         /\ y.cancel = x.cancel /\ y.attempt = x.attempt /\ y.last = x.last
         /\ y.leased => x.leased
         /\ y \in Entry
  BY DEF Swept, Entry

LEMMA EntryStep ==
  ASSUME TypeOK, NEW j \in Jobs, EntrySound(entry[j], j), PromiseSound(entry[j], promise[j]),
         JobMove(j)
  PROVE  EntrySound(entry'[j], j)
<1>1. entry[j] \in Entry
  BY DEF TypeOK
<1>2. CASE Parks(j)
  BY <1>2 DEF Parks, NoEntry, EntrySound
<1>3. CASE Refuses(j)
  BY <1>3 DEF Refuses
<1>4. CASE Rests(j)
  <2>1. CASE entry'[j] = entry[j]
    BY <2>1
  <2>2. CASE entry'[j] # entry[j]
    BY <1>1, <1>4, <2>2 DEF Rests, Swept, EntrySound, Entry
  <2>3. QED
    BY <2>1, <2>2
<1>5. CASE Grants(j)
  <2>1. PICK x \in Entry, r \in Runners :
          Swept(entry[j], x) /\ Waiting(x) /\ Serves(r, j) /\ entry'[j] = Granted(x, r)
    BY <1>5 DEF Grants
  <2>2. x.epoch \in Nat
    BY <2>1, Bounds DEF Entry
  <2>3. x.epoch + 1 >= 1 /\ x.epoch + 1 # 0
    BY <2>2
  <2>4. QED
    BY <2>1, <2>3, GrantedFields DEF EntrySound, Waiting
<1>6. CASE Cancels(j)
  BY <1>1, <1>6 DEF Cancels, EntrySound, Entry
<1>7. CASE Ends(j)
  BY <1>1, <1>7 DEF Ends, EntrySound, Entry
<1>8. CASE Restamps(j)
  <2>1. PICK w \in Workers : /\ HoldsWritableLease(entry[j], w)
                             /\ \E e : entry'[j] = [entry[j] EXCEPT !.attempt = e]
    BY <1>8 DEF Restamps
  <2>2. entry[j].leased /\ entry[j].st = "present" /\ entry[j].epoch >= 1 /\ entry[j].epoch # 0
    BY <1>1, <2>1, Bounds DEF HoldsWritableLease, HoldsCurrentLease, EntrySound
  <2>3. QED
    BY <1>1, <2>1, <2>2 DEF EntrySound, Entry
<1>9. CASE Remembers(j)
  BY <1>1, <1>9 DEF Remembers, EntrySound, Entry
<1>10. QED
  BY <1>2, <1>3, <1>4, <1>5, <1>6, <1>7, <1>8, <1>9 DEF JobMove

LEMMA PromiseStep ==
  ASSUME TypeOK, NEW j \in Jobs, EntrySound(entry[j], j), PromiseSound(entry[j], promise[j]),
         JobMove(j)
  PROVE  PromiseSound(entry'[j], promise'[j])
<1>1. entry[j] \in Entry
  BY DEF TypeOK
<1>2. CASE Parks(j)
  BY <1>2 DEF Parks, NoEntry, PromiseSound
<1>3. CASE Refuses(j)
  BY <1>3 DEF Refuses, PromiseSound
<1>4. CASE Rests(j)
  BY <1>1, <1>4, SweptFields DEF Rests, Unsettled, PromiseSound
<1>5. CASE Grants(j)
  <2>1. PICK x \in Entry, r \in Runners :
          Swept(entry[j], x) /\ Waiting(x) /\ entry'[j] = Granted(x, r)
    BY <1>5 DEF Grants
  <2>2. /\ entry'[j].st = entry[j].st /\ entry'[j].cancel = entry[j].cancel
        /\ promise'[j] = promise[j]
    BY <1>1, <1>5, <2>1, SweptFields, GrantedFields DEF Grants, Unsettled
  <2>3. QED
    BY <2>2 DEF PromiseSound
<1>6. CASE Cancels(j)
  BY <1>1, <1>6 DEF Cancels, PromiseSound, Settled, Entry
<1>7. CASE Ends(j)
  BY <1>1, <1>7 DEF Ends, PromiseSound, Settled, Entry
<1>8. CASE Restamps(j)
  BY <1>1, <1>8 DEF Restamps, Unsettled, PromiseSound, Entry
<1>9. CASE Remembers(j)
  BY <1>1, <1>9 DEF Remembers, Unsettled, PromiseSound, Entry
<1>10. QED
  BY <1>2, <1>3, <1>4, <1>5, <1>6, <1>7, <1>8, <1>9 DEF JobMove

\* A job the hub has known stays known, its epochs never fall, and until the next
\* lease only the restamp changes the attempt it names.
LEMMA KnownStep ==
  ASSUME TypeOK, NEW j \in Jobs, PromiseSound(entry[j], promise[j]), JobMove(j),
         entry[j].st # "absent"
  PROVE  /\ entry'[j].st # "absent"
         /\ entry[j].epoch \in Nat /\ entry'[j].epoch \in Nat
         /\ entry'[j].epoch >= entry[j].epoch
         /\ entry'[j].epoch = entry[j].epoch =>
              entry'[j].attempt = entry[j].attempt \/ Restamps(j)
<1>1. entry[j] \in Entry /\ entry[j].epoch \in Nat
  BY Bounds DEF TypeOK, Entry
<1>2. ~Parks(j) /\ ~Refuses(j)
  BY DEF Parks, Refuses, PromiseSound
<1>3. CASE Rests(j)
  BY <1>1, <1>3, SweptFields DEF Rests
<1>4. CASE Grants(j)
  <2>1. PICK x \in Entry, r \in Runners : Swept(entry[j], x) /\ entry'[j] = Granted(x, r)
    BY <1>4 DEF Grants
  <2>2. entry'[j].st = entry[j].st /\ entry'[j].epoch = entry[j].epoch + 1
    BY <1>1, <2>1, SweptFields, GrantedFields
  <2>3. QED
    BY <1>1, <2>2
<1>5. ASSUME \/ entry'[j] = [entry[j] EXCEPT !.cancel = TRUE]
             \/ entry'[j] = [entry[j] EXCEPT !.st = "gone"]
             \/ \E e \in Epochs : entry'[j] = [entry[j] EXCEPT !.last = e]
             \/ Restamps(j) /\ \E e : entry'[j] = [entry[j] EXCEPT !.attempt = e]
      PROVE  /\ entry'[j].st # "absent" /\ entry'[j].epoch = entry[j].epoch
             /\ entry'[j].attempt = entry[j].attempt \/ Restamps(j)
  <2>1. ASSUME NEW e, entry'[j] = [entry[j] EXCEPT !.attempt = e]
        PROVE  entry'[j].st = entry[j].st /\ entry'[j].epoch = entry[j].epoch
    BY <1>1, <2>1 DEF Entry
  <2>2. ASSUME NEW e, entry'[j] = [entry[j] EXCEPT !.last = e]
        PROVE  /\ entry'[j].st = entry[j].st /\ entry'[j].epoch = entry[j].epoch
               /\ entry'[j].attempt = entry[j].attempt
    BY <1>1, <2>2 DEF Entry
  <2>3. CASE \/ entry'[j] = [entry[j] EXCEPT !.cancel = TRUE]
             \/ entry'[j] = [entry[j] EXCEPT !.st = "gone"]
    BY <1>1, <2>3 DEF Entry
  <2>4. QED
    BY <1>5, <2>1, <2>2, <2>3
<1>6. CASE Cancels(j) \/ Ends(j) \/ Remembers(j) \/ Restamps(j)
  <2>1. \/ entry'[j] = [entry[j] EXCEPT !.cancel = TRUE]
        \/ entry'[j] = [entry[j] EXCEPT !.st = "gone"]
        \/ \E e \in Epochs : entry'[j] = [entry[j] EXCEPT !.last = e]
        \/ Restamps(j) /\ \E e : entry'[j] = [entry[j] EXCEPT !.attempt = e]
    BY <1>6 DEF Cancels, Ends, Remembers, Restamps
  <2>2. /\ entry'[j].st # "absent" /\ entry'[j].epoch = entry[j].epoch
        /\ entry'[j].attempt = entry[j].attempt \/ Restamps(j)
    BY <1>5, <2>1
  <2>3. QED
    BY <1>1, <2>2
<1>7. QED
  BY <1>2, <1>3, <1>4, <1>6 DEF JobMove

\* The job of a token.
LEMMA TokenKnown ==
  ASSUME IInv, [Next]_vars, NEW w \in Workers, HasToken(w)
  PROVE  LET j == worker[w].job IN
         /\ j \in Jobs /\ worker[w].pc # "idle"
         /\ worker[w].epoch \in Nat /\ worker[w].epoch >= 1 /\ worker[w].epoch <= entry[j].epoch
         /\ JobMove(j) /\ PromiseSound(entry[j], promise[j]) /\ entry[j].st # "absent"
<1>1. worker[w].job \in Jobs
  BY DEF IInv, PcSound
<1>2. worker[w] \in Worker
  BY DEF IInv, TypeOK
<1>3. worker[w].epoch \in Nat
  BY <1>2, Bounds DEF Worker
<1>4. JobMove(worker[w].job)
  BY <1>1, StepMoves
<1>5. QED
  BY <1>1, <1>3, <1>4 DEF IInv, PcSound, TokensSound

LEMMA TokensStep ==
  ASSUME IInv, [Next]_vars
  PROVE  PcSound' /\ TokensSound'
<1>1. ASSUME NEW w \in Workers, Keeps(w) \/ Stamps(w)
      PROVE  /\ worker'[w].job = worker[w].job /\ worker'[w].epoch = worker[w].epoch
             /\ worker'[w].pc = "idle" <=> worker[w].pc = "idle"
  BY <1>1 DEF Keeps, Stamps
<1>2. ASSUME NEW w \in Workers, Keeps(w) \/ Stamps(w)
      PROVE  /\ worker'[w].pc = "idle" <=> worker'[w].job = NoJob
             /\ worker'[w].job # NoJob =>
                  /\ worker'[w].job \in Jobs /\ worker'[w].epoch >= 1
                  /\ entry'[worker'[w].job].st # "absent"
                  /\ worker'[w].epoch <= entry'[worker'[w].job].epoch
  <2>1. CASE HasToken(w)
    <3> DEFINE j == worker[w].job
    <3>1. /\ j \in Jobs /\ worker[w].pc # "idle"
          /\ worker[w].epoch \in Nat /\ worker[w].epoch >= 1 /\ worker[w].epoch <= entry[j].epoch
          /\ JobMove(j) /\ PromiseSound(entry[j], promise[j]) /\ entry[j].st # "absent"
      BY <2>1, TokenKnown
    <3>2. /\ entry'[j].st # "absent" /\ entry[j].epoch \in Nat /\ entry'[j].epoch \in Nat
          /\ entry'[j].epoch >= entry[j].epoch
      BY <3>1, KnownStep DEF IInv
    <3>3. j # NoJob
      BY <2>1 DEF HasToken
    <3> HIDE DEF j
    <3>4. worker'[w].job = j /\ worker'[w].epoch = worker[w].epoch
      BY <1>1, <1>2 DEF j
    <3>5. QED
      BY <1>1, <1>2, <3>1, <3>2, <3>3, <3>4
  <2>2. CASE ~HasToken(w)
    BY <1>1, <1>2, <2>2 DEF IInv, PcSound, HasToken
  <2>3. QED
    BY <2>1, <2>2
<1>3. ASSUME NEW w \in Workers, Drops(w)
      PROVE  worker'[w].pc = "idle" /\ worker'[w].job = NoJob
  BY <1>3 DEF Drops, Free
<1>4. ASSUME NEW w \in Workers, Gets(w)
      PROVE  /\ worker'[w].pc # "idle" /\ worker'[w].job # NoJob
             /\ worker'[w].job \in Jobs /\ worker'[w].epoch >= 1
             /\ entry'[worker'[w].job].st # "absent"
             /\ worker'[w].epoch <= entry'[worker'[w].job].epoch
  <2> DEFINE j == worker'[w].job
  <2>1. j \in Jobs /\ worker'[w].epoch = entry[j].epoch + 1 /\ entry'[j].epoch = entry[j].epoch + 1
    BY <1>4 DEF Gets
  <2>2. entry[j] \in Entry
    BY <2>1 DEF IInv, TypeOK
  <2>3. entry[j].epoch \in Nat
    BY <2>2, Bounds DEF Entry
  <2>4. j # NoJob
    BY <2>1, HubAssumption
  <2>5. worker'[w].pc # "idle" /\ entry'[j].st # "absent"
    BY <1>4 DEF Gets
  <2> HIDE DEF j
  <2>6. QED
    BY <2>1, <2>3, <2>4, <2>5 DEF j
<1>5. \A w \in Workers : Keeps(w) \/ Stamps(w) \/ Drops(w) \/ Gets(w)
  BY StepWorkers DEF WorkersMove, Keeps
<1>6. QED
  BY <1>2, <1>3, <1>4, <1>5 DEF PcSound, TokensSound, HasToken

LEMMA DistinctStep ==
  ASSUME IInv, [Next]_vars
  PROVE  TokensDistinct'
<1>1. SUFFICES ASSUME NEW v \in Workers, NEW w \in Workers, v # w,
                      worker'[v].job # NoJob, worker'[v].job = worker'[w].job
               PROVE  worker'[v].epoch # worker'[w].epoch
  BY DEF TokensDistinct, HasToken
<1>2. CASE \A u \in Workers : Keeps(u) \/ Drops(u) \/ Stamps(u)
  <2>1. ASSUME NEW u \in Workers, worker'[u].job # NoJob
        PROVE  worker'[u].job = worker[u].job /\ worker'[u].epoch = worker[u].epoch
    <3>1. ~Drops(u)
      BY <2>1 DEF Drops, Free
    <3>2. Keeps(u) \/ Stamps(u)
      BY <1>2, <2>1, <3>1
    <3>3. QED
      BY <3>2 DEF Keeps, Stamps
  <2>2. QED
    BY <1>1, <2>1 DEF IInv, TokensDistinct, HasToken
<1>3. ASSUME NEW g \in Workers, Gets(g), NEW k \in Workers, worker'[k] = worker[k],
             worker'[k].job = worker'[g].job
      PROVE  worker'[k].epoch # worker'[g].epoch
  <2> DEFINE j == worker'[g].job
  <2>1. j \in Jobs /\ worker'[g].epoch = entry[j].epoch + 1
    BY <1>3 DEF Gets
  <2>2. HasToken(k) /\ worker[k].job = j
    BY <1>3, <2>1, HubAssumption DEF HasToken
  <2>3. worker[k].epoch \in Nat /\ worker[k].epoch <= entry[j].epoch
    BY <2>2, TokenKnown
  <2>4. entry[j] \in Entry
    BY <2>1 DEF IInv, TypeOK
  <2>5. entry[j].epoch \in Nat
    BY <2>4, Bounds DEF Entry
  <2> HIDE DEF j
  <2>6. QED
    BY <1>3, <2>1, <2>3, <2>5
<1>4. CASE \E g \in Workers : Gets(g) /\ \A u \in Workers \ {g} : worker'[u] = worker[u]
  <2>1. PICK g \in Workers : Gets(g) /\ \A u \in Workers \ {g} : worker'[u] = worker[u]
    BY <1>4
  <2>2. CASE v = g \/ w = g
    BY <1>1, <1>3, <2>1, <2>2
  <2>3. CASE v # g /\ w # g
    BY <1>1, <2>1, <2>3 DEF IInv, TokensDistinct, HasToken
  <2>4. QED
    BY <2>2, <2>3
<1>5. QED
  BY <1>2, <1>4, StepWorkers DEF WorkersMove

\* Between its restamp and the next lease, nothing touches the attempt a lease opened:
\* the only other mint that may restamp would have to hold the same token.
LEMMA OpenedStep ==
  ASSUME IInv, [Next]_vars, NEW w \in Workers
  PROVE  OpenedSound(w)'
<1> DEFINE j == worker'[w].job
<1>1. SUFFICES ASSUME j # NoJob, worker'[w].pc # "opening", worker'[w].epoch = entry'[j].epoch
               PROVE  /\ entry'[j].attempt = worker'[w].opened
                      /\ worker'[w].opened \in {0, worker'[w].epoch}
  BY DEF OpenedSound, HasToken
<1>2. CASE Keeps(w)
  <2>1. /\ worker[w].job = j /\ worker'[w].epoch = worker[w].epoch
        /\ worker'[w].opened = worker[w].opened /\ worker[w].pc # "opening"
    BY <1>1, <1>2 DEF Keeps
  <2>2. HasToken(w)
    BY <1>1, <2>1 DEF HasToken
  <2>3. /\ j \in Jobs /\ worker[w].epoch \in Nat /\ worker[w].epoch <= entry[j].epoch
        /\ JobMove(j) /\ PromiseSound(entry[j], promise[j]) /\ entry[j].st # "absent"
    BY <2>1, <2>2, TokenKnown
  <2>4. /\ entry[j].epoch \in Nat /\ entry'[j].epoch \in Nat /\ entry'[j].epoch >= entry[j].epoch
        /\ entry'[j].epoch = entry[j].epoch =>
              entry'[j].attempt = entry[j].attempt \/ Restamps(j)
    BY <2>3, KnownStep DEF IInv
  <2>5. entry'[j].epoch = entry[j].epoch /\ worker[w].epoch = entry[j].epoch
    BY <1>1, <2>1, <2>3, <2>4
  <2>6. entry[j].attempt = worker[w].opened /\ worker[w].opened \in {0, worker[w].epoch}
    BY <2>1, <2>2, <2>5 DEF IInv, OpenedSound
  <2>7. ~Restamps(j)
    <3>1. SUFFICES ASSUME NEW v \in Workers, worker[v].pc = "opening", worker[v].job = j,
                          HoldsWritableLease(entry[j], v)
                   PROVE  FALSE
      BY DEF Restamps
    <3>2. worker[v].epoch = worker[w].epoch
      BY <2>5, <3>1 DEF HoldsWritableLease, HoldsCurrentLease
    <3>3. v # w /\ HasToken(v)
      BY <1>1, <2>1, <3>1 DEF HasToken
    <3>4. QED
      BY <2>1, <2>2, <3>1, <3>2, <3>3 DEF IInv, TokensDistinct
  <2>8. QED
    BY <2>1, <2>4, <2>5, <2>6, <2>7
<1>3. CASE Stamps(w)
  <2>1. /\ worker[w].job = j /\ worker'[w].epoch = worker[w].epoch
        /\ worker'[w].opened \in {0, worker[w].epoch}
        /\ entry'[j] = [entry[j] EXCEPT !.attempt = worker'[w].opened]
    BY <1>3 DEF Stamps
  <2>2. HasToken(w)
    BY <1>1, <2>1 DEF HasToken
  <2>3. j \in Jobs
    BY <2>1, <2>2, TokenKnown
  <2>4. entry[j] \in Entry
    BY <2>3 DEF IInv, TypeOK
  <2>5. entry'[j].attempt = worker'[w].opened
    BY <2>1, <2>4 DEF Entry
  <2>6. QED
    BY <2>1, <2>5
<1>4. CASE Drops(w)
  BY <1>1, <1>4 DEF Drops, Free
<1>5. CASE Gets(w)
  BY <1>1, <1>5 DEF Gets
<1>6. Keeps(w) \/ Drops(w) \/ Stamps(w) \/ Gets(w)
  BY StepWorkers DEF WorkersMove, Keeps
<1>7. QED
  BY <1>2, <1>3, <1>4, <1>5, <1>6

\* The never-leased waiting jobs of a queue only grow by an enqueue() below the cap.
LEMMA ParkedStep ==
  ASSUME IInv, [Next]_vars
  PROVE  ParkedBounded'
<1> DEFINE Parked(q) == {j \in Jobs : QueueOf[j] = q /\ Waiting(entry[j]) /\ entry[j].epoch = 0}
           Later(q) == {j \in Jobs : QueueOf[j] = q /\ Waiting(entry'[j]) /\ entry'[j].epoch = 0}
<1>1. SUFFICES ASSUME MaxWaiting > 0, NEW q \in Runners \cup {Pool}
               PROVE  Cardinality(Later(q)) <= MaxWaiting
  <2>1. \A q \in Runners \cup {Pool} :
          Later(q) = {j \in {k \in Jobs : QueueOf[k] = q /\ Waiting(entry'[k])} : entry'[j].epoch = 0}
    OBVIOUS
  <2>2. QED
    BY <2>1 DEF ParkedBounded, WaitingIn
<1>2. ASSUME NEW j \in Later(q), ~Parks(j) PROVE j \in Parked(q)
  <2>1. JobMove(j) /\ entry[j] \in Entry /\ EntrySound(entry[j], j) /\ entry[j].epoch \in Nat
    BY <1>2, StepMoves, Bounds DEF IInv, TypeOK, Entry
  <2>2. CASE Rests(j)
    <3>1. entry[j].epoch = 0
      BY <1>2, <2>1, <2>2, SweptFields DEF Rests
    <3>2. ~entry[j].leased
      BY <2>1, <3>1 DEF EntrySound
    <3>3. entry'[j] = entry[j]
      BY <2>2, <3>2 DEF Rests, Swept
    <3>4. QED
      BY <1>2, <3>3
  <2>3. CASE Refuses(j)
    BY <1>2, <2>3 DEF Refuses
  <2>4. CASE Grants(j)
    <3>1. PICK x \in Entry, r \in Runners : entry'[j] = Granted(x, r)
      BY <2>4 DEF Grants
    <3>2. QED
      BY <1>2, <3>1, GrantedFields DEF Waiting
  <2>5. CASE Cancels(j) \/ Ends(j)
    BY <1>2, <2>1, <2>5 DEF Cancels, Ends, Waiting, Entry
  <2>6. CASE Restamps(j)
    BY <1>2, <2>1, <2>6 DEF Restamps, Waiting, Entry
  <2>7. CASE Remembers(j)
    BY <1>2, <2>1, <2>7 DEF Remembers, Waiting, Entry
  <2>8. QED
    BY <1>2, <2>1, <2>2, <2>3, <2>4, <2>5, <2>6, <2>7 DEF JobMove
<1>3. IsFiniteSet(WaitingIn(q)) /\ IsFiniteSet(Parked(q)) /\ MaxWaiting \in Nat
  <2>1. IsFiniteSet(Jobs) /\ WaitingIn(q) \subseteq Jobs /\ Parked(q) \subseteq Jobs
    BY HubAssumption DEF WaitingIn
  <2>2. QED
    BY <2>1, FS_Subset, HubAssumption
<1>4. CASE \E j \in Later(q) : Parks(j)
  <2>1. PICK j \in Later(q) : Parks(j)
    BY <1>4
  <2>2. Later(q) \subseteq WaitingIn(q) \cup {j}
    BY <2>1 DEF Parks, WaitingIn
  <2>3. Cardinality(WaitingIn(q)) \in Nat /\ Cardinality(WaitingIn(q)) < MaxWaiting
    <3>1. Cardinality(WaitingIn(q)) \in Nat
      BY <1>3, FS_CardinalityType
    <3>2. ~QueueFull(q)
      BY <2>1 DEF Parks
    <3>3. QED
      BY <1>1, <1>3, <3>1, <3>2 DEF QueueFull
  <2>4. /\ IsFiniteSet(WaitingIn(q) \cup {j})
        /\ Cardinality(WaitingIn(q) \cup {j}) \in Nat
        /\ Cardinality(WaitingIn(q) \cup {j}) <= Cardinality(WaitingIn(q)) + 1
    <3>1. IsFiniteSet(WaitingIn(q) \cup {j})
      BY <1>3, FS_AddElement
    <3>2. \/ Cardinality(WaitingIn(q) \cup {j}) = Cardinality(WaitingIn(q))
          \/ Cardinality(WaitingIn(q) \cup {j}) = Cardinality(WaitingIn(q)) + 1
      BY <1>3, FS_AddElement
    <3>3. QED
      BY <2>3, <3>1, <3>2
  <2>5. Cardinality(Later(q)) \in Nat /\ Cardinality(Later(q)) <= Cardinality(WaitingIn(q) \cup {j})
    BY <2>2, <2>4, FS_Subset, FS_CardinalityType
  <2>6. QED
    BY <1>3, <2>3, <2>4, <2>5
<1>5. CASE \A j \in Later(q) : ~Parks(j)
  <2>1. Later(q) \subseteq Parked(q)
    BY <1>2, <1>5
  <2>2. Cardinality(Parked(q)) \in Nat /\ Cardinality(Later(q)) \in Nat
        /\ Cardinality(Later(q)) <= Cardinality(Parked(q))
    BY <1>3, <2>1, FS_Subset, FS_CardinalityType
  <2>3. Parked(q) = {j \in WaitingIn(q) : entry[j].epoch = 0}
    BY DEF WaitingIn
  <2>4. Cardinality({j \in WaitingIn(q) : entry[j].epoch = 0}) <= MaxWaiting
    BY <1>1 DEF IInv, ParkedBounded
  <2>5. Cardinality(Parked(q)) <= MaxWaiting
    BY <2>3, <2>4
  <2> HIDE DEF Parked, Later
  <2>6. QED
    BY <1>3, <2>2, <2>5
<1>6. QED
  BY <1>4, <1>5

LEMMA NextSound == IInv /\ [Next]_vars => IInv'
<1> SUFFICES ASSUME IInv, [Next]_vars PROVE IInv'
  OBVIOUS
<1>1. TypeOK'
  BY NextTyped
<1>2. (\A j \in Jobs : EntrySound(entry[j], j) /\ PromiseSound(entry[j], promise[j]))'
  <2>1. ASSUME NEW j \in Jobs
        PROVE  EntrySound(entry'[j], j) /\ PromiseSound(entry'[j], promise'[j])
    <3>1. TypeOK /\ EntrySound(entry[j], j) /\ PromiseSound(entry[j], promise[j]) /\ JobMove(j)
      BY <2>1, StepMoves DEF IInv
    <3>2. QED
      BY <2>1, <3>1, EntryStep, PromiseStep
  <2>2. QED
    BY <2>1
<1>3. (\A w \in Workers : OpenedSound(w))'
  BY OpenedStep
<1>4. QED
  BY <1>1, <1>2, <1>3, TokensStep, DistinctStep, ParkedStep DEF IInv

\* The inductive invariant holds in every reachable state: entries, promises, tokens
\* and the attempts the mints opened agree.
THEOREM Inductive == Spec => []IInv
  BY InitSound, NextSound, PTL DEF Spec

-----------------------------------------------------------------------------
(* The safety invariants.                                                  *)

\* Every variable stays in its range, for any jobs, runners and bounds: epochs and
\* ages never overrun, and only the states of the ledger and of a promise are used.
THEOREM TypeCorrect == Spec => []TypeOK
<1>1. IInv => TypeOK
  BY DEF IInv
<1>2. QED
  BY <1>1, Inductive, PTL

\* No two workers of lease() ever carry the same lease token.
THEOREM TokensStayDistinct == Spec => []TokensDistinct
<1>1. IInv => TokensDistinct
  BY DEF IInv
<1>2. QED
  BY <1>1, Inductive, PTL

\* While complete() and fail() would honour a worker's token, the attempt the entry
\* names is the one mintAttempt opened for that worker's own lease.
THEOREM EvidenceAttributed == Spec => []EvidenceAttribution
<1>1. IInv => EvidenceAttribution
  <2>1. SUFFICES ASSUME IInv, NEW w \in Workers, worker[w].pc \in InRun,
                        HoldsWritableLease(entry[worker[w].job], w)
                 PROVE  /\ entry[worker[w].job].attempt = worker[w].opened
                        /\ worker[w].opened \in {0, worker[w].epoch}
    BY DEF EvidenceAttribution
  <2>2. HasToken(w) /\ worker[w].pc # "opening"
    BY <2>1 DEF IInv, PcSound, InRun
  <2>3. worker[w].epoch = entry[worker[w].job].epoch
    BY <2>1 DEF HoldsWritableLease, HoldsCurrentLease
  <2>4. OpenedSound(w)
    BY <2>1 DEF IInv
  <2>5. QED
    BY <2>2, <2>3, <2>4 DEF OpenedSound
<1>2. QED
  BY <1>1, Inductive, PTL

\* enqueue()'s backpressure bounds the jobs of a queue that were never leased,
\* whatever requeueExpired() puts back beside them.
THEOREM ParkedStaysBounded == Spec => []ParkedBounded
<1>1. IInv => ParkedBounded
  BY DEF IInv
<1>2. QED
  BY <1>1, Inductive, PTL

-----------------------------------------------------------------------------
(* The action properties.                                                  *)

\* After requestCancel() a job gets no further lease, and its promise never changes.
THEOREM CancelsRevoke == Spec => CancelRevokes
<1>1. ASSUME IInv, [Next]_vars, NEW j \in Jobs, entry[j].cancel
      PROVE  entry'[j].epoch = entry[j].epoch /\ promise'[j] = promise[j]
  <2>1. JobMove(j) /\ entry[j] \in Entry
    BY <1>1, StepMoves DEF IInv, TypeOK
  <2>2. EntrySound(entry[j], j) /\ PromiseSound(entry[j], promise[j])
    BY <1>1 DEF IInv
  <2>3. entry[j].st # "absent" /\ promise[j] # "pending" /\ promise[j] # "none"
    BY <1>1, <2>2 DEF EntrySound, PromiseSound, NoEntry
  <2>4. ~Parks(j) /\ ~Refuses(j) /\ ~Cancels(j)
    BY <1>1, <2>3 DEF Parks, Refuses, Cancels
  <2>5. CASE Rests(j)
    BY <2>1, <2>5, SweptFields DEF Rests, Unsettled
  <2>6. CASE Grants(j)
    <3>1. PICK x \in Entry : Swept(entry[j], x) /\ Waiting(x)
      BY <2>6 DEF Grants
    <3>2. QED
      BY <1>1, <2>1, <3>1, SweptFields DEF Waiting
  <2>7. CASE Ends(j)
    BY <2>1, <2>3, <2>7 DEF Ends, Settled, Entry
  <2>8. CASE Restamps(j)
    BY <1>1, <2>8 DEF Restamps, HoldsWritableLease
  <2>9. CASE Remembers(j)
    <3>1. PICK e : entry'[j] = [entry[j] EXCEPT !.last = e]
      BY <2>9 DEF Remembers
    <3>2. QED
      BY <2>1, <2>9, <3>1 DEF Remembers, Unsettled, Entry
  <2>10. QED
    BY <2>1, <2>4, <2>5, <2>6, <2>7, <2>8, <2>9 DEF JobMove
<1>2. IInv /\ [Next]_vars =>
        [\A j \in Jobs : entry[j].cancel =>
           entry'[j].epoch = entry[j].epoch /\ promise'[j] = promise[j]]_vars
  BY <1>1
<1>3. QED
  BY <1>2, Inductive, PTL DEF Spec, CancelRevokes

\* heartbeat() by the holder of the current, uncancelled lease is the only thing that
\* sets a lease's clock back without giving out a new lease.
THEOREM RenewalsFenced == Spec => OnlyHolderRenews
<1>1. ASSUME IInv, [Next]_vars, NEW j \in Jobs,
             entry'[j].epoch = entry[j].epoch, leaseAge'[j] < leaseAge[j]
      PROVE  /\ ~entry[j].cancel
             /\ \E w \in Workers : worker[w].job = j /\ worker[w].epoch = entry[j].epoch
  <2> TypeOK /\ \A k \in Jobs : EntrySound(entry[k], k)
    BY <1>1 DEF IInv
  <2>1. leaseAge[j] \in Nat /\ entry[j].epoch \in Nat
    <3>1. leaseAge[j] \in 0..LeaseTtl + 1 /\ entry[j] \in Entry
      BY DEF TypeOK
    <3>2. leaseAge[j] \in Nat
      BY <3>1, Bounds
    <3>3. entry[j].epoch \in Nat
      BY <3>1, Bounds DEF Entry
    <3>4. QED
      BY <3>2, <3>3
  <2>2. leaseAge'[j] # leaseAge[j]
    BY <1>1, <2>1
  <2>3. ASSUME NEW w \in Workers, Takes(w) PROVE FALSE
    <3>1. PICK x \in [Jobs -> Entry], S \in SUBSET Jobs :
            Sweeps(x) /\ \E i \in Jobs \ S : Take(w, Rejected(x, S), i)
      BY <2>3 DEF Takes
    <3>2. PICK i \in Jobs \ S : Take(w, Rejected(x, S), i)
      BY <3>1
    <3> DEFINE y == Rejected(x, S)
    <3>3. y \in [Jobs -> Entry] /\ y[i] = x[i] /\ i \in Jobs
      BY RejectedType DEF Rejected
    <3>4. Take(w, y, i) /\ Swept(entry[i], x[i])
      BY <3>1, <3>2 DEF Sweeps
    <3> HIDE DEF y
    <3>5. Taken(w, y, i)
      BY <3>3, <3>4, TakeParts
    <3>6. i = j
      BY <2>2, <3>5 DEF Taken, TypeOK
    <3>7. entry'[j] = Granted(y[j], RunnerOf[w]) /\ y[j] \in Entry /\ entry[j] \in Entry
      BY <3>3, <3>5, <3>6 DEF Taken, TypeOK
    <3>8. entry'[j].epoch = entry[j].epoch + 1
      BY <3>3, <3>4, <3>6, <3>7, SweptFields, GrantedFields
    <3>9. QED
      BY <1>1, <2>1, <3>8
  <2>4. ASSUME NEW w \in Workers, LeaseOwn(w) \/ LeasePool(w) PROVE FALSE
    BY <2>3, <2>4, LeaseOwnTakes, LeasePoolTakes
  <2>5. ASSUME NEW w \in Workers, Heartbeat(w)
        PROVE  /\ ~entry[j].cancel
               /\ worker[w].job = j /\ worker[w].epoch = entry[j].epoch
    BY <2>2, <2>5 DEF Heartbeat, HoldsWritableLease, HoldsCurrentLease, TypeOK
  <2>6. ASSUME Tick PROVE FALSE
    BY <1>1, <2>1, <2>6 DEF Tick
  <2>7. CASE UNCHANGED leaseAge
    BY <2>2, <2>7
  <2>8. QED
    BY <1>1, <2>4, <2>5, <2>6, <2>7
    DEF Next, DispatcherStep, WorkerStep, Enqueue, IdleTimeout, RequestCancel, HubCrash,
        LeaseNothing, MintOpened, MintStamped, MintEnded, Submit, Resubmit, FailJob, Report,
        WorkerCrash, vars
<1>2. IInv /\ [Next]_vars =>
        [\A j \in Jobs :
           (entry[j].leased /\ entry'[j].epoch = entry[j].epoch /\ leaseAge'[j] < leaseAge[j])
             => /\ ~entry[j].cancel
                /\ \E w \in Workers : worker[w].job = j /\ worker[w].epoch = entry[j].epoch]_vars
  BY <1>1
<1>3. QED
  BY <1>2, Inductive, PTL DEF Spec, OnlyHolderRenews

-----------------------------------------------------------------------------
(* The lease contract: each job's moves map to the contract's.             *)

\* The standing of an entry and its promise, as RunnerHub's refinement mapping has it.
Over(x) == x.st = "gone" \/ (x.st = "present" /\ x.cancel /\ ~x.leased)
Standing(x, p) ==
    [phase |-> IF x.st = "absent" THEN "absent"
               ELSE IF Over(x) THEN "ended"
               ELSE IF ~x.leased THEN "waiting"
               ELSE IF x.cancel THEN "revoked" ELSE "held",
     epoch |-> x.epoch,
     holder |-> IF x.leased THEN x.leasedBy ELSE NoRunner,
     verdict |-> IF Over(x) THEN Verdict(p) ELSE "none"]
Holder(x) == IF x.leased THEN x.leasedBy ELSE NoRunner

\* A standing by its fields, and a change of its phase alone.
Std(phase, epoch, holder, verdict) ==
    [phase |-> phase, epoch |-> epoch, holder |-> holder, verdict |-> verdict]

LEMMA StdPhase ==
  ASSUME NEW p, NEW e, NEW h, NEW v, NEW p2
  PROVE  [Std(p, e, h, v) EXCEPT !.phase = p2] = Std(p2, e, h, v)
<1> DEFINE s == Std(p, e, h, v)
<1>1. [s EXCEPT !.phase = p2]
        = [f \in {"phase", "epoch", "holder", "verdict"} |-> IF f = "phase" THEN p2 ELSE s[f]]
  BY DEF Std
<1>2. QED
  BY <1>1 DEF Std

\* The contract's moves, on standings written by their fields.
LEMMA StdMoves ==
  ASSUME NEW e, NEW h
  PROVE  /\ Contract!Returned(Std("held", e, h, "none"), Std("waiting", e, NoRunner, "none"))
         /\ Contract!Reported(Std("held", e, h, "none"), Std("ended", e, h, "completed"))
         /\ Contract!Cancelled(Std("waiting", e, h, "none"), Std("ended", e, h, "cancelled"))
         /\ Contract!Cancelled(Std("held", e, h, "none"), Std("revoked", e, h, "none"))
         /\ Contract!Reclaimed(Std("revoked", e, h, "none"), Std("ended", e, h, "cancelled"))
         /\ \A phase \in {"waiting", "held"} :
              Contract!Lapsed(Std(phase, e, h, "none"), Std("ended", e, h, "failed"))
         /\ \A phase \in {"waiting", "held"}, r \in Runners :
              Contract!Granted(Std(phase, e, h, "none"), Std("held", e + 1, r, "none"))
<1>1. \A p, v : Std(p, e, h, v).phase = p /\ Std(p, e, h, v).epoch = e
  BY DEF Std
<1>2. Contract!Returned(Std("held", e, h, "none"), Std("waiting", e, NoRunner, "none"))
  <2>1. [Std("held", e, h, "none") EXCEPT !.phase = "waiting", !.holder = NoRunner]
          = Std("waiting", e, NoRunner, "none")
    <3>1. [Std("held", e, h, "none") EXCEPT !.phase = "waiting", !.holder = NoRunner]
            = [f \in {"phase", "epoch", "holder", "verdict"} |->
                IF f = "phase" THEN "waiting" ELSE IF f = "holder" THEN NoRunner ELSE
                Std("held", e, h, "none")[f]]
      BY DEF Std
    <3>2. QED
      BY <3>1 DEF Std
  <2>2. QED
    BY <1>1, <2>1 DEF Contract!Returned
<1>3. Contract!Reported(Std("held", e, h, "none"), Std("ended", e, h, "completed"))
  <2>1. [Std("held", e, h, "none") EXCEPT !.phase = "ended", !.verdict = "completed"]
          = Std("ended", e, h, "completed")
    <3>1. [Std("held", e, h, "none") EXCEPT !.phase = "ended", !.verdict = "completed"]
            = [f \in {"phase", "epoch", "holder", "verdict"} |->
                IF f = "phase" THEN "ended" ELSE IF f = "verdict" THEN "completed" ELSE
                Std("held", e, h, "none")[f]]
      BY DEF Std
    <3>2. QED
      BY <3>1 DEF Std
  <2>2. QED
    BY <1>1, <2>1 DEF Contract!Reported
<1>4. /\ Contract!Cancelled(Std("waiting", e, h, "none"), Std("ended", e, h, "cancelled"))
      /\ Contract!Cancelled(Std("held", e, h, "none"), Std("revoked", e, h, "none"))
  <2>1. [Std("waiting", e, h, "none") EXCEPT !.phase = "ended", !.verdict = "cancelled"]
          = Std("ended", e, h, "cancelled")
    <3>1. [Std("waiting", e, h, "none") EXCEPT !.phase = "ended", !.verdict = "cancelled"]
            = [f \in {"phase", "epoch", "holder", "verdict"} |->
                IF f = "phase" THEN "ended" ELSE IF f = "verdict" THEN "cancelled" ELSE
                Std("waiting", e, h, "none")[f]]
      BY DEF Std
    <3>2. QED
      BY <3>1 DEF Std
  <2>2. [Std("held", e, h, "none") EXCEPT !.phase = "revoked"] = Std("revoked", e, h, "none")
    BY StdPhase
  <2>3. QED
    BY <1>1, <2>1, <2>2 DEF Contract!Cancelled
<1>5. Contract!Reclaimed(Std("revoked", e, h, "none"), Std("ended", e, h, "cancelled"))
  <2>1. [Std("revoked", e, h, "none") EXCEPT !.phase = "ended", !.verdict = "cancelled"]
          = Std("ended", e, h, "cancelled")
    <3>1. [Std("revoked", e, h, "none") EXCEPT !.phase = "ended", !.verdict = "cancelled"]
            = [f \in {"phase", "epoch", "holder", "verdict"} |->
                IF f = "phase" THEN "ended" ELSE IF f = "verdict" THEN "cancelled" ELSE
                Std("revoked", e, h, "none")[f]]
      BY DEF Std
    <3>2. QED
      BY <3>1 DEF Std
  <2>2. QED
    BY <1>1, <2>1 DEF Contract!Reclaimed
<1>6. ASSUME NEW phase \in {"waiting", "held"}
      PROVE  Contract!Lapsed(Std(phase, e, h, "none"), Std("ended", e, h, "failed"))
  <2>1. [Std(phase, e, h, "none") EXCEPT !.phase = "ended", !.verdict = "failed"]
          = Std("ended", e, h, "failed")
    <3>1. [Std(phase, e, h, "none") EXCEPT !.phase = "ended", !.verdict = "failed"]
            = [f \in {"phase", "epoch", "holder", "verdict"} |->
                IF f = "phase" THEN "ended" ELSE IF f = "verdict" THEN "failed" ELSE
                Std(phase, e, h, "none")[f]]
      BY DEF Std
    <3>2. QED
      BY <3>1 DEF Std
  <2>2. QED
    BY <1>1, <2>1 DEF Contract!Lapsed
<1>7. ASSUME NEW phase \in {"waiting", "held"}, NEW r \in Runners
      PROVE  Contract!Granted(Std(phase, e, h, "none"), Std("held", e + 1, r, "none"))
  <2>1. [Std(phase, e, h, "none") EXCEPT !.phase = "held", !.epoch = e + 1, !.holder = r]
          = Std("held", e + 1, r, "none")
    <3>1. [Std(phase, e, h, "none") EXCEPT !.phase = "held", !.epoch = e + 1, !.holder = r]
            = [f \in {"phase", "epoch", "holder", "verdict"} |->
                IF f = "phase" THEN "held" ELSE IF f = "epoch" THEN e + 1 ELSE IF f = "holder" THEN r ELSE
                Std(phase, e, h, "none")[f]]
      BY DEF Std
    <3>2. QED
      BY <3>1 DEF Std
  <2>2. QED
    BY <1>1, <2>1 DEF Contract!Granted
<1>8. QED
  BY <1>2, <1>3, <1>4, <1>5, <1>6, <1>7

\* The standing of an entry, by what the entry says.
LEMMA StandingOf ==
  ASSUME NEW x, NEW p
  PROVE  /\ Waiting(x) => Standing(x, p) = Std("waiting", x.epoch, Holder(x), "none")
         /\ x.st = "present" /\ x.leased /\ ~x.cancel =>
              Standing(x, p) = Std("held", x.epoch, Holder(x), "none")
         /\ x.st = "present" /\ x.leased /\ x.cancel =>
              Standing(x, p) = Std("revoked", x.epoch, Holder(x), "none")
         /\ Over(x) => Standing(x, p) = Std("ended", x.epoch, Holder(x), Verdict(p))
  BY DEF Waiting, Over, Standing, Holder, Std

\* Two entries that agree on what the contract sees have one standing.
LEMMA SameStanding ==
  ASSUME NEW x, NEW y, NEW p, y.st = x.st, y.leased = x.leased, y.leasedBy = x.leasedBy,
         y.cancel = x.cancel, y.epoch = x.epoch
  PROVE  Standing(y, p) = Standing(x, p)
  BY DEF Standing, Over

Keeping(j) == \/ Standing(entry'[j], promise'[j]) = Standing(entry[j], promise[j])
              \/ Contract!Moves(Standing(entry[j], promise[j]), Standing(entry'[j], promise'[j]))

\* enqueue() is the contract's Offer, and a refusal is nothing to it.
LEMMA ParksKeep ==
  ASSUME NEW j \in Jobs, EntrySound(entry[j], j), PromiseSound(entry[j], promise[j]),
         Parks(j) \/ Refuses(j)
  PROVE  Keeping(j)
<1>1. entry[j] = NoEntry
  BY DEF Parks, Refuses, PromiseSound, EntrySound
<1>2. Standing(NoEntry, promise[j]) = Std("absent", 0, NoRunner, "none")
  BY DEF Standing, NoEntry, Over, Std
<1>3. CASE Parks(j)
  <2>1. entry'[j] = [NoEntry EXCEPT !.st = "present", !.attempt = 1]
    BY <1>3 DEF Parks
  <2>2. Standing(entry'[j], promise'[j]) = Std("waiting", 0, NoRunner, "none")
    BY <2>1 DEF Standing, NoEntry, Over, Std
  <2>3. Contract!Offered(Std("absent", 0, NoRunner, "none"), Std("waiting", 0, NoRunner, "none"))
    <3>1. [Std("absent", 0, NoRunner, "none") EXCEPT !.phase = "waiting"]
            = Std("waiting", 0, NoRunner, "none")
      BY StdPhase
    <3>2. Std("absent", 0, NoRunner, "none").phase = "absent"
      BY DEF Std
    <3>3. QED
      BY <3>1, <3>2 DEF Contract!Offered
  <2>4. QED
    BY <1>1, <1>2, <2>2, <2>3 DEF Keeping, Contract!Moves
<1>4. CASE Refuses(j)
  <2>1. Standing(NoEntry, promise'[j]) = Std("absent", 0, NoRunner, "none")
    BY DEF Standing, NoEntry, Over, Std
  <2>2. QED
    BY <1>1, <1>2, <1>4, <2>1 DEF Refuses, Keeping
<1>5. QED
  BY <1>3, <1>4

\* requeueExpired() is its Return.
LEMMA RestsKeep ==
  ASSUME TypeOK, NEW j \in Jobs, Rests(j)
  PROVE  Keeping(j)
<1>1. entry[j] \in Entry /\ promise'[j] = promise[j]
  BY DEF TypeOK, Rests, Unsettled
<1>2. CASE entry'[j] = entry[j]
  BY <1>1, <1>2 DEF Keeping
<1>3. CASE entry'[j] # entry[j]
  <2>1. /\ entry[j].st = "present" /\ entry[j].leased /\ ~entry[j].cancel
        /\ entry'[j] = [entry[j] EXCEPT !.leased = FALSE]
    BY <1>3 DEF Rests, Swept
  <2>2. Waiting(entry'[j]) /\ entry'[j].epoch = entry[j].epoch /\ Holder(entry'[j]) = NoRunner
    BY <1>1, <2>1 DEF Waiting, Holder, Entry
  <2>3. /\ Standing(entry[j], promise[j]) = Std("held", entry[j].epoch, Holder(entry[j]), "none")
        /\ Standing(entry'[j], promise'[j]) = Std("waiting", entry[j].epoch, NoRunner, "none")
    BY <2>1, <2>2, StandingOf
  <2>4. QED
    BY <2>3, StdMoves DEF Keeping, Contract!Moves
<1>4. QED
  BY <1>2, <1>3

\* The take is its Grant, from the waiting line or over a lease that ran out.
LEMMA GrantsKeep ==
  ASSUME TypeOK, NEW j \in Jobs, Grants(j)
  PROVE  Keeping(j)
<1>1. PICK x \in Entry, r \in Runners :
        Swept(entry[j], x) /\ Waiting(x) /\ entry'[j] = Granted(x, r)
  BY DEF Grants
<1>2. entry[j] \in Entry
  BY DEF TypeOK
<1>3. /\ entry'[j].st = "present" /\ entry'[j].leased /\ ~entry'[j].cancel
      /\ entry'[j].epoch = entry[j].epoch + 1 /\ entry'[j].leasedBy = r
  BY <1>1, <1>2, SweptFields, GrantedFields DEF Waiting
<1>4. Standing(entry'[j], promise'[j]) = Std("held", entry[j].epoch + 1, r, "none")
  BY <1>3, StandingOf DEF Holder
<1>5. \/ Standing(entry[j], promise[j]) = Std("waiting", entry[j].epoch, Holder(entry[j]), "none")
      \/ Standing(entry[j], promise[j]) = Std("held", entry[j].epoch, Holder(entry[j]), "none")
  BY <1>1, StandingOf DEF Swept
<1>6. QED
  BY <1>1, <1>4, <1>5, StdMoves DEF Keeping, Contract!Moves

\* requestCancel() ends a waiting job and revokes a held one.
LEMMA CancelsKeep ==
  ASSUME TypeOK, NEW j \in Jobs, PromiseSound(entry[j], promise[j]), Cancels(j)
  PROVE  Keeping(j)
<1>1. entry[j] \in Entry
  BY DEF TypeOK
<1>2. entry[j].st = "present" /\ ~entry[j].cancel /\ entry'[j] = [entry[j] EXCEPT !.cancel = TRUE]
  BY DEF Cancels
<1>3. /\ entry'[j].st = "present" /\ entry'[j].cancel
      /\ entry'[j].leased = entry[j].leased /\ entry'[j].leasedBy = entry[j].leasedBy
      /\ entry'[j].epoch = entry[j].epoch
  BY <1>1, <1>2 DEF Entry
<1>4. promise'[j] = "cancelled"
  BY <1>2 DEF Cancels, PromiseSound, Settled
<1>5. Holder(entry'[j]) = Holder(entry[j]) /\ Verdict(promise'[j]) = "cancelled"
  BY <1>3, <1>4 DEF Holder, Verdict
<1>6. CASE entry[j].leased
  <2>1. Standing(entry[j], promise[j]) = Std("held", entry[j].epoch, Holder(entry[j]), "none")
    BY <1>2, <1>6, StandingOf
  <2>2. entry'[j].leased
    BY <1>3, <1>6
  <2>3. Standing(entry'[j], promise'[j]) = Std("revoked", entry'[j].epoch, Holder(entry'[j]), "none")
    BY <1>3, <2>2, StandingOf
  <2>4. QED
    BY <1>3, <1>5, <2>1, <2>3, StdMoves DEF Keeping, Contract!Moves
<1>7. CASE ~entry[j].leased
  <2>1. Waiting(entry[j]) /\ Over(entry'[j])
    BY <1>2, <1>3, <1>7 DEF Waiting, Over
  <2>2. /\ Standing(entry[j], promise[j]) = Std("waiting", entry[j].epoch, Holder(entry[j]), "none")
        /\ Standing(entry'[j], promise'[j]) = Std("ended", entry[j].epoch, Holder(entry[j]), "cancelled")
    BY <1>3, <1>5, <2>1, StandingOf
  <2>3. QED
    BY <2>2, StdMoves DEF Keeping, Contract!Moves
<1>8. QED
  BY <1>6, <1>7

\* A removal reports, lapses or reclaims; a cancelled job that waited had ended before.
LEMMA EndsKeep ==
  ASSUME TypeOK, NEW j \in Jobs, PromiseSound(entry[j], promise[j]), Ends(j)
  PROVE  Keeping(j)
<1> DEFINE e == entry[j].epoch
           h == Holder(entry[j])
           v == Verdict(promise'[j])
           before == Standing(entry[j], promise[j])
<1>1. entry[j] \in Entry /\ entry[j].st = "present" /\ entry'[j] = [entry[j] EXCEPT !.st = "gone"]
  BY DEF TypeOK, Ends
<1>2. Over(entry'[j]) /\ entry'[j].epoch = e /\ Holder(entry'[j]) = h
  BY <1>1 DEF Over, Holder, Entry
<1>3. Standing(entry'[j], promise'[j]) = Std("ended", e, h, v)
  BY <1>2, StandingOf
<1>4. CASE entry[j].cancel
  <2>1. promise[j] = "cancelled"
    BY <1>1, <1>4 DEF PromiseSound
  <2>2. promise'[j] = "cancelled" /\ v = "cancelled"
    BY <2>1 DEF Ends, Settled, Verdict
  <2>3. CASE entry[j].leased
    <3>1. before = Std("revoked", e, h, "none")
      BY <1>1, <1>4, <2>3, StandingOf
    <3>2. QED
      BY <1>3, <2>2, <3>1, StdMoves DEF Keeping, Contract!Moves
  <2>4. CASE ~entry[j].leased
    <3>1. Over(entry[j])
      BY <1>1, <1>4, <2>4 DEF Over
    <3>2. before = Std("ended", e, h, Verdict(promise[j]))
      BY <3>1, StandingOf
    <3>3. QED
      BY <1>3, <2>1, <2>2, <3>2 DEF Keeping
  <2>5. QED
    BY <2>3, <2>4
<1>5. CASE ~entry[j].cancel
  <2>1. promise[j] = "pending"
    BY <1>1, <1>5 DEF PromiseSound
  <2>2. CASE \E outcome \in {"no_runner", "lost", "mismatch", "failed"} :
               promise'[j] = Settled(promise[j], outcome)
    <3>1. v = "failed"
      BY <2>1, <2>2 DEF Settled, Verdict
    <3>2. before = Std("waiting", e, h, "none") \/ before = Std("held", e, h, "none")
      BY <1>1, <1>5, StandingOf DEF Waiting, Entry
    <3>3. QED
      BY <1>3, <3>1, <3>2, StdMoves DEF Keeping, Contract!Moves
  <2>3. CASE entry[j].leased /\ promise'[j] = Settled(promise[j], "resolved")
    <3>1. v = "completed"
      BY <2>1, <2>3 DEF Settled, Verdict
    <3>2. before = Std("held", e, h, "none")
      BY <1>1, <1>5, <2>3, StandingOf
    <3>3. QED
      BY <1>3, <3>1, <3>2, StdMoves DEF Keeping, Contract!Moves
  <2>4. QED
    BY <2>2, <2>3 DEF Ends
<1>6. QED
  BY <1>4, <1>5

\* What a mint writes is nothing to the contract.
LEMMA MintsKeep ==
  ASSUME TypeOK, NEW j \in Jobs, Restamps(j) \/ Remembers(j)
  PROVE  Keeping(j)
<1>1. entry[j] \in Entry /\ promise'[j] = promise[j]
  BY DEF TypeOK, Restamps, Remembers, Unsettled
<1>2. \/ \E e : entry'[j] = [entry[j] EXCEPT !.attempt = e]
      \/ \E e : entry'[j] = [entry[j] EXCEPT !.last = e]
  BY DEF Restamps, Remembers
<1>3. /\ entry'[j].st = entry[j].st /\ entry'[j].leased = entry[j].leased
      /\ entry'[j].leasedBy = entry[j].leasedBy /\ entry'[j].cancel = entry[j].cancel
      /\ entry'[j].epoch = entry[j].epoch
  BY <1>1, <1>2 DEF Entry
<1>4. QED
  BY <1>1, <1>3, SameStanding DEF Keeping

\* The in-process hub keeps the lease contract, for any jobs, runners and workers: a
\* grant is the next epoch of a job nobody holds or whose lease ran out, a completion
\* comes from an unrevoked holder, and a job ends once.
THEOREM HubKeepsContract == Spec => KeepsContract
<1> DEFINE mapped == [j \in Jobs |-> Standing(entry[j], promise[j])]
<1>1. Init => Contract!Init
  BY DEF Init, Contract!Init, Contract!Absent, NoEntry, Ended
<1>2. IInv /\ [Next]_vars => [Contract!Next]_mapped
  <2> SUFFICES ASSUME IInv, [Next]_vars PROVE Contract!Next
    OBVIOUS
  <2>1. ASSUME NEW j \in Jobs PROVE Keeping(j)
    <3>1. JobMove(j) /\ TypeOK /\ EntrySound(entry[j], j) /\ PromiseSound(entry[j], promise[j])
      BY <2>1, StepMoves DEF IInv
    <3>2. QED
      BY <2>1, <3>1, ParksKeep, RestsKeep, GrantsKeep, CancelsKeep, EndsKeep, MintsKeep DEF JobMove
  <2>2. QED
    BY <2>1 DEF Contract!Next, Keeping, Standing, Over, Ended
<1>3. QED
  BY <1>1, <1>2, Inductive, PTL DEF Spec, KeepsContract, Contract!Spec, Standing, Over, Ended
====
