----------------------------- MODULE Settlement -----------------------------
(***************************************************************************)
(* How the cases of a batch reach the ledger and the batch its end: the    *)
(* in-process driver (InProcessBatchDriver), the commit of a case          *)
(* (CaseOutcomeCommitter, PgCaseReceiptStore.commitCase), the recovery     *)
(* that takes the batch of a dead replica over (startup-recovery,          *)
(* RecoveryPlanner), and the cancel or the newer fire that stops it.       *)
(*                                                                         *)
(* A driver is named by the epoch it drives under; a takeover raises the   *)
(* epoch while the driver before it may only be paused.  Each driver opens *)
(* at most one child and one attempt per case.  A commit is a transaction  *)
(* under READ COMMITTED: nobody sees what it wrote before COMMIT, a rival  *)
(* claim of the case and every other write of the child wait for it, and   *)
(* nothing keeps the batch as it was when the transaction looked at it.    *)
(***************************************************************************)
EXTENDS Naturals

CONSTANTS Cases,
          MaxEpoch,   \* takeovers
          Faults      \* the store calls that may throw: "prove", "create", "commit", "adopt",
                      \* "settle"; "replan": an owed batch turns out to be unresumable

Epochs == 0 .. MaxEpoch
None == MaxEpoch + 1

ASSUME SettlementAssumption == MaxEpoch \in Nat

VARIABLES
    card,      \* the scorecard row
    child,     \* child[c][e]: the run row driver e opened for case c
    attempt,   \* attempt[c][e]: its row of the attempt ledger; dead is superseded
    receipt,   \* receipt[c]: the epoch of the child that answered the case
    drv,       \* drv[e]: the driver
    job,       \* job[e][c]: what the driver knows of a case
    owed,      \* owed[e]: the open children <<case, epoch>> a recovery has still to look at
    tx         \* tx[e][c]: the driver's commit under way, and the child it settles

vars == <<card, child, attempt, receipt, drv, job, owed, tx>>

Aborts == {"cancelled", "superseded"}
Answers == {"succeeded", "failed"}        \* a child that carries a result
Pairs == Cases \X Epochs
NoTx == [st |-> "none", kid |-> 0]

TypeOK ==
    /\ card \in [status : {"open", "succeeded", "failed"} \cup Aborts, epoch : Epochs,
                 summary : [Cases -> Epochs \cup {None}]]
    /\ child \in [Cases -> [Epochs -> {"none", "open", "interrupted", "stopped"} \cup Answers]]
    /\ attempt \in [Cases -> [Epochs -> {"none", "live", "committed", "failed", "dead"}]]
    /\ receipt \in [Cases -> Epochs \cup {None}]
    /\ drv \in [Epochs -> [pc : {"none", "claimed", "seeding", "owed", "burying", "driving", "joining",
                                 "settling", "failing", "reclaiming", "attaching", "closing", "ended", "crashed"},
                           owes : BOOLEAN,      \* the batch is on the worklist of DeferredRecoverySweep
                           aborted : BOOLEAN, saw : {"open"} \cup Aborts]]
    /\ job \in [Epochs -> [Cases -> {"todo", "running", "ran", "threw", "committed", "seeded", "lost", "unwritten"}]]
    /\ owed \in [Epochs -> SUBSET Pairs]
    /\ tx \in [Epochs -> [Cases -> [st : {"none", "settled", "failing", "adopted", "unknown"}, kid : Epochs]]]

\* A driver with nothing behind it, and what it knows then.
Gone(pc) == [pc |-> pc, owes |-> FALSE, aborted |-> FALSE, saw |-> "open"]
Fresh == [c \in Cases |-> "todo"]

Init ==
    /\ card = [status |-> "open", epoch |-> 0, summary |-> [c \in Cases |-> None]]
    /\ child = [c \in Cases |-> [e \in Epochs |-> "none"]]
    /\ attempt = [c \in Cases |-> [e \in Epochs |-> "none"]]
    /\ receipt = [c \in Cases |-> None]
    /\ drv = [e \in Epochs |-> Gone(IF e = 0 THEN "seeding" ELSE "none")]
    /\ job = [e \in Epochs |-> Fresh]
    /\ owed = [e \in Epochs |-> {}]
    /\ tx = [e \in Epochs |-> [c \in Cases |-> NoTx]]

\* Mutant: the fence is the epoch alone.
HoldsEpoch(e) == card.epoch = e

\* holdsBatch(), and the fence of every write to the batch: open, and still this driver's.
Holds(e) == card.status = "open" /\ card.epoch = e

\* Mutant: the claim overwrites.
ClaimOverwrites(c) == TRUE
\* The insert of the receipt finds none; it waits for a rival's, see Claimed.
Unclaimed(c) == receipt[c] = None

\* The rows that a transaction under way has locked.
InTx(e, c) == tx[e][c].st \in {"settled", "failing", "adopted"}
Claimed(c) == \E e \in Epochs : InTx(e, c)
ChildLocked(c, k) == \E e \in Epochs : InTx(e, c) /\ tx[e][c].kid = k

Goes(e, pc) == drv' = [drv EXCEPT ![e].pc = pc]
Ends(e, pc) ==
    /\ drv' = [drv EXCEPT ![e] = Gone(pc)]
    /\ job' = [job EXCEPT ![e] = Fresh]
    /\ owed' = [owed EXCEPT ![e] = {}]
Knows(e, c, what) == job' = [job EXCEPT ![e][c] = what]
Rows == <<child, attempt, receipt>>

-----------------------------------------------------------------------------
(* Recovery: the claim, and the seed of the next driver.                   *)

\* recoverOrphanedWork(): the owner counts as dead; the claim raises the epoch of an open batch.
Claim(e) ==
    /\ e > 0 /\ card.status = "open" /\ card.epoch = e - 1 /\ drv[e].pc = "none"
    /\ card' = [card EXCEPT !.epoch = e]
    /\ Goes(e, "claimed")
    /\ UNCHANGED <<Rows, job, owed, tx>>

OpenChildren == {p \in Pairs : child[p[1]][p[2]] = "open"}

\* The lists of children and receipts: an answer with its receipt is carried over.
List(e) ==
    /\ drv[e].pc \in {"claimed", "owed"}
    /\ owed' = [owed EXCEPT ![e] = OpenChildren]
    /\ job' = [job EXCEPT ![e] = [c \in Cases |-> IF receipt[c] # None THEN "seeded" ELSE @[c]]]
    /\ Goes(e, "seeding")
    /\ UNCHANGED <<card, Rows, tx>>

\* The loop takes the open children one at a time.
Examines(e, c, k) ==
    /\ drv[e].pc = "seeding" /\ <<c, k>> \in owed[e]
    /\ \A d \in Cases : tx[e][d].st = "none"
Done(e, c, k) == owed' = [owed EXCEPT ![e] = @ \ {<<c, k>>}]
\* The child was settled by somebody else: its result, if it has one, is the answer.
Follow(e, c, k) == IF child[c][k] \in Answers THEN Knows(e, c, "seeded") ELSE UNCHANGED job

\* Mutant: the refused interrupt is not followed up by a read of the child.
InterruptBlind(e, c, k) ==
    /\ Examines(e, c, k) /\ ~ChildLocked(c, k)
    /\ IF child[c][k] = "open" /\ card.epoch = e
       THEN child' = [child EXCEPT ![c][k] = "interrupted"]
       ELSE UNCHANGED child
    /\ Done(e, c, k)
    /\ UNCHANGED <<card, attempt, receipt, drv, job, tx>>

\* Mutant: the child is settled whatever it has become.
InterruptOver(e, c, k) ==
    /\ Examines(e, c, k) /\ ~ChildLocked(c, k)
    /\ child' = [child EXCEPT ![c][k] = IF card.epoch = e THEN "interrupted" ELSE @]
    /\ Done(e, c, k)
    /\ UNCHANGED <<card, attempt, receipt, drv, job, tx>>

\* Nothing of the child's work can be adopted: it is settled INTERRUPTED.
Interrupt(e, c, k) ==
    /\ Examines(e, c, k) /\ ~ChildLocked(c, k)
    /\ IF child[c][k] = "open" /\ card.epoch = e
       THEN child' = [child EXCEPT ![c][k] = "interrupted"] /\ UNCHANGED job
       ELSE Follow(e, c, k) /\ UNCHANGED child
    /\ Done(e, c, k)
    /\ UNCHANGED <<card, attempt, receipt, drv, tx>>

\* The child's work has a result: claim and child in one transaction, as in a driver's commit.
Adopt(e, c, k) ==
    /\ Examines(e, c, k) /\ ~Claimed(c)
    /\ IF Unclaimed(c) /\ child[c][k] = "open" /\ card.epoch = e
       THEN tx' = [tx EXCEPT ![e][c] = [st |-> "settled", kid |-> k]] /\ UNCHANGED <<job, owed>>
       ELSE /\ IF receipt[c] \in {None, k} THEN Follow(e, c, k) ELSE UNCHANGED job
            /\ Done(e, c, k)
            /\ UNCHANGED tx
    /\ UNCHANGED <<card, Rows, drv>>

\* The judges of an adopted result fail, or the claim throws while it waits for the commit
\* of another: the child stays as it is and the case is driven again.
PassOver(e, c, k) ==
    /\ "adopt" \in Faults /\ Examines(e, c, k)
    /\ Done(e, c, k)
    /\ UNCHANGED <<card, Rows, drv, job, tx>>

\* commitReadback(), after a commit that threw.
Readback(e, c) ==
    /\ tx[e][c].st = "unknown"
    /\ LET k == tx[e][c].kid
       IN /\ IF receipt[c] = k THEN Knows(e, c, "seeded") ELSE UNCHANGED job
          /\ Done(e, c, k)
    /\ tx' = [tx EXCEPT ![e][c] = NoTx]
    /\ UNCHANGED <<card, Rows, drv>>

Drop(e) == tx' = [tx EXCEPT ![e] = [c \in Cases |-> NoTx]]

\* The ledger or the cluster does not answer, or the resume throws: retry_later, and
\* DeferredRecoverySweep asks again.
Defer(e) ==
    /\ e > 0 /\ drv[e].pc \in {"claimed", "seeding"}
    /\ \A c \in Cases : ~InTx(e, c)
    /\ Drop(e)
    /\ drv' = [drv EXCEPT ![e].pc = "owed", ![e].owes = TRUE]
    /\ UNCHANGED <<card, Rows, job, owed>>

\* The boot's pass finds the batch unresumable, before the seeding, in it or after it: the
\* batch is settled failed under the epoch, then its open children.
Tombstone(e) ==
    /\ e > 0 /\ drv[e].pc \in {"claimed", "seeding"} /\ ~drv[e].owes
    /\ \A c \in Cases : ~InTx(e, c)
    /\ IF Holds(e) THEN /\ card' = [card EXCEPT !.status = "failed"]
                        /\ owed' = [owed EXCEPT ![e] = OpenChildren]
                        /\ Goes(e, "burying")
                        /\ UNCHANGED job
                   ELSE Ends(e, "ended") /\ UNCHANGED card
    /\ Drop(e)
    /\ UNCHANGED Rows

\* retryDeferredRecovery() forgets an owed batch that is no longer this driver's; and one
\* that is unresumable now, which nothing settles.
Discharge(e) ==
    /\ drv[e].owes
    /\ \/ drv[e].pc = "owed" /\ ~Holds(e)
       \/ drv[e].pc \in {"owed", "seeding"} /\ "replan" \in Faults
    /\ \A c \in Cases : ~InTx(e, c)
    /\ Ends(e, "ended") /\ Drop(e)
    /\ UNCHANGED <<card, Rows>>

Bury(e, c, k) ==
    /\ drv[e].pc = "burying" /\ <<c, k>> \in owed[e] /\ ~ChildLocked(c, k)
    /\ child' = [child EXCEPT ![c][k] = IF @ = "open" THEN "interrupted" ELSE @]
    /\ Done(e, c, k)
    /\ UNCHANGED <<card, attempt, receipt, drv, job, tx>>

Buried(e) ==
    /\ drv[e].pc = "burying" /\ owed[e] = {}
    /\ Ends(e, "ended")
    /\ UNCHANGED <<card, Rows, tx>>

-----------------------------------------------------------------------------
(* The driver.                                                             *)

\* track(): the fenced start.
Start(e) ==
    /\ drv[e].pc = "seeding" /\ owed[e] = {} /\ \A c \in Cases : tx[e][c].st = "none"
    /\ IF Holds(e) THEN /\ drv' = [drv EXCEPT ![e].pc = "driving", ![e].owes = FALSE]
                        /\ UNCHANGED <<job, owed>>
                   ELSE Ends(e, "ended")
    /\ UNCHANGED <<card, Rows, tx>>

\* A case is dispatched: proveAuthority(), whose refusal or fault aborts the whole fan-out;
\* then the attempt, and the child under the same fence.  A create that is refused or
\* throws leaves by the failure exit with the id of a child that is not there, which its
\* commit takes for a child that somebody else has settled.
Dispatch(e, c) ==
    /\ drv[e].pc = "driving" /\ job[e][c] = "todo" /\ ~drv[e].aborted
    /\ \/ /\ Holds(e)
          /\ attempt' = [attempt EXCEPT ![c][e] = "live"]
          /\ child' = [child EXCEPT ![c][e] = "open"]
          /\ Knows(e, c, "running")
          /\ UNCHANGED drv
       \/ /\ ~Holds(e) \/ "prove" \in Faults
          /\ Knows(e, c, "lost")
          /\ drv' = [drv EXCEPT ![e].aborted = TRUE]
          /\ UNCHANGED <<attempt, child>>
       \/ /\ ~Holds(e) \/ "create" \in Faults
          /\ attempt' = [attempt EXCEPT ![c][e] = "dead"]
          /\ Knows(e, c, "lost")
          /\ UNCHANGED <<child, drv>>
    /\ UNCHANGED <<card, receipt, owed, tx>>

\* The case's work returns.  The result counts if the batch is still held.
Return(e, c) ==
    /\ job[e][c] = "running"
    /\ \/ Holds(e) /\ Knows(e, c, "ran") /\ UNCHANGED drv
       \/ /\ ~Holds(e) \/ "prove" \in Faults
          /\ Knows(e, c, "threw")
          /\ drv' = [drv EXCEPT ![e].aborted = TRUE]
    /\ UNCHANGED <<card, Rows, owed, tx>>

Fail(e, c) ==
    /\ job[e][c] = "running"
    /\ Knows(e, c, "threw")
    /\ UNCHANGED <<card, Rows, drv, owed, tx>>

-----------------------------------------------------------------------------
(* finalizeCaseAttempt(), a transaction: the claim of the case with the     *)
(* child's terminal write, the attempt's, and COMMIT.                       *)

\* settleChildOn(): the child is open, and the batch has this driver's epoch.
Fenced(e, c) == child[c][e] = "open" /\ card.epoch = e
Loses(c, e) == attempt' = [attempt EXCEPT ![c][e] = IF @ = "live" THEN "dead" ELSE @]

\* The receipt may already name this very child, which a recovery adopted: that is a commit.
CommitCase(e, c) ==
    /\ job[e][c] \in {"ran", "threw"}
    /\ tx[e][c].st = "none" /\ ~Claimed(c)
    /\ IF Unclaimed(c) /\ Fenced(e, c)
       THEN /\ tx' = [tx EXCEPT ![e][c] = [st |-> IF job[e][c] = "ran" THEN "settled" ELSE "failing", kid |-> e]]
            /\ UNCHANGED <<attempt, job>>
       ELSE /\ UNCHANGED tx
            /\ IF receipt[c] = e THEN Knows(e, c, "committed") /\ UNCHANGED attempt
                                 ELSE Knows(e, c, "lost") /\ Loses(c, e)
    /\ UNCHANGED <<card, child, receipt, drv, owed>>

\* What a commit that came to nothing is to the driver, and to a recovery.
Rollback(e, c) ==
    IF drv[e].pc = "seeding"
    THEN tx' = [tx EXCEPT ![e][c].st = "unknown"] /\ UNCHANGED job
    ELSE tx' = [tx EXCEPT ![e][c] = NoTx] /\ Knows(e, c, "unwritten")

\* adoptAtSettlement(): the attempt is live and the batch open under the settling epoch.
Adopts(e, c) == attempt[c][tx[e][c].kid] = "live" /\ Holds(e)

AdoptAttempt(e, c) ==
    /\ tx[e][c].st = "settled"
    /\ IF Adopts(e, c) THEN tx' = [tx EXCEPT ![e][c].st = "adopted"] /\ UNCHANGED job
                       ELSE Rollback(e, c)
    /\ UNCHANGED <<card, Rows, drv, owed>>

\* The rows as COMMIT shows them.
Writes(e, c, k, ok) ==
    /\ receipt' = [receipt EXCEPT ![c] = k]
    /\ child' = [child EXCEPT ![c][k] = IF ok THEN "succeeded" ELSE "failed"]
    /\ attempt' = [attempt EXCEPT ![c][k] = IF ok THEN "committed" ELSE IF @ = "live" THEN "failed" ELSE @]

CommitLands(e, c) ==
    /\ tx[e][c].st \in {"adopted", "failing"}
    /\ Writes(e, c, tx[e][c].kid, tx[e][c].st = "adopted")
    /\ tx' = [tx EXCEPT ![e][c] = NoTx]
    /\ IF drv[e].pc = "seeding" THEN Knows(e, c, "seeded") /\ Done(e, c, tx[e][c].kid)
                                ELSE Knows(e, c, "committed") /\ UNCHANGED owed
    /\ UNCHANGED <<card, drv>>

\* The connection fails, before COMMIT or after it.
CommitThrows(e, c) ==
    /\ "commit" \in Faults /\ (InTx(e, c) \/ job[e][c] \in {"ran", "threw"})
    /\ \/ UNCHANGED Rows
       \/ /\ tx[e][c].st \in {"adopted", "failing"}
          /\ Writes(e, c, tx[e][c].kid, tx[e][c].st = "adopted")
    /\ Rollback(e, c)
    /\ UNCHANGED <<card, drv, owed>>

-----------------------------------------------------------------------------
(* The driver's end.                                                       *)

Settled(e, c) == job[e][c] \in {"committed", "seeded", "lost", "unwritten"}

\* Mutant: the cases an abort did not fire are waited for.
SuiteReturnsAll(e) ==
    /\ drv[e].pc = "driving"
    /\ \A c \in Cases : job[e][c] \notin {"running", "todo"}
    /\ Goes(e, IF drv[e].aborted THEN "reclaiming" ELSE "joining")
    /\ UNCHANGED <<card, Rows, job, owed, tx>>

\* runSuite() returns: every case was run, or the rest were not fired.
SuiteReturns(e) ==
    /\ drv[e].pc = "driving"
    /\ \A c \in Cases : job[e][c] # "running" /\ (job[e][c] = "todo" => drv[e].aborted)
    /\ Goes(e, IF drv[e].aborted THEN "reclaiming" ELSE "joining")
    /\ UNCHANGED <<card, Rows, job, owed, tx>>

\* Mutant: the driver counts what it has.
WholeAsIs(e) == \E c \in Cases : job[e][c] # "unwritten"

\* No settle went unwritten, and caseSetDelta(): the receipts read are exactly the plan's.
Whole(e) == \A c \in Cases : job[e][c] # "unwritten" /\ receipt[c] # None

\* The settles are joined.  A lost case ends the driver without a word; an unwritten one,
\* or a receipt that is missing, fails the batch; else the receipts read are the summary.
Join(e) ==
    /\ drv[e].pc = "joining" /\ \A c \in Cases : Settled(e, c)
    /\ IF \E c \in Cases : job[e][c] = "lost"
       THEN Ends(e, "ended")
       ELSE /\ Goes(e, IF Whole(e) THEN "settling" ELSE "failing")
            /\ UNCHANGED <<job, owed>>
    /\ UNCHANGED <<card, Rows, tx>>

\* The terminal write, over an open batch under the epoch.
Verdict(e) ==
    IF ~Holds(e) THEN card
    ELSE IF drv[e].pc = "failing" THEN [card EXCEPT !.status = "failed"]
    ELSE [card EXCEPT !.status = "succeeded", !.summary = receipt]

\* An abort in between wins; the record was read before the signal is looked at, and may
\* have been open then.
SettleBatch(e) ==
    /\ drv[e].pc \in {"settling", "failing"}
    /\ IF drv[e].aborted
       THEN /\ \E saw \in ({"open"} \cup Aborts) \cap {"open", card.status} :
                  drv' = [drv EXCEPT ![e].pc = IF @ = "settling" THEN "attaching" ELSE "closing", ![e].saw = saw]
            /\ UNCHANGED <<card, job, owed>>
       ELSE card' = Verdict(e) /\ Ends(e, "ended")
    /\ UNCHANGED <<Rows, tx>>

\* An aborted driver joins its settles and reads the record: canSettleAborted().
Reclaim(e) ==
    /\ drv[e].pc = "reclaiming" /\ \A c \in Cases : Settled(e, c) \/ job[e][c] = "todo"
    /\ IF card.status \in Answers
       THEN Ends(e, "ended")
       ELSE /\ drv' = [drv EXCEPT ![e].pc = "attaching", ![e].saw = card.status]
            /\ UNCHANGED <<job, owed>>
    /\ UNCHANGED <<card, Rows, tx>>

\* ABORTABLE_SETTLE_STATUSES, under the epoch.
Attachable(e) == card.epoch = e /\ card.status \in {"open"} \cup Aborts

\* settleAborted(): cancelled stays, everything else is superseded.
Stopped(e) ==
    IF Attachable(e)
    THEN [card EXCEPT !.status = IF drv[e].saw = "cancelled" THEN "cancelled" ELSE "superseded"]
    ELSE card

Attach(e) ==
    /\ drv[e].pc \in {"attaching", "closing"}
    /\ card' = Stopped(e)
    /\ Ends(e, "ended")
    /\ UNCHANGED <<Rows, tx>>

\* After the join a read of the ledger or of the record throws, or a terminal write, before
\* it took effect or after: the driver's catch settles the batch.  (A throw out of that is
\* caught by nobody and ends the process, see Crash.)
SettleThrows(e) ==
    /\ "settle" \in Faults
    /\ \A c \in Cases : Settled(e, c) \/ job[e][c] = "todo"
    /\ \/ drv[e].pc = "joining" /\ (\A c \in Cases : job[e][c] # "lost") /\ UNCHANGED card
       \/ drv[e].pc = "reclaiming" /\ UNCHANGED card
       \/ drv[e].pc = "settling" /\ card' \in {card, Verdict(e)}
       \/ drv[e].pc = "attaching" /\ card' \in {card, Stopped(e)}
    /\ Goes(e, "failing")
    /\ UNCHANGED <<Rows, job, owed, tx>>

-----------------------------------------------------------------------------
(* Cancel, supersede, and crashes.                                         *)

\* cancel(): the batch is terminal, its epoch as it was.  supersedeInFlight() does the same
\* in the name of a newer fire; what follows does not tell them apart.
Cancel ==
    /\ card.status = "open"
    /\ card' = [card EXCEPT !.status = "cancelled"]
    /\ UNCHANGED <<Rows, drv, job, owed, tx>>

\* stopInFlight(): the controller of a driver in this process, and the open children.
\* (It revokes the attempts as well, which no commit under a stopped batch would adopt.)
Signal(e) ==
    /\ card.status \in Aborts /\ ~drv[e].aborted
    /\ drv[e].pc \in {"driving", "joining", "settling", "failing"}
    /\ drv' = [drv EXCEPT ![e].aborted = TRUE]
    /\ UNCHANGED <<card, Rows, job, owed, tx>>

StopChild(c, k) ==
    /\ card.status \in Aborts /\ child[c][k] = "open" /\ ~ChildLocked(c, k)
    /\ child' = [child EXCEPT ![c][k] = "stopped"]
    /\ UNCHANGED <<card, attempt, receipt, drv, job, owed, tx>>

\* The process dies, of a throw that nobody catches or from outside, and the database rolls
\* back what it had under way.  The last driver of the instance lives.
Crash(e) ==
    /\ e < MaxEpoch /\ drv[e].pc \notin {"none", "ended", "crashed"}
    /\ Ends(e, "crashed")
    /\ tx' = [tx EXCEPT ![e] = [c \in Cases |-> NoTx]]
    /\ UNCHANGED <<card, Rows>>

-----------------------------------------------------------------------------
Step(e) ==
    \/ List(e) \/ Buried(e) \/ Start(e) \/ SuiteReturns(e) \/ Join(e) \/ SettleBatch(e) \/ Reclaim(e) \/ Attach(e)
    \/ \E c \in Cases :
          \/ Readback(e, c) \/ Dispatch(e, c) \/ Return(e, c) \/ Fail(e, c)
          \/ CommitCase(e, c) \/ AdoptAttempt(e, c) \/ CommitLands(e, c) \/ CommitThrows(e, c)
          \/ \E k \in Epochs : Interrupt(e, c, k) \/ Adopt(e, c, k) \/ PassOver(e, c, k) \/ Bury(e, c, k)

Next ==
    \/ \E e \in Epochs : Claim(e) \/ Step(e) \/ Signal(e) \/ Crash(e)
    \/ \E e \in Epochs : Defer(e) \/ Tombstone(e) \/ Discharge(e) \/ SettleThrows(e)
    \/ Cancel
    \/ \E c \in Cases, k \in Epochs : StopChild(c, k)

Spec == Init /\ [][Next]_vars

-----------------------------------------------------------------------------
\* The three ledgers of a case tell one story, whoever took the batch over, cancelled it or
\* crashed: the receipt names a child that ended with a result and whose attempt ended
\* with it, and no other child of the case ever ended with one.
OneAnswer ==
    \A c \in Cases, k \in Epochs :
       /\ receipt[c] = k => child[c][k] \in Answers
       /\ child[c][k] \in Answers => receipt[c] = k
       /\ child[c][k] = "succeeded" <=> attempt[c][k] = "committed"

\* A batch that succeeded counted an answer to every case, the ones its driver inherited
\* from a predecessor included, and they are the ledger's still.
SummaryStands ==
    card.status = "succeeded" => \A c \in Cases : receipt[c] # None /\ card.summary[c] = receipt[c]

\* First terminal write wins: a verdict on the batch is never rewritten, a stopped batch
\* never gets one, and the answer of a case is never replaced.
FirstTerminalWins ==
    [][/\ card.status \in Answers => card'.status = card.status
       /\ card.status \in Aborts => card'.status \in Aborts
       /\ \A c \in Cases : receipt[c] # None => receipt'[c] = receipt[c]]_vars

\* A driver never leaves a batch that is still its own without an end: the answer lost,
\* on which it goes without a word, means that somebody else has the batch.  A create
\* that throws, or a recovery whose commit or judges fail under it, breaks it.
NeverStranded ==
    \A e \in Epochs : drv[e].pc = "ended" => ~Holds(e)

\* The compute of a case with an answer is not paid for again: no driver opens a child
\* for a case that has its receipt, although the commit of the driver before may land
\* during the recovery.
NoRework ==
    [][\A c \in Cases, k \in Epochs :
          child[c][k] = "none" /\ child'[c][k] = "open" => receipt[c] = None]_vars

\* The batch keeps its contract: read through the receipts, every case is answered once,
\* one at a time, with what its child ended with, and the summary of a batch that
\* succeeded is all of these answers, whoever committed them.
AnswerOf(c) == IF receipt[c] = None THEN "none" ELSE child[c][receipt[c]]
ReportOf(c) == IF card.summary[c] = None THEN "none" ELSE child[c][card.summary[c]]
Contract == INSTANCE BatchContract WITH
    status <- card.status,
    answer <- [c \in Cases |-> AnswerOf(c)],
    reported <- [c \in Cases |-> ReportOf(c)]
KeepsBatchContract == Contract!Spec

-----------------------------------------------------------------------------
(* Liveness.  A process that lives takes its steps, the database answers    *)
(* them, and the work of a case ends.                                       *)
FairSpec == Spec /\ \A e \in Epochs : WF_vars(Step(e))

\* A driver that has started comes to an end, although its commits wait for the
\* transactions of a driver before it, and its cases for each other.
DriverEnds ==
    \A e \in Epochs : drv[e].pc = "driving" ~> drv[e].pc \in {"ended", "crashed"}
=============================================================================
