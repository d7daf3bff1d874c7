------------------------------ MODULE Teardown ------------------------------
(***************************************************************************)
(* How the work of a cancelled batch is brought to an end while it is       *)
(* being started: the managed lanes (Kubernetes and Nomad) that place a     *)
(* case, the attempt ledger they ask for leave (PgExecutionAttemptStore),   *)
(* and the teardown (ScorecardService.stopInFlight) that a cancel, its      *)
(* retries and the CancellationCoordinator run until it can certify that    *)
(* nothing of the batch runs.                                               *)
(*                                                                          *)
(* Each work is one dispatch: a child run, an attempt row, and the one      *)
(* cluster object its reservation names.  The statements of the ledger      *)
(* read the batch in their snapshot and write the row later; the cluster    *)
(* and the database may be out of reach, and a lost reply does not tell     *)
(* whether the call was carried out.                                        *)
(***************************************************************************)
EXTENDS Naturals

CONSTANTS Works,
          Nomad,      \* the works on a Nomad cluster; the others are on Kubernetes
          Tearers,    \* the processes that tear down: the canceller's, its retry's, the leader's
          Mortal      \* those of them that may die on the way

ASSUME TeardownAssumption == Nomad \subseteq Works /\ Mortal \subseteq Tearers

VARIABLES
    batch,     \* the scorecard row: "open" or "cancelled"
    child,     \* child[w]: the run row
    att,       \* att[w]: the attempt row; "aged" is active for longer than ACTIVATION_LEASE_MS
    handle,    \* handle[w]: the row names its cluster object (runtime_work), and its child (child_run_id)
    sub,       \* sub[w]: the submitter, in its process
    obj,       \* obj[w]: the cluster object; "dying" in its grace period after an accepted stop
    op,        \* the cancellation operation
    td,        \* td[t]: a teardown
    answers    \* the cluster and the database are within reach

vars == <<batch, child, att, handle, sub, obj, op, td, answers>>

Terminal == {"done", "revoked"}       \* done: committed, failed or superseded
MayStillCreateWork == {"created", "reserved", "active", "aged"}
Unsettled == {"queued", "running"}
Idle == [pc |-> "idle", kids |-> {}, bare |-> {}, todo |-> {}, probed |-> {}, bad |-> FALSE]

TypeOK ==
    /\ batch \in {"open", "cancelled"}
    /\ child \in [Works -> {"none", "settled"} \cup Unsettled]
    /\ att \in [Works -> {"none", "executing"} \cup MayStillCreateWork \cup Terminal]
    /\ handle \in [Works -> {"none", "placed", "attributed"}]
    /\ sub \in [Works -> {"none", "opened", "reserving", "reserved", "applied", "activating",
                          "active", "started", "stamping", "marking", "waiting", "reclaiming", "over", "gone"}]
    /\ obj \in [Works -> {"none", "inert", "running", "dying"}]
    /\ op \in {"none", "requested", "completed"}
    /\ td \in [Tearers -> [pc : {"idle", "list", "handles", "kill", "settle", "pending", "revoke"},
                           kids : SUBSET Works, bare : SUBSET Works, todo : SUBSET Works, probed : SUBSET Works, bad : BOOLEAN]]
    /\ answers \in BOOLEAN

Init ==
    /\ batch = "open"
    /\ child = [w \in Works |-> "none"]
    /\ att = [w \in Works |-> "none"]
    /\ handle = [w \in Works |-> "none"]
    /\ sub = [w \in Works |-> "none"]
    /\ obj = [w \in Works |-> "none"]
    /\ op = "none"
    /\ td = [t \in Tearers |-> Idle]
    /\ answers = TRUE

Lane == <<batch, child, op, td, answers>>
Goes(w, pc) == sub' = [sub EXCEPT ![w] = pc]
Stamps(w, state) == att' = [att EXCEPT ![w] = state]

-----------------------------------------------------------------------------
(* The submitter: dispatch() of the managed lanes.                          *)

\* The driver opens the attempt and the child of a case, under the batch's fence.
Open(w) ==
    /\ batch = "open" /\ sub[w] = "none"
    /\ child' = [child EXCEPT ![w] = "queued"]
    /\ Stamps(w, "created") /\ Goes(w, "opened")
    /\ UNCHANGED <<batch, handle, obj, op, td, answers>>

\* reserveWork(): one statement, that reads the batch (PARENT_AUTHORIZES) ...
ReserveReads(w) ==
    /\ sub[w] = "opened"
    /\ Goes(w, IF answers /\ batch = "open" THEN "reserving" ELSE "over")
    /\ UNCHANGED <<Lane, att, handle, obj>>

\* ... and writes the row, if it is still as it was read; the reply may be lost.
ReserveWrites(w) ==
    /\ sub[w] = "reserving"
    /\ IF att[w] = "created"
       THEN /\ Stamps(w, "reserved") /\ handle' = [handle EXCEPT ![w] = "placed"]
            /\ Goes(w, IF answers THEN "reserved" ELSE "over")
       ELSE Goes(w, "over") /\ UNCHANGED <<att, handle>>
    /\ UNCHANGED <<Lane, obj>>

\* applyJob(): the object is born inert (suspended, or with a count of zero).  A create
\* that threw may have created: reclaimByName() looks, if the cluster lets it.
Apply(w) ==
    /\ sub[w] = "reserved"
    /\ \/ answers /\ obj' = [obj EXCEPT ![w] = "inert"] /\ Goes(w, "applied")
       \/ ~answers /\ obj' = [obj EXCEPT ![w] = "inert"] /\ Goes(w, "over")
       \/ ~answers /\ Goes(w, "over") /\ UNCHANGED obj
    /\ UNCHANGED <<Lane, att, handle>>

\* activateWork(): the same kind of statement; a refusal reclaims the object.
ActivateReads(w) ==
    /\ sub[w] = "applied"
    /\ Goes(w, IF answers /\ batch = "open" THEN "activating" ELSE "reclaiming")
    /\ UNCHANGED <<Lane, att, handle, obj>>

ActivateWrites(w) ==
    /\ sub[w] = "activating"
    /\ IF att[w] = "reserved" THEN Stamps(w, "active") /\ Goes(w, IF answers THEN "active" ELSE "reclaiming")
                              ELSE Goes(w, "reclaiming") /\ UNCHANGED att
    /\ UNCHANGED <<Lane, handle, obj>>

\* Mutant: an object that is gone is created again (a start without EnforceIndex).
ResumedAnew(w) == obj[w] \in {"inert", "none"}
\* resumeJob(), or the start with EnforceIndex: of the object that was registered.
Resumed(w) == obj[w] = "inert"

Resume(w) ==
    /\ sub[w] = "active"
    /\ \/ Resumed(w) /\ obj' = [obj EXCEPT ![w] = "running"] /\ Goes(w, IF answers THEN "started" ELSE "reclaiming")
       \/ (~Resumed(w) \/ ~answers) /\ Goes(w, "reclaiming") /\ UNCHANGED obj
    /\ UNCHANGED <<Lane, att, handle>>

\* onStarted(): two writes that nobody waits for, in either order; each may fail unseen.
\* One stamps the attempt executing, and with it the child it runs for ...
Named(w) == IF handle[w] = "placed" THEN "attributed" ELSE handle[w]

StampExecuting(w) ==
    /\ sub[w] \in {"started", "stamping"}
    /\ \/ /\ att[w] \in MayStillCreateWork
          /\ Stamps(w, "executing") /\ handle' = [handle EXCEPT ![w] = Named(w)]
       \/ (att[w] \notin MayStillCreateWork \/ ~answers) /\ UNCHANGED <<att, handle>>
    /\ Goes(w, IF sub[w] = "started" THEN "marking" ELSE "waiting")
    /\ UNCHANGED <<Lane, obj>>

\* ... the other flips the child from queued to running.
MarkRunning(w) ==
    /\ sub[w] \in {"started", "marking"}
    /\ \/ child' = [child EXCEPT ![w] = IF @ = "queued" THEN "running" ELSE @]
       \/ ~answers /\ UNCHANGED child
    /\ Goes(w, IF sub[w] = "started" THEN "stamping" ELSE "waiting")
    /\ UNCHANGED <<batch, att, handle, obj, op, td, answers>>

\* The container ends by itself, or its grace period does.
Exits(w) ==
    /\ obj[w] \in {"running", "dying"}
    /\ obj' = [obj EXCEPT ![w] = "none"]
    /\ UNCHANGED <<Lane, att, handle, sub>>

\* The wait ends: the object ended, or the abort signal came, or the cluster was out of reach.
WaitEnds(w) ==
    /\ sub[w] = "waiting" /\ (obj[w] \in {"none", "dying"} \/ batch = "cancelled" \/ ~answers)
    /\ Goes(w, "reclaiming")
    /\ UNCHANGED <<Lane, att, handle, obj>>

\* cancelQueued() and the abort: a dispatch that has not begun does not begin.
Dropped(w) ==
    /\ sub[w] = "opened" /\ batch = "cancelled"
    /\ Goes(w, "over")
    /\ UNCHANGED <<Lane, att, handle, obj>>

\* What an accepted stop leaves of an object.
Stopped(w) == CASE obj[w] = "running" -> "dying"
                [] obj[w] = "inert" -> "none"
                [] OTHER -> obj[w]

\* The finally of the lane: whatever this dispatch made, it deletes.
Reclaim(w) ==
    /\ sub[w] = "reclaiming"
    /\ \/ obj' = [obj EXCEPT ![w] = Stopped(w)]
       \/ ~answers /\ UNCHANGED obj
    /\ Goes(w, "over")
    /\ UNCHANGED <<Lane, att, handle>>

\* finalizeCaseAttempt(): the child and the attempt are settled, unless the store refuses.
SettleCase(w) ==
    /\ sub[w] = "over"
    /\ \/ /\ child' = [child EXCEPT ![w] = "settled"]
          /\ IF att[w] \in Terminal
             THEN UNCHANGED <<att, handle>>
             ELSE Stamps(w, "done") /\ handle' = [handle EXCEPT ![w] = Named(w)]
       \/ (~answers \/ batch = "cancelled") /\ UNCHANGED <<child, att, handle>>
    /\ Goes(w, "gone")
    /\ UNCHANGED <<batch, obj, op, td, answers>>

\* The submitter's process dies, and leaves everything as it is.
Crash(w) ==
    /\ sub[w] \notin {"none", "gone"}
    /\ Goes(w, "gone")
    /\ UNCHANGED <<Lane, att, handle, obj>>

\* An activation is as old as its lease.
Ages(w) ==
    /\ att[w] = "active"
    /\ Stamps(w, "aged")
    /\ UNCHANGED <<Lane, handle, sub, obj>>

-----------------------------------------------------------------------------
(* The teardown.                                                            *)

Ledgers == <<batch, handle, sub, answers>>
At(t, pc) == td[t].pc = pc
Sets(t, r) == td' = [td EXCEPT ![t] = r]

\* cancel(): the decision and the operation in one transaction; then the teardown.
Cancel(t) ==
    /\ batch = "open" /\ At(t, "idle") /\ answers
    /\ batch' = "cancelled" /\ op' = "requested"
    /\ Sets(t, [Idle EXCEPT !.pc = "list"])
    /\ UNCHANGED <<child, att, handle, sub, obj, answers>>

\* A retried cancel, and reconcile() of an operation that is owed: request() is best-effort.
Begin(t) ==
    /\ batch = "cancelled" /\ At(t, "idle")
    /\ op' = IF answers THEN "requested" ELSE op
    /\ Sets(t, [Idle EXCEPT !.pc = "list"])
    /\ UNCHANGED <<Ledgers, child, att, obj>>

\* The teardown throws: the operation stays owed (fail() is best-effort).
Throws(t) ==
    /\ op' = IF answers THEN "requested" ELSE op
    /\ Sets(t, Idle)

ListChildren(t) ==
    /\ At(t, "list")
    /\ IF answers
       THEN /\ Sets(t, [td[t] EXCEPT !.pc = "handles", !.kids = {w \in Works : child[w] \in Unsettled},
                                     !.bare = {w \in Works : child[w] = "running"}])
            /\ UNCHANGED op
       ELSE Throws(t)
    /\ UNCHANGED <<Ledgers, child, att, obj>>

\* placedWork(): every handle the ledger has, whatever its child reads; unreadable is no
\* zero.  What stays bare is a child that was listed as running and is nobody's work here.
PlacedWork(t) ==
    /\ At(t, "handles")
    /\ IF answers
       THEN /\ Sets(t, [td[t] EXCEPT !.pc = "kill", !.todo = {w \in Works : handle[w] # "none"},
                                     !.bare = {w \in @ : handle[w] # "attributed"}])
            /\ UNCHANGED op
       ELSE Throws(t)
    /\ UNCHANGED <<Ledgers, child, att, obj>>

\* killWork() answers absent: on Kubernetes as soon as the Job object is deleted.
Absent(w) == obj[w] = "none" \/ (obj[w] = "dying" /\ w \notin Nomad)

\* A kill that is answered stopped is read back before the next; an answer that does not
\* come is a failure, whatever the cluster made of the call.
Kill(t, w) ==
    /\ At(t, "kill") /\ w \in td[t].todo /\ td[t].probed = {}
    /\ \/ /\ answers
          /\ obj' = [obj EXCEPT ![w] = Stopped(w)]
          /\ Sets(t, [td[t] EXCEPT !.todo = @ \ {w}, !.probed = IF Absent(w) THEN {} ELSE {w}])
       \/ /\ ~answers
          /\ obj' \in {obj, [obj EXCEPT ![w] = Stopped(w)]}
          /\ Sets(t, [td[t] EXCEPT !.todo = @ \ {w}, !.bad = TRUE])
    /\ UNCHANGED <<Ledgers, child, att, op>>

\* probeWork(): live, and unknown, are failures.
Probe(t, w) ==
    /\ At(t, "kill") /\ w \in td[t].probed
    /\ Sets(t, [td[t] EXCEPT !.probed = {}, !.bad = @ \/ ~answers \/ ~Absent(w)])
    /\ UNCHANGED <<Ledgers, child, att, obj, op>>

KillsDone(t) ==
    /\ At(t, "kill") /\ td[t].todo = {} /\ td[t].probed = {}
    /\ Sets(t, [td[t] EXCEPT !.pc = "settle"])
    /\ UNCHANGED <<Ledgers, child, att, obj, op>>

\* The loop over the children listed: each is settled CANCELLED if it is still open.  What a
\* bare one runs is unknown (killUnhandled), which is a failure of this pass.
SettleChild(t, w) ==
    /\ At(t, "settle") /\ w \in td[t].kids
    /\ \/ /\ answers
          /\ child' = [child EXCEPT ![w] = "settled"]
          /\ Sets(t, [td[t] EXCEPT !.kids = @ \ {w}, !.bad = @ \/ w \in td[t].bare])
       \/ /\ ~answers
          /\ Sets(t, [td[t] EXCEPT !.kids = @ \ {w}, !.bad = TRUE])
          /\ UNCHANGED child
    /\ UNCHANGED <<Ledgers, att, obj, op>>

\* The postcondition read back: no failure, and no child that still reads as live.
Converged(t) == ~td[t].bad /\ \A w \in Works : child[w] \notin Unsettled

ReadBack(t) ==
    /\ At(t, "settle") /\ td[t].kids = {}
    /\ IF answers /\ Converged(t)
       THEN Sets(t, [td[t] EXCEPT !.pc = "pending"]) /\ UNCHANGED op
       ELSE Throws(t)
    /\ UNCHANGED <<Ledgers, child, att, obj>>

\* Mutant: an activation is a standing permission.
PendingForEver(t) ==
    /\ At(t, "pending")
    /\ IF answers
       THEN /\ Sets(t, [td[t] EXCEPT !.pc = "revoke", !.bad = \E w \in Works : att[w] \in {"active", "aged"},
                                     !.todo = {w \in Works : att[w] \in {"created", "reserved"}}])
            /\ UNCHANGED op
       ELSE Throws(t)
    /\ UNCHANGED <<Ledgers, child, att, obj>>

\* The attempts that may still create work.  An activation within its lease cannot be
\* taken back: it keeps the operation owed once the others are revoked.
Pending(t) ==
    /\ At(t, "pending")
    /\ IF answers
       THEN /\ Sets(t, [td[t] EXCEPT !.pc = "revoke", !.bad = \E w \in Works : att[w] = "active",
                                     !.todo = {w \in Works : att[w] \in MayStillCreateWork \ {"active"}}])
            /\ UNCHANGED op
       ELSE Throws(t)
    /\ UNCHANGED <<Ledgers, child, att, obj>>

\* revokeReservation(): of any row that is not terminal.  A revocation that fails is
\* recorded where nobody looks any more.
Revoke(t, w) ==
    /\ At(t, "revoke") /\ w \in td[t].todo
    /\ \/ answers /\ Stamps(w, IF att[w] \in Terminal THEN att[w] ELSE "revoked")
       \/ ~answers /\ UNCHANGED att
    /\ Sets(t, [td[t] EXCEPT !.todo = @ \ {w}])
    /\ UNCHANGED <<Ledgers, child, obj, op>>

\* The certificate: complete() is best-effort too.
Certify(t) ==
    /\ At(t, "revoke") /\ td[t].todo = {}
    /\ IF td[t].bad THEN Throws(t)
       ELSE Sets(t, Idle) /\ op' = IF answers THEN "completed" ELSE op
    /\ UNCHANGED <<Ledgers, child, att, obj>>

\* The tearing process dies.
TearerCrash(t) ==
    /\ t \in Mortal /\ ~At(t, "idle")
    /\ Sets(t, Idle)
    /\ UNCHANGED <<Ledgers, child, att, obj, op>>

Reaches ==
    /\ answers' = ~answers
    /\ UNCHANGED <<batch, child, att, handle, sub, obj, op, td>>

-----------------------------------------------------------------------------
Submit(w) ==
    \/ Open(w) \/ ReserveReads(w) \/ ReserveWrites(w) \/ Apply(w) \/ ActivateReads(w) \/ ActivateWrites(w)
    \/ Resume(w) \/ StampExecuting(w) \/ MarkRunning(w) \/ WaitEnds(w) \/ Dropped(w) \/ Reclaim(w) \/ SettleCase(w)

TearDown(t) ==
    \/ ListChildren(t) \/ PlacedWork(t) \/ KillsDone(t) \/ ReadBack(t) \/ Pending(t) \/ Certify(t)
    \/ \E w \in Works : Kill(t, w) \/ Probe(t, w) \/ SettleChild(t, w) \/ Revoke(t, w)

Next ==
    \/ \E w \in Works : Submit(w) \/ Exits(w) \/ Crash(w) \/ Ages(w)
    \/ \E t \in Tearers : Cancel(t) \/ Begin(t) \/ TearDown(t) \/ TearerCrash(t)
    \/ Reaches

Spec == Init /\ [][Next]_vars

-----------------------------------------------------------------------------
\* Work that an operator pays for: a container that runs, or on Nomad one that was told to
\* stop and has not.
Live(w) == obj[w] = "running" \/ (obj[w] = "dying" /\ w \in Nomad)

\* Certified zero is zero, and stays zero: while the operation is completed nothing of the
\* batch runs, although a submitter with its leave in hand may have been paused all along.
CertifiedZero ==
    op = "completed" => \A w \in Works : ~Live(w) /\ child[w] \notin Unsettled

-----------------------------------------------------------------------------
(* Liveness.  A teardown that was begun is carried on, the leader takes up  *)
(* what is owed, grace periods end, and time passes.  The submitters may     *)
(* stop wherever they are.                                                   *)
FairSpec ==
    /\ Spec
    /\ \A t \in Tearers : WF_vars(TearDown(t)) /\ WF_vars(op # "completed" /\ Begin(t))
    /\ \A w \in Works : WF_vars(Ages(w)) /\ WF_vars(obj[w] = "dying" /\ Exits(w))

\* A cancellation is certified in the end, if the cluster and the database answer from some
\* time on and one process that tears down lives: what a dead submitter left in the ledger
\* is not owed for ever.
CancelConverges ==
    <>[]answers => (batch = "cancelled" ~> op = "completed")
=============================================================================
