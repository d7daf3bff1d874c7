--------------------------- MODULE TeardownProofs ---------------------------
(***************************************************************************)
(* Proofs about Teardown, for any number of works on either kind of        *)
(* cluster and any number of teardowns that overlap.                       *)
(*                                                                         *)
(* The certificate is about the future as much as about the present: a     *)
(* submitter may have been paused with its leave in hand since before the  *)
(* cancel.  A work is Safe when nothing runs and nobody can start what     *)
(* lies there.  Under a cancelled batch a safe work stays safe, and a      *)
(* teardown that saw no failure has made every work safe.                  *)
(***************************************************************************)
EXTENDS Teardown, TLAPS

\* Nothing of the work runs, and no submitter is about to start an object that is there.
Safe(w) == ~Live(w) /\ (obj[w] = "inert" => sub[w] \notin {"activating", "active"})
Ended(w) == Safe(w) /\ child[w] \notin Unsettled

(***************************************************************************)
(* The parts of the inductive invariant.                                   *)
(***************************************************************************)

\* A teardown reads back one kill at a time.
Tearing ==
    {r \in [pc : {"idle", "list", "handles", "kill", "settle", "pending", "revoke"},
            kids : SUBSET Works, bare : SUBSET Works, todo : SUBSET Works, probed : SUBSET Works, bad : BOOLEAN] :
        \A v, w \in r.probed : v = w}
OneProbe == td \in [Tearers -> Tearing]

\* An object is named by the ledger before it exists.
Unplaced ==
    \A w \in Works : handle[w] = "none" => /\ obj[w] = "none"
                                   /\ sub[w] \in {"none", "opened", "reserving", "over", "gone"}

\* Nobody tears down a batch that is open.
CancelFirst ==
    /\ \A t \in Tearers : td[t].pc # "idle" => batch = "cancelled"
    /\ op # "none" => batch = "cancelled"

\* What a teardown has cleared so far.
Cleared ==
    \A t \in Tearers :
       /\ td[t].pc = "kill" /\ ~td[t].bad => \A w \in Works \ (td[t].todo \cup td[t].probed) : Safe(w)
       /\ td[t].pc = "settle" /\ ~td[t].bad => \A w \in Works : Safe(w)
       /\ td[t].pc \in {"pending", "revoke"} => \A w \in Works : Ended(w)

Certified == op = "completed" => \A w \in Works : Ended(w)

IInv == TypeOK /\ OneProbe /\ Unplaced /\ CancelFirst /\ Cleared /\ Certified

-----------------------------------------------------------------------------
\* A step of the lane: the submitter, the container, or time.
LaneStep(v) == Submit(v) \/ Exits(v) \/ Crash(v) \/ Ages(v)

USE DEF Goes, Stamps, Lane

LEMMA LaneType ==
    ASSUME TypeOK, NEW v \in Works, LaneStep(v)
    PROVE  TypeOK'
<1>1. CASE Open(v) \/ ReserveReads(v) \/ ReserveWrites(v)
  <2>1. CASE Open(v)
      BY <2>1 DEF TypeOK, MayStillCreateWork, Unsettled, Open
  <2>2. CASE ReserveReads(v)
      BY <2>2 DEF TypeOK, ReserveReads
  <2>3. CASE ReserveWrites(v)
      BY <2>3 DEF TypeOK, MayStillCreateWork, ReserveWrites
  <2> QED
      BY <1>1, <2>1, <2>2, <2>3
<1>2. CASE Apply(v) \/ ActivateReads(v) \/ ActivateWrites(v)
    BY <1>2 DEF TypeOK, MayStillCreateWork, Apply, ActivateReads, ActivateWrites
<1>3. CASE Resume(v) \/ StampExecuting(v) \/ MarkRunning(v) \/ WaitEnds(v) \/ Dropped(v)
    BY <1>3 DEF TypeOK, Unsettled, MayStillCreateWork, Resume, StampExecuting, Named, MarkRunning, WaitEnds, Dropped
<1>4. CASE Reclaim(v) \/ SettleCase(v)
    BY <1>4 DEF TypeOK, Terminal, Reclaim, Stopped, SettleCase, Named
<1>5. CASE Exits(v) \/ Crash(v) \/ Ages(v)
    BY <1>5 DEF TypeOK, MayStillCreateWork, Exits, Crash, Ages
<1> QED
    BY <1>1, <1>2, <1>3, <1>4, <1>5 DEF LaneStep, Submit

\* The lane keeps the order of the ledger's name and the cluster's object.
LEMMA LaneUnplaced ==
    ASSUME TypeOK, Unplaced, NEW v \in Works, LaneStep(v)
    PROVE  Unplaced'
<1>1. CASE Open(v) \/ ReserveReads(v) \/ ReserveWrites(v)
    BY <1>1 DEF TypeOK, Unplaced, Open, ReserveReads, ReserveWrites
<1>2. CASE Apply(v) \/ ActivateReads(v) \/ ActivateWrites(v)
    BY <1>2 DEF TypeOK, Unplaced, Apply, ActivateReads, ActivateWrites
<1>3. CASE Resume(v) \/ StampExecuting(v) \/ MarkRunning(v) \/ WaitEnds(v) \/ Dropped(v)
    BY <1>3 DEF TypeOK, Unplaced, Resume, StampExecuting, Named, MarkRunning, WaitEnds, Dropped
<1>4. CASE Reclaim(v) \/ SettleCase(v)
    BY <1>4 DEF TypeOK, Unplaced, Reclaim, Stopped, SettleCase, Named
<1>5. CASE Exits(v) \/ Crash(v) \/ Ages(v)
    BY <1>5 DEF TypeOK, Unplaced, Exits, Crash, Ages
<1> QED
    BY <1>1, <1>2, <1>3, <1>4, <1>5 DEF LaneStep, Submit

\* The lane leaves the batch, the operation and the teardowns alone.
LEMMA LaneFrame ==
    ASSUME NEW v \in Works, LaneStep(v)
    PROVE  batch' = batch /\ op' = op /\ td' = td
BY DEF LaneStep, Submit, Open, ReserveReads, ReserveWrites, Apply, ActivateReads, ActivateWrites,
       Resume, StampExecuting, Named, MarkRunning, WaitEnds, Dropped, Reclaim, SettleCase, Exits, Crash, Ages

\* Under a cancelled batch no step of a lane makes a safe work unsafe: what is created
\* now is refused its activation, and what was activated before has no object to start.
LEMMA LaneKeepsSafe ==
    ASSUME TypeOK, batch = "cancelled", NEW v \in Works, LaneStep(v), NEW w \in Works, Safe(w)
    PROVE  Safe(w)'
<1> USE DEF TypeOK, Safe, Live
<1>1. CASE Open(v) \/ ReserveReads(v) \/ ReserveWrites(v)
    BY <1>1 DEF Open, ReserveReads, ReserveWrites
<1>2. CASE Apply(v) \/ ActivateReads(v)
    BY <1>2 DEF Apply, ActivateReads
<1>3. CASE ActivateWrites(v) \/ Resume(v)
    BY <1>3 DEF ActivateWrites, Resume, Resumed
<1>4. CASE StampExecuting(v) \/ MarkRunning(v) \/ WaitEnds(v) \/ Dropped(v)
    BY <1>4 DEF StampExecuting, Named, MarkRunning, WaitEnds, Dropped
<1>5. CASE Reclaim(v) \/ SettleCase(v)
    BY <1>5 DEF Reclaim, Stopped, SettleCase
<1>6. CASE Exits(v) \/ Crash(v) \/ Ages(v)
    BY <1>6 DEF Exits, Crash, Ages
<1> QED
    BY <1>1, <1>2, <1>3, <1>4, <1>5, <1>6 DEF LaneStep, Submit

\* Under a cancelled batch no child is opened.
LEMMA LaneKeepsChildren ==
    ASSUME TypeOK, batch = "cancelled", NEW v \in Works, LaneStep(v), NEW w \in Works, child[w] \notin Unsettled
    PROVE  child'[w] \notin Unsettled
BY DEF TypeOK, Unsettled, LaneStep, Submit, Open, ReserveReads, ReserveWrites, Apply, ActivateReads, ActivateWrites,
       Resume, StampExecuting, Named, MarkRunning, WaitEnds, Dropped, Reclaim, SettleCase, Exits, Crash, Ages

LEMMA LaneInv ==
    ASSUME IInv, NEW v \in Works, LaneStep(v)
    PROVE  IInv'
<1>1. TypeOK' /\ Unplaced'
    BY LaneType, LaneUnplaced DEF IInv
<1>2. batch' = batch /\ op' = op /\ td' = td
    BY LaneFrame
<1>3. CancelFirst'
    BY <1>2 DEF IInv, CancelFirst
<1>4. batch = "cancelled" => \A w \in Works : (Safe(w) => Safe(w)') /\ (Ended(w) => Ended(w)')
    BY LaneKeepsSafe, LaneKeepsChildren DEF IInv, Ended
<1>5. Cleared'
    BY <1>2, <1>4 DEF IInv, Cleared, CancelFirst
<1>6. Certified'
    BY <1>2, <1>4 DEF IInv, Certified, CancelFirst
<1> QED
    BY <1>1, <1>2, <1>3, <1>5, <1>6 DEF IInv, OneProbe

-----------------------------------------------------------------------------
(* The teardowns.                                                          *)

\* A stop never starts anything.
LEMMA StopSafe ==
    ASSUME TypeOK, NEW v \in Works, obj' \in {obj, [obj EXCEPT ![v] = Stopped(v)]}, sub' = sub
    PROVE  /\ obj' \in [Works -> {"none", "inert", "running", "dying"}]
           /\ \A w \in Works : Safe(w) => Safe(w)'
           /\ \A w \in Works : obj[w] = "none" => obj'[w] = "none"
BY DEF TypeOK, Stopped, Safe, Live

\* A step of one teardown keeps the invariant if it keeps what was safe and ended, if the
\* teardown's own claim holds, and if it certifies only what has ended.
LEMMA TearInv ==
    ASSUME IInv, TypeOK', NEW t \in Tearers, NEW r \in Tearing, Sets(t, r),
           batch' = "cancelled", handle' = handle, sub' = sub,
           \A w \in Works : obj[w] = "none" => obj'[w] = "none",
           batch = "cancelled" => \A w \in Works : (Safe(w) => Safe(w)') /\ (Ended(w) => Ended(w)'),
           op' = "completed" => op = "completed" \/ \A w \in Works : Ended(w),
           op' # "completed" \/ batch = "cancelled",
           r.pc = "kill" /\ ~r.bad => \A w \in Works \ (r.todo \cup r.probed) : Safe(w)',
           r.pc = "settle" /\ ~r.bad => \A w \in Works : Safe(w)',
           r.pc \in {"pending", "revoke"} => \A w \in Works : Ended(w)'
    PROVE  IInv'
<1>1. td'[t] = r /\ \A u \in Tearers : u # t => td'[u] = td[u]
    BY DEF IInv, TypeOK, Sets
<1>2. Unplaced' /\ CancelFirst' /\ OneProbe'
    BY DEF IInv, Unplaced, CancelFirst, OneProbe, Sets
<1>3. Cleared'
  <2> SUFFICES ASSUME NEW u \in Tearers
               PROVE  /\ td'[u].pc = "kill" /\ ~td'[u].bad
                           => \A w \in Works \ (td'[u].todo \cup td'[u].probed) : Safe(w)'
                      /\ td'[u].pc = "settle" /\ ~td'[u].bad => \A w \in Works : Safe(w)'
                      /\ td'[u].pc \in {"pending", "revoke"} => \A w \in Works : Ended(w)'
      BY DEF Cleared
  <2>1. CASE u = t
      BY <1>1, <2>1
  <2>2. CASE u # t
      BY <1>1, <2>2 DEF IInv, Cleared, CancelFirst
  <2> QED
      BY <2>1, <2>2
<1>4. Certified'
    BY DEF IInv, Certified, CancelFirst
<1> QED
    BY <1>2, <1>3, <1>4 DEF IInv

\* A teardown that throws, or stops, claims nothing.
LEMMA IdleTearing == Idle \in Tearing /\ Idle.pc = "idle" /\ [Idle EXCEPT !.pc = "list"] \in Tearing
                     /\ [Idle EXCEPT !.pc = "list"].pc = "list"
BY DEF Idle, Tearing

LEMMA TearType ==
    ASSUME TypeOK, NEW t \in Tearers, NEW r \in Tearing, Sets(t, r)
    PROVE  td' \in [Tearers -> [pc : {"idle", "list", "handles", "kill", "settle", "pending", "revoke"},
                                kids : SUBSET Works, bare : SUBSET Works, todo : SUBSET Works, probed : SUBSET Works, bad : BOOLEAN]]
BY DEF TypeOK, Sets, Tearing

LEMMA TearerInv ==
    ASSUME IInv, NEW t \in Tearers, Cancel(t) \/ Begin(t) \/ TearDown(t) \/ TearerCrash(t)
    PROVE  IInv'
<1> USE DEF At
<1>0. TypeOK /\ td[t] \in Tearing
    BY DEF IInv, OneProbe
<1>c. td[t].pc # "idle" => batch = "cancelled"
    BY DEF IInv, CancelFirst
<1>s. ASSUME UNCHANGED <<obj, sub, child>>
      PROVE  /\ \A w \in Works : (Safe(w)' <=> Safe(w)) /\ (Ended(w)' <=> Ended(w))
             /\ \A w \in Works : obj[w] = "none" => obj'[w] = "none"
    BY <1>s DEF Safe, Ended, Live
<1>1. CASE Cancel(t)
  <2>1. TypeOK'
      BY <1>0, <1>1, IdleTearing, TearType DEF Cancel, TypeOK
  <2>2. /\ Sets(t, [Idle EXCEPT !.pc = "list"]) /\ batch' = "cancelled" /\ op' = "requested"
        /\ UNCHANGED <<child, handle, sub, obj>>
      BY <1>1 DEF Cancel
  <2> QED
      BY <2>1, <2>2, <1>s, IdleTearing, TearInv
<1>2. CASE Begin(t)
  <2>1. TypeOK'
      BY <1>0, <1>2, IdleTearing, TearType DEF Begin, Ledgers, TypeOK
  <2>2. /\ Sets(t, [Idle EXCEPT !.pc = "list"]) /\ batch' = "cancelled" /\ batch = "cancelled"
        /\ op' \in {op, "requested"} /\ UNCHANGED <<child, handle, sub, obj>>
      BY <1>2 DEF Begin, Ledgers
  <2> QED
      BY <2>1, <2>2, <1>s, IdleTearing, TearInv
\* A step that leaves the works alone and throws.
<1>t. ASSUME Throws(t), td[t].pc # "idle", UNCHANGED <<Ledgers, child, att, obj>> PROVE IInv'
  <2>1. TypeOK'
      BY <1>0, <1>t, IdleTearing, TearType DEF Throws, Ledgers, TypeOK
  <2>2. Sets(t, Idle) /\ batch' = batch /\ op' \in {op, "requested"} /\ UNCHANGED <<child, handle, sub, obj>>
      BY <1>t DEF Throws, Ledgers
  <2> QED
      BY <1>c, <1>t, <2>1, <2>2, <1>s, IdleTearing, TearInv
\* A step that only moves the teardown on.
<1>m. ASSUME NEW r \in Tearing, Sets(t, r), td[t].pc # "idle", UNCHANGED <<Ledgers, child, att, obj, op>>,
             r.pc = "kill" /\ ~r.bad => \A w \in Works \ (r.todo \cup r.probed) : Safe(w),
             r.pc = "settle" /\ ~r.bad => \A w \in Works : Safe(w),
             r.pc \in {"pending", "revoke"} => \A w \in Works : Ended(w)
      PROVE  IInv'
  <2>1. TypeOK'
      BY <1>0, <1>m, TearType DEF Ledgers, TypeOK
  <2>2. batch' = batch /\ UNCHANGED <<child, handle, sub, obj, op>>
      BY <1>m DEF Ledgers
  <2>3. \A w \in Works : (Safe(w)' <=> Safe(w)) /\ (Ended(w)' <=> Ended(w))
      BY <2>2, <1>s
  <2> QED
      BY <1>c, <1>m, <2>1, <2>2, <2>3, TearInv
<1>3. CASE ListChildren(t)
  <2> DEFINE r == [td[t] EXCEPT !.pc = "handles", !.kids = {w \in Works : child[w] \in Unsettled},
                                !.bare = {w \in Works : child[w] = "running"}]
  <2>1. r \in Tearing /\ r.pc = "handles"
      BY <1>0 DEF Tearing
  <2> HIDE DEF r
  <2>2. CASE answers
      BY <1>3, <2>1, <2>2, <1>m DEF ListChildren, r
  <2>3. CASE ~answers
      BY <1>3, <2>3, <1>t DEF ListChildren
  <2> QED
      BY <2>2, <2>3
<1>4. CASE PlacedWork(t)
  <2> DEFINE r == [td[t] EXCEPT !.pc = "kill", !.todo = {w \in Works : handle[w] # "none"},
                                !.bare = {w \in @ : handle[w] # "attributed"}]
  <2>1. r \in Tearing /\ r.pc = "kill" /\ r.todo = {w \in Works : handle[w] # "none"}
      BY <1>0 DEF Tearing
  <2>2. \A w \in Works : handle[w] = "none" => Safe(w)
      BY DEF IInv, Unplaced, Safe, Live
  <2> HIDE DEF r
  <2>3. CASE answers
      BY <1>4, <2>1, <2>2, <2>3, <1>m DEF PlacedWork, r
  <2>4. CASE ~answers
      BY <1>4, <2>4, <1>t DEF PlacedWork
  <2> QED
      BY <2>3, <2>4
<1>5. ASSUME NEW v \in Works, Kill(t, v) PROVE IInv'
  <2>1. td[t].pc = "kill" /\ td[t].probed = {} /\ UNCHANGED <<Ledgers, child, att, op>>
      BY <1>5 DEF Kill
  <2>2. /\ obj' \in [Works -> {"none", "inert", "running", "dying"}]
        /\ \A w \in Works : (Safe(w) => Safe(w)') /\ (Ended(w) => Ended(w)')
        /\ \A w \in Works : obj[w] = "none" => obj'[w] = "none"
      BY <1>0, <1>5, <2>1, StopSafe DEF Kill, Ledgers, Ended
  <2>3. PICK r \in Tearing :
           /\ Sets(t, r) /\ r.pc = "kill" /\ r.todo = td[t].todo \ {v}
           /\ ~r.bad => ~td[t].bad /\ (v \in r.probed \/ Safe(v)')
    <3>1. CASE answers
      <4> DEFINE r == [td[t] EXCEPT !.todo = @ \ {v}, !.probed = IF Absent(v) THEN {} ELSE {v}]
      <4>1. r \in Tearing /\ r.pc = "kill" /\ r.todo = td[t].todo \ {v} /\ r.bad = td[t].bad
          BY <1>0, <2>1 DEF Tearing
      <4>2. ~Absent(v) => v \in r.probed
          BY <1>0 DEF Tearing
      <4>3. Absent(v) => Safe(v)
          BY DEF Absent, Safe, Live
      <4>4. Sets(t, r)
          BY <1>5, <3>1 DEF Kill
      <4> HIDE DEF r
      <4> QED
          BY <2>2, <4>1, <4>2, <4>3, <4>4
    <3>2. CASE ~answers
      <4> DEFINE r == [td[t] EXCEPT !.todo = @ \ {v}, !.bad = TRUE]
      <4>1. r \in Tearing /\ r.pc = "kill" /\ r.todo = td[t].todo \ {v} /\ r.bad
          BY <1>0, <2>1 DEF Tearing
      <4>2. Sets(t, r)
          BY <1>5, <3>2 DEF Kill
      <4> HIDE DEF r
      <4> QED
          BY <4>1, <4>2
    <3> QED
        BY <3>1, <3>2
  <2>4. ~r.bad => \A w \in Works \ (r.todo \cup r.probed) : Safe(w)'
    <3>1. ~td[t].bad => \A w \in Works \ td[t].todo : Safe(w)
        BY <2>1 DEF IInv, Cleared
    <3> QED
        BY <2>2, <2>3, <3>1
  <2>5. TypeOK'
      BY <1>0, <2>1, <2>2, <2>3, TearType DEF Ledgers, TypeOK
  <2>6. batch' = batch /\ handle' = handle /\ sub' = sub /\ op' = op
      BY <2>1 DEF Ledgers
  <2> QED
      BY <1>c, <2>1, <2>2, <2>3, <2>4, <2>5, <2>6, TearInv
<1>6. ASSUME NEW v \in Works, Probe(t, v) PROVE IInv'
  <2> DEFINE r == [td[t] EXCEPT !.probed = {}, !.bad = @ \/ ~answers \/ ~Absent(v)]
  <2>1. td[t].pc = "kill" /\ v \in td[t].probed /\ Sets(t, r) /\ UNCHANGED <<Ledgers, child, att, obj, op>>
      BY <1>6 DEF Probe
  <2>2. /\ r \in Tearing /\ r.pc = "kill" /\ r.todo = td[t].todo /\ r.probed = {}
        /\ ~r.bad => ~td[t].bad /\ Absent(v)
      BY <1>0, <2>1 DEF Tearing
  <2>3. ~td[t].bad => \A w \in Works \ (td[t].todo \cup td[t].probed) : Safe(w)
      BY <2>1 DEF IInv, Cleared
  <2>4. Absent(v) => Safe(v)
      BY DEF Absent, Safe, Live
  <2>5. td[t].probed \subseteq {v}
      BY <1>0, <2>1 DEF Tearing
  <2> HIDE DEF r
  <2> QED
      BY <2>1, <2>2, <2>3, <2>4, <2>5, <1>m
<1>7. CASE KillsDone(t)
  <2> DEFINE r == [td[t] EXCEPT !.pc = "settle"]
  <2>1. r \in Tearing /\ r.pc = "settle" /\ r.bad = td[t].bad
      BY <1>0 DEF Tearing
  <2>2. ~td[t].bad => \A w \in Works : Safe(w)
      BY <1>7 DEF KillsDone, IInv, Cleared
  <2> HIDE DEF r
  <2> QED
      BY <1>7, <2>1, <2>2, <1>m DEF KillsDone, r
<1>8. ASSUME NEW v \in Works, SettleChild(t, v) PROVE IInv'
  <2>1. td[t].pc = "settle" /\ UNCHANGED <<Ledgers, att, obj, op>>
      BY <1>8 DEF SettleChild
  <2>2. child' \in [Works -> {"none", "settled"} \cup Unsettled] /\ \A w \in Works : child[w] \notin Unsettled => child'[w] \notin Unsettled
      BY <1>0, <1>8 DEF SettleChild, TypeOK, Unsettled
  <2>3. \A w \in Works : (Safe(w)' <=> Safe(w)) /\ (Ended(w) => Ended(w)')
      BY <2>1, <2>2 DEF Ledgers, Safe, Live, Ended
  <2>4. PICK r \in Tearing : Sets(t, r) /\ r.pc = "settle" /\ (~r.bad => ~td[t].bad)
    <3> DEFINE good == [td[t] EXCEPT !.kids = @ \ {v}, !.bad = @ \/ v \in td[t].bare]
               poor == [td[t] EXCEPT !.kids = @ \ {v}, !.bad = TRUE]
    <3>1. good \in Tearing /\ poor \in Tearing
        BY <1>0 DEF Tearing
    <3>2. good.pc = "settle" /\ (~good.bad => ~td[t].bad) /\ poor.pc = "settle" /\ poor.bad
        BY <1>0, <2>1 DEF Tearing
    <3>3. Sets(t, good) \/ Sets(t, poor)
        BY <1>8 DEF SettleChild
    <3> HIDE DEF good, poor
    <3> QED
        BY <3>1, <3>2, <3>3
  <2>5. TypeOK'
      BY <1>0, <2>1, <2>2, <2>4, TearType DEF Ledgers, TypeOK
  <2>6. ~r.bad => \A w \in Works : Safe(w)'
      BY <2>1, <2>3, <2>4 DEF IInv, Cleared
  <2>7. batch' = batch /\ handle' = handle /\ sub' = sub /\ op' = op /\ obj' = obj
      BY <2>1 DEF Ledgers
  <2> QED
      BY <1>c, <2>1, <2>3, <2>4, <2>5, <2>6, <2>7, TearInv
<1>9. CASE ReadBack(t)
  <2> DEFINE r == [td[t] EXCEPT !.pc = "pending"]
  <2>1. r \in Tearing /\ r.pc = "pending"
      BY <1>0 DEF Tearing
  <2> HIDE DEF r
  <2>2. CASE answers /\ Converged(t)
    <3>1. \A w \in Works : Ended(w)
        BY <1>9, <2>2 DEF ReadBack, Converged, IInv, Cleared, Ended
    <3> QED
        BY <1>9, <2>1, <2>2, <3>1, <1>m DEF ReadBack, r
  <2>3. CASE ~(answers /\ Converged(t))
      BY <1>9, <2>3, <1>t DEF ReadBack
  <2> QED
      BY <2>2, <2>3
<1>10. CASE Pending(t)
  <2> DEFINE r == [td[t] EXCEPT !.pc = "revoke", !.bad = \E w \in Works : att[w] = "active",
                                !.todo = {w \in Works : att[w] \in MayStillCreateWork \ {"active"}}]
  <2>1. r \in Tearing /\ r.pc = "revoke"
    <3>1. (\E w \in Works : att[w] = "active") \in BOOLEAN
        OBVIOUS
    <3> QED
        BY <1>0, <3>1 DEF Tearing
  <2>2. \A w \in Works : Ended(w)
      BY <1>10 DEF Pending, IInv, Cleared
  <2> HIDE DEF r
  <2>3. CASE answers
      BY <1>10, <2>1, <2>2, <2>3, <1>m DEF Pending, r
  <2>4. CASE ~answers
      BY <1>10, <2>4, <1>t DEF Pending
  <2> QED
      BY <2>3, <2>4
<1>11. ASSUME NEW v \in Works, Revoke(t, v) PROVE IInv'
  <2> DEFINE r == [td[t] EXCEPT !.todo = @ \ {v}]
  <2>1. r \in Tearing /\ r.pc = td[t].pc
      BY <1>0 DEF Tearing
  <2>2. td[t].pc = "revoke" /\ Sets(t, r) /\ UNCHANGED <<Ledgers, child, obj, op>>
      BY <1>11 DEF Revoke
  <2> HIDE DEF r
  <2>3. att' \in [Works -> {"none", "executing"} \cup MayStillCreateWork \cup Terminal]
      BY <1>0, <1>11 DEF Revoke, TypeOK, Terminal
  <2>4. TypeOK'
      BY <1>0, <2>1, <2>2, <2>3, TearType DEF Ledgers, TypeOK
  <2>5. batch' = batch /\ UNCHANGED <<child, handle, sub, obj, op>>
      BY <2>2 DEF Ledgers
  <2>6. \A w \in Works : (Safe(w)' <=> Safe(w)) /\ (Ended(w)' <=> Ended(w))
      BY <2>5, <1>s
  <2>7. \A w \in Works : Ended(w)
      BY <2>2 DEF IInv, Cleared
  <2> QED
      BY <1>c, <2>1, <2>2, <2>4, <2>5, <2>6, <2>7, TearInv
<1>12. CASE Certify(t)
  <2>1. CASE td[t].bad
      BY <1>12, <2>1, <1>t DEF Certify
  <2>2. CASE ~td[t].bad
    <3>1. Sets(t, Idle) /\ UNCHANGED <<Ledgers, child, att, obj>> /\ op' \in {op, "completed"}
          /\ td[t].pc = "revoke"
        BY <1>12, <2>2 DEF Certify
    <3>2. \A w \in Works : Ended(w)
        BY <3>1 DEF IInv, Cleared
    <3>3. TypeOK'
        BY <1>0, <3>1, IdleTearing, TearType DEF Ledgers, TypeOK
    <3>4. batch' = batch /\ UNCHANGED <<child, handle, sub, obj>>
        BY <3>1 DEF Ledgers
    <3> QED
        BY <1>c, <3>1, <3>2, <3>3, <3>4, <1>s, IdleTearing, TearInv
  <2> QED
      BY <2>1, <2>2
<1>13. CASE TearerCrash(t)
    BY <1>13, <1>m, IdleTearing DEF TearerCrash
<1> QED
    BY <1>1, <1>2, <1>3, <1>4, <1>5, <1>6, <1>7, <1>8, <1>9, <1>10, <1>11, <1>12, <1>13 DEF TearDown

-----------------------------------------------------------------------------
LEMMA InvInit == Init => IInv
BY DEF Init, IInv, TypeOK, OneProbe, Tearing, Unplaced, CancelFirst, Cleared, Certified, Idle

LEMMA InvStep == IInv /\ [Next]_vars => IInv'
<1> SUFFICES ASSUME IInv, [Next]_vars PROVE IInv'
    OBVIOUS
<1>1. ASSUME NEW v \in Works, LaneStep(v) PROVE IInv'
    BY <1>1, LaneInv
<1>2. ASSUME NEW t \in Tearers, Cancel(t) \/ Begin(t) \/ TearDown(t) \/ TearerCrash(t) PROVE IInv'
    BY <1>2, TearerInv
<1>3. CASE Reaches \/ UNCHANGED vars
  <2>1. UNCHANGED <<batch, child, att, handle, sub, obj, op, td>> /\ answers' \in BOOLEAN
      BY <1>3 DEF Reaches, vars, IInv, TypeOK
  <2>2. \A w \in Works : (Safe(w)' <=> Safe(w)) /\ (Ended(w)' <=> Ended(w))
      BY <2>1 DEF Safe, Live, Ended
  <2>3. TypeOK' /\ OneProbe' /\ Unplaced' /\ CancelFirst'
      BY <2>1 DEF IInv, TypeOK, OneProbe, Unplaced, CancelFirst
  <2>4. Cleared' /\ Certified'
      BY <2>1, <2>2 DEF IInv, Cleared, Certified
  <2> QED
      BY <2>3, <2>4 DEF IInv
<1> QED
    BY <1>1, <1>2, <1>3 DEF Next, LaneStep

\* The inductive invariant: an object is named before it exists, a teardown's progress
\* means works that are safe, and a certificate that all of them are.
THEOREM TeardownInvariant == Spec => []IInv
BY InvInit, InvStep, PTL DEF Spec

\* The rows, the objects and the teardowns keep their types.
THEOREM TeardownTypeCorrect == Spec => []TypeOK
<1>1. IInv => TypeOK
    BY DEF IInv
<1> QED
    BY <1>1, TeardownInvariant, PTL

\* While the operation reads completed no work of the batch runs and no child reads as
\* live, whoever was paused with an activation in hand and whatever calls were lost.
THEOREM CertificatesAreTrue == Spec => []CertifiedZero
<1>1. IInv => CertifiedZero
    BY DEF IInv, Certified, CertifiedZero, Ended, Safe
<1> QED
    BY <1>1, TeardownInvariant, PTL
=============================================================================
