------------------------ MODULE StoreRunnerHubProofs ------------------------
(***************************************************************************)
(* What StoreRunnerHub guarantees for any jobs, runners, workers and       *)
(* bounds.  First the types, then the inductive invariant IInv that ties   *)
(* the workers' tokens, the rows and the attempt ledger together, then the *)
(* action properties and the lease contract, which follow from a           *)
(* classification of what one step can do to one row (RowMove).            *)
(***************************************************************************)
EXTENDS StoreRunnerHub, FiniteSetTheorems, TLAPS

-----------------------------------------------------------------------------
(* Types.                                                                  *)

\* The bounds are ordered as the comparisons of ages need them.
LEMMA Bounds == /\ AgeCap \in Nat /\ MaxLag \in 0..AgeCap /\ 0 \in 0..AgeCap
                /\ MaxEpoch \in Nat /\ 0 \in Epochs /\ 1 \in Epochs
  BY HubAssumption DEF AgeCap, Epochs

\* The sweeps keep every row a row.
LEMMA SweptType ==
  ASSUME row \in [Jobs -> Row], NEW lagged
  PROVE  Swept(lagged) \in [Jobs -> Row]
  BY DEF Swept, Row, Terminal

\* So does a claim below the bound on leases.
LEMMA ClaimedType ==
  ASSUME NEW old \in Row, NEW r \in Runners, old.epoch < MaxEpoch
  PROVE  ClaimedRow(r, old) \in Row
<1>1. old.epoch + 1 \in Epochs
  BY HubAssumption DEF Row, Epochs
<1>2. QED
  BY <1>1 DEF ClaimedRow, Row

\* And a report or a cancel.
LEMMA ReportedType ==
  ASSUME NEW r \in Row, NEW w, worker[w].epoch \in Epochs,
         NEW status \in {"completed", "failed"}
  PROVE  ReportedRow(r, w, status) \in Row
  BY DEF ReportedRow, Row, Terminal

\* A cancelled row is a row.
LEMMA CancelledType ==
  ASSUME NEW r \in Row PROVE CancelledRow(r) \in Row
  BY DEF CancelledRow, Row, Terminal

\* touchWaiting keeps every age an age.
LEMMA TouchedType ==
  ASSUME NEW a \in [Jobs -> 0..AgeCap], NEW r, NEW lagged \in 0..AgeCap
  PROVE  Touched(a, r, lagged) \in [Jobs -> 0..AgeCap]
  BY DEF Touched

\* The mint keeps every attempt's state a state.
LEMMA MintedType ==
  ASSUME NEW led \in [1..MaxEpoch -> AttemptState], NEW old
  PROVE  Minted(led, old) \in [1..MaxEpoch -> AttemptState]
  BY DEF Minted, AttemptState

\* A report keeps the types, whatever token it carries.
LEMMA ReportTyped ==
  ASSUME TypeOK, NEW w \in Workers, NEW status \in {"completed", "failed"},
         NEW replied \in Worker, NEW lost \in Worker, Report(w, status, replied, lost)
  PROVE  TypeOK'
<1>1. row' \in [Jobs -> Row]
  <2>1. worker[w].epoch \in Epochs
    BY DEF TypeOK, Worker
  <2>2. \A j \in Jobs : ReportedRow(row[j], w, status) \in Row
    BY <2>1, ReportedType DEF TypeOK
  <2>3. QED
    BY <2>2 DEF Report, TypeOK
<1>2. worker' \in [Workers -> Worker]
  BY DEF Report, TypeOK
<1>3. QED
  BY <1>1, <1>2 DEF Report, TypeOK

\* So does the onLease stamp.
LEMMA StampedType ==
  ASSUME NEW led \in [1..MaxEpoch -> AttemptState]
  PROVE  [led EXCEPT ![1] = IF led[1] = "created" THEN "executing" ELSE led[1]]
           \in [1..MaxEpoch -> AttemptState]
<1>1. 1 \in 1..MaxEpoch
  BY HubAssumption
<1>2. led[1] \in AttemptState /\ "executing" \in AttemptState
  BY <1>1 DEF AttemptState
<1>3. QED
  BY <1>2

\* The values a worker, a call and a row start from have their types.
LEMMA IdleType == Idle \in Worker
  BY Bounds DEF Idle, Worker

\* Moving a worker's program counter keeps its type.
LEMMA PcType ==
  ASSUME NEW x \in Worker, NEW pc \in {"idle", "leasing"} \cup Reporting \cup InRun
  PROVE  [x EXCEPT !.pc = pc] \in Worker
  BY DEF Worker

\* The program counter of a worker whose run goes on moves within the run.
LEMMA TypedMove ==
  ASSUME TypeOK, NEW w \in Workers,
         worker' = worker \/ \E pc \in InRun : worker' = [worker EXCEPT ![w].pc = pc]
  PROVE  worker' \in [Workers -> Worker]
<1>1. CASE worker' = worker
  BY <1>1 DEF TypeOK
<1>2. ASSUME NEW pc \in InRun, worker' = [worker EXCEPT ![w].pc = pc]
      PROVE  worker' \in [Workers -> Worker]
  <2>1. [worker[w] EXCEPT !.pc = pc] \in Worker
    BY PcType DEF TypeOK
  <2>2. QED
    BY <1>2, <2>1 DEF TypeOK
<1>3. QED
  BY <1>1, <1>2

\* A heartbeat moves only the worker's program counter, within its run; one sent while
\* the worker reports moves nothing.
LEMMA BeatMoves ==
  ASSUME TypeOK, NEW w \in Workers, Heartbeat(w) \/ HeartbeatReply(w)
  PROVE  \/ worker' = worker
         \/ /\ worker[w].pc \in InRun
            /\ \E pc \in InRun : worker' = [worker EXCEPT ![w].pc = pc]
<1> DEFINE To(pc) == worker' = [worker EXCEPT ![w].pc = pc]
<1>1. CASE worker[w].pc \in Reporting
  <2>1. worker[w].pc # "beat_ok" /\ worker[w].pc # "beat_cancelled"
    BY <1>1 DEF Reporting
  <2>2. To(worker[w].pc)
    BY <1>1, <2>1 DEF Heartbeat, HeartbeatReply
  <2>3. [worker[w] EXCEPT !.pc = worker[w].pc] = worker[w]
    BY DEF TypeOK, Worker
  <2>4. QED
    BY <2>2, <2>3 DEF TypeOK
<1>2. CASE worker[w].pc \notin Reporting /\ Heartbeat(w)
  <2>1. worker[w].pc \in InRun
    BY <1>2 DEF Heartbeat, InRun
  <2>2. To("beat_cancelled") \/ To("beat_ok")
    BY <1>2 DEF Heartbeat
  <2>3. QED
    BY <2>1, <2>2 DEF InRun
<1>3. CASE worker[w].pc \notin Reporting /\ HeartbeatReply(w)
  <2>1. worker[w].pc = "beat_ok" \/ worker[w].pc = "beat_cancelled"
    BY <1>3 DEF HeartbeatReply
  <2>2. CASE worker[w].pc = "beat_ok"
    <3>1. To("running")
      BY <1>3, <2>2 DEF HeartbeatReply
    <3>2. QED
      BY <3>1, <2>2 DEF InRun
  <2>3. CASE worker[w].pc = "beat_cancelled"
    <3>1. To("aborted")
      BY <1>3, <2>3 DEF HeartbeatReply
    <3>2. QED
      BY <3>1, <2>3 DEF InRun
  <2>4. QED
    BY <2>1, <2>2, <2>3
<1>4. QED
  BY <1>1, <1>2, <1>3

\* An absent row is a row.
LEMMA NoRowType == NoRow \in Row
  BY Bounds DEF NoRow, Row

\* TypeOK holds at the start.
LEMMA InitTyped == Init => TypeOK
<1> SUFFICES ASSUME Init PROVE TypeOK
  OBVIOUS
<1>2. row \in [Jobs -> Row] /\ worker \in [Workers -> Worker]
  BY IdleType, NoRowType DEF Init
<1>3. age \in [Jobs -> 0..AgeCap] /\ lag \in [Workers -> 0..MaxLag] /\ reply \in [Jobs -> Epochs]
  BY Bounds DEF Init
<1>4. QED
  BY <1>2, <1>3 DEF Init, TypeOK, AttemptState

\* A claim sweeps, then changes one swept row: every part keeps its type.
LEMMA ClaimTyped ==
  ASSUME TypeOK, NEW w \in Workers, Claim(w)
  PROVE  TypeOK'
<1> DEFINE t == Swept(lag[w])
           r == RunnerOf[w]
<1>1. t \in [Jobs -> Row] /\ r \in Runners /\ lag[w] \in 0..AgeCap
  BY SweptType, HubAssumption, Bounds DEF TypeOK
<1>2. PICK j \in Jobs :
         /\ Picks(t, w, j)
         /\ row' = [t EXCEPT ![j] = ClaimedRow(r, t[j])]
         /\ ledger' = [ledger EXCEPT ![j] = Minted(ledger[j], t[j])]
         /\ age' = [age EXCEPT ![j] = lag[w]]
         /\ \/ worker' = [worker EXCEPT ![w] =
                            [pc |-> "running", job |-> j, epoch |-> row'[j].epoch]]
            \/ worker' = [worker EXCEPT ![w] = Idle]
  BY DEF Claim
<1>3. t[j].epoch < MaxEpoch
  BY <1>2 DEF Picks, Claimable
<1>4. ClaimedRow(r, t[j]) \in Row
  BY <1>1, <1>3, ClaimedType
<1>5. row' \in [Jobs -> Row]
  BY <1>1, <1>2, <1>4
<1>6. ledger' \in [Jobs -> [1..MaxEpoch -> AttemptState]]
  BY <1>2, MintedType DEF TypeOK
<1>7. age' \in [Jobs -> 0..AgeCap]
  BY <1>1, <1>2 DEF TypeOK
<1>8. worker' \in [Workers -> Worker]
  <2>1. row'[j].epoch \in Epochs
    BY <1>5 DEF Row
  <2>2. [pc |-> "running", job |-> j, epoch |-> row'[j].epoch] \in Worker
    BY <2>1 DEF Worker, InRun
  <2>3. QED
    BY <1>2, <2>2, IdleType DEF TypeOK
<1>9. lag' \in [Workers -> 0..MaxLag]
  BY Bounds DEF Claim, TypeOK
<1>10. UNCHANGED <<created, disp, fired, reply, cancelling>>
  BY DEF Claim
<1>11. QED
  BY <1>5, <1>6, <1>7, <1>8, <1>9, <1>10 DEF TypeOK

\* Every step keeps TypeOK: one case per action.
LEMMA NextTyped == TypeOK /\ [Next]_vars => TypeOK'
<1> SUFFICES ASSUME TypeOK, [Next]_vars PROVE TypeOK'
  OBVIOUS
<1>1. ASSUME NEW j \in Jobs, Park(j) PROVE TypeOK'
  <2>1. Cardinality({k \in Jobs : created[k] # 0}) \in Nat
    BY HubAssumption, FS_Subset, FS_CardinalityType
  <2>2. [NoRow EXCEPT !.status = "queued", !.attempt = 1] \in Row
    BY Bounds DEF NoRow, Row
  <2>3. row' \in [Jobs -> Row] /\ created' \in [Jobs -> Nat] /\ age' \in [Jobs -> 0..AgeCap]
    BY <1>1, <2>1, <2>2, Bounds DEF Park, TypeOK
  <2>4. ledger' \in [Jobs -> [1..MaxEpoch -> AttemptState]]
    BY <1>1 DEF Park, TypeOK, AttemptState
  <2>5. QED
    BY <1>1, <2>3, <2>4 DEF Park, TypeOK
<1>2. ASSUME NEW j \in Jobs, Poll(j) PROVE TypeOK'
  <2>1. /\ fired' \in SUBSET Jobs
        /\ ledger' \in [Jobs -> [1..MaxEpoch -> AttemptState]]
    <3>1. CASE row[j].status = "leased" /\ ~row[j].cancel /\ j \notin fired
      <4>1. fired' = fired \cup {j} /\ fired' \in SUBSET Jobs
        BY <1>2, <3>1 DEF Poll, FireOnLease, TypeOK
      <4>2. ledger' = [ledger EXCEPT ![j] =
                         [ledger[j] EXCEPT ![1] = IF ledger[j][1] = "created"
                                                    THEN "executing" ELSE ledger[j][1]]]
        BY <1>2, <3>1 DEF Poll, FireOnLease
      <4>3. [ledger[j] EXCEPT ![1] = IF ledger[j][1] = "created"
                                       THEN "executing" ELSE ledger[j][1]]
              \in [1..MaxEpoch -> AttemptState]
        BY StampedType DEF TypeOK
      <4>4. QED
        BY <4>1, <4>2, <4>3 DEF TypeOK
    <3>2. CASE ~(row[j].status = "leased" /\ ~row[j].cancel /\ j \notin fired)
      BY <1>2, <3>2 DEF Poll, FireOnLease, TypeOK
    <3>3. QED
      BY <3>1, <3>2
  <2>2. disp' \in [Jobs -> {"idle", "polling", "expiring", "gone"} \cup Answers]
    BY <1>2 DEF Poll, Settlement, Answers, TypeOK
  <2>3. reply' \in [Jobs -> Epochs]
    BY <1>2 DEF Poll, TypeOK, Row
  <2>4. QED
    BY <1>2, <2>1, <2>2, <2>3 DEF Poll, TypeOK
<1>3. ASSUME NEW j \in Jobs, Expire(j) PROVE TypeOK'
  <2>1. \A r \in Row : [r EXCEPT !.status = IF r.status \in {"queued", "leased"}
                                             THEN "failed" ELSE r.status] \in Row
    BY DEF Row, Terminal
  <2> row' \in [Jobs -> Row]
    BY <1>3, <2>1 DEF Expire, TypeOK
  <2>2. QED
    BY <1>3 DEF Expire, TypeOK, Answers
<1>4. ASSUME NEW j \in Jobs, DispatcherCrash(j) PROVE TypeOK'
  BY <1>4 DEF DispatcherCrash, TypeOK
<1>5. ASSUME NEW w \in Workers, StartLease(w) PROVE TypeOK'
  <2>1. worker' \in [Workers -> Worker]
    BY <1>5 DEF StartLease, TypeOK, Worker
  <2>2. age' \in [Jobs -> 0..AgeCap]
    BY <1>5, TouchedType, Bounds DEF StartLease, TypeOK
  <2>3. QED
    BY <1>5, <2>1, <2>2, Bounds DEF StartLease, TypeOK
<1>6. ASSUME NEW w \in Workers, Claim(w) PROVE TypeOK'
  BY <1>6, ClaimTyped
<1>7. ASSUME NEW w \in Workers, ClaimNothing(w) PROVE TypeOK'
  BY <1>7, SweptType, IdleType, Bounds DEF ClaimNothing, TypeOK
<1>8. ASSUME NEW w \in Workers, ClaimFails(w) PROVE TypeOK'
  BY <1>8, IdleType, Bounds DEF ClaimFails, TypeOK
<1>9. ASSUME NEW w \in Workers, Heartbeat(w) PROVE TypeOK'
  <2>1. worker' = worker \/ \E pc \in InRun : worker' = [worker EXCEPT ![w].pc = pc]
    BY <1>9, BeatMoves
  <2>4. worker' \in [Workers -> Worker]
    BY <2>1, TypedMove
  <2>2. age' \in [Jobs -> 0..AgeCap]
    BY <1>9, Bounds DEF Heartbeat, TypeOK
  <2>3. QED
    BY <1>9, <2>4, <2>2 DEF Heartbeat, TypeOK
<1>10. ASSUME NEW w \in Workers, HeartbeatReply(w) PROVE TypeOK'
  <2>1. worker' = worker \/ \E pc \in InRun : worker' = [worker EXCEPT ![w].pc = pc]
    BY <1>10, BeatMoves
  <2>4. worker' \in [Workers -> Worker]
    BY <2>1, TypedMove
  <2>2. age' \in [Jobs -> 0..AgeCap]
    BY <1>10, TouchedType, Bounds DEF HeartbeatReply, TypeOK
  <2>3. QED
    BY <1>10, <2>4, <2>2 DEF HeartbeatReply, TypeOK
<1>11. ASSUME NEW w \in Workers, Submit(w) \/ Resubmit(w) \/ FailJob(w) PROVE TypeOK'
  <2>1. /\ [worker[w] EXCEPT !.pc = "resubmit"] \in Worker
        /\ [worker[w] EXCEPT !.pc = "failing"] \in Worker
    BY PcType DEF TypeOK, Reporting
  <2>2. QED
    BY <1>11, <2>1, IdleType, ReportTyped DEF Submit, Resubmit, FailJob
<1>12. ASSUME NEW w \in Workers, WorkerCrash(w) PROVE TypeOK'
  BY <1>12, IdleType, Bounds DEF WorkerCrash, TypeOK
<1>13. ASSUME CancelSelect PROVE TypeOK'
  BY <1>13 DEF CancelSelect, TypeOK
<1>14. ASSUME CancelUpdate PROVE TypeOK'
  BY <1>14, CancelledType DEF CancelUpdate, TypeOK
<1>15. ASSUME Tick PROVE TypeOK'
  <2>1. age' \in [Jobs -> 0..AgeCap]
    BY <1>15, Bounds DEF Tick, TypeOK
  <2>2. lag' \in [Workers -> 0..MaxLag]
    BY <1>15, Bounds DEF Tick, TypeOK
  <2>3. QED
    BY <1>15, <2>1, <2>2 DEF Tick, TypeOK
<1>16. ASSUME UNCHANGED vars PROVE TypeOK'
  BY <1>16 DEF vars, TypeOK
<1>17. QED
  BY <1>1, <1>2, <1>3, <1>4, <1>5, <1>6, <1>7, <1>8, <1>9, <1>10, <1>11, <1>12,
     <1>13, <1>14, <1>15, <1>16
  DEF Next, DispatcherStep, WorkerStep

\* Every reachable state is one the table, the loops and the workers can be in: in
\* particular no call ever outlives MaxLag and no epoch passes MaxEpoch.
THEOREM TypeCorrect == Spec => []TypeOK
  BY InitTyped, NextTyped, PTL DEF Spec


-----------------------------------------------------------------------------
(* The inductive invariant.                                                *)

Live == {"created", "executing"}

\* Before its dispatch parks it, a job has no row, no attempt and no cancel, and a
\* cancel in flight names rows that exist.
Unparked ==
    /\ \A j \in Jobs : disp[j] = "idle" =>
          row[j] = NoRow /\ \A e \in 1..MaxEpoch : ledger[j][e] = "none"
    /\ \A j \in cancelling : row[j].status # "absent"

\* A row names the attempt of its latest lease, the only one alive, and a result
\* was written under that lease.
AttemptSound(r, led) ==
    /\ r.status = "absent" => r.epoch = 0
    /\ r.status # "absent" =>
         /\ r.attempt = IF r.epoch = 0 THEN 1 ELSE r.epoch
         /\ led[r.attempt] \in Live
    /\ \A e \in 1..MaxEpoch : led[e] \in Live => e = r.attempt
    /\ r.status = "completed" => r.result = r.epoch /\ r.attempt = r.result

\* A resolved dispatch was told the attempt of a completed row.
Resolved == \A j \in Jobs : disp[j] = "resolved" =>
               row[j].status = "completed" /\ reply[j] = row[j].attempt

\* The workers that hold a token are those in a run or reporting on one, and a
\* token is at most as new as the row.
Busy == InRun \cup Reporting
TokensSound ==
    \A w \in Workers :
       /\ worker[w].pc \in Busy <=> HasToken(w)
       /\ HasToken(w) => worker[w].epoch \in 1..row[worker[w].job].epoch

IInv == /\ TypeOK
        /\ Unparked
        /\ \A j \in Jobs : AttemptSound(row[j], ledger[j])
        /\ Resolved
        /\ TokensSound
        /\ TokensDistinct

-----------------------------------------------------------------------------
(* What one step can do to one job's row and attempts.                     *)

\* A claim, from the queue or over a lease the same transaction swept.
Claimed(r, led, s, m) ==
    /\ r.status \in {"queued", "leased"} /\ ~r.cancel /\ r.epoch < MaxEpoch
    /\ \E q \in Runners : s = ClaimedRow(q, r)
    /\ m = Minted(led, r)

RowMoves(r, s) ==
    \/ r.status = "leased" /\ ~r.cancel
         /\ s = [r EXCEPT !.status = "queued", !.leasedBy = NoRunner]
    \/ r.status = "leased" /\ r.cancel /\ s = [r EXCEPT !.status = "cancelled"]
    \/ r.status = "leased" /\ ~r.cancel /\ r.epoch > 0
         /\ s = [r EXCEPT !.status = "completed", !.result = r.epoch]
    \/ r.status = "leased" /\ ~r.cancel /\ s = [r EXCEPT !.status = "failed"]
    \/ r.status \in {"queued", "leased"} /\ s = [r EXCEPT !.status = "failed"]
    \/ r.status # "absent" /\ s = CancelledRow(r)

JobMove(j) ==
    \/ row'[j] = row[j] /\ ledger'[j] = ledger[j]
    \/ Park(j)
    \/ /\ row'[j] = row[j] /\ row[j].status = "leased"
       /\ ledger'[j] = [ledger[j] EXCEPT ![1] = IF ledger[j][1] = "created"
                                                  THEN "executing" ELSE ledger[j][1]]
    \/ Claimed(row[j], ledger[j], row'[j], ledger'[j])
    \/ RowMoves(row[j], row'[j]) /\ ledger'[j] = ledger[j]

\* The sweeps move a row or leave it.
LEMMA SweptMoves ==
  ASSUME NEW j \in Jobs, NEW lagged, row[j] \in Row
  PROVE  Swept(lagged)[j] = row[j] \/ RowMoves(row[j], Swept(lagged)[j])
  BY DEF Swept, RowMoves, Expired

\* A swept row that can be claimed was queued or leased, uncancelled, at the same
\* epoch and attempt, and claiming it is claiming the row itself.
LEMMA SweptClaimed ==
  ASSUME NEW j \in Jobs, NEW lagged, NEW r \in Runners, NEW led, row[j] \in Row,
         j \in Claimable(Swept(lagged), r)
  PROVE  Claimed(row[j], led, ClaimedRow(r, Swept(lagged)[j]), Minted(led, Swept(lagged)[j]))
<1> DEFINE t == Swept(lagged)[j]
<1>1. t.status = "queued" /\ ~t.cancel /\ t.epoch < MaxEpoch
  BY DEF Claimable
<1>2. t = row[j] \/ (row[j].status = "leased" /\ ~row[j].cancel
                     /\ t = [row[j] EXCEPT !.status = "queued", !.leasedBy = NoRunner])
  BY <1>1 DEF Swept, Expired, Row
<1>3. /\ row[j].status \in {"queued", "leased"} /\ ~row[j].cancel
      /\ row[j].epoch = t.epoch /\ row[j].attempt = t.attempt
  BY <1>1, <1>2 DEF Row
<1>4. ClaimedRow(r, t) = ClaimedRow(r, row[j])
  BY <1>2 DEF ClaimedRow, Row
<1>5. Minted(led, t) = Minted(led, row[j])
  BY <1>3 DEF Minted
<1>6. QED
  BY <1>1, <1>3, <1>4, <1>5 DEF Claimed

\* A report moves the row of the lease it names, or leaves it.
LEMMA ReportMoves ==
  ASSUME TypeOK, NEW w \in Workers, NEW status \in {"completed", "failed"},
         NEW replied, NEW lost, Report(w, status, replied, lost), NEW j \in Jobs
  PROVE  (row'[j] = row[j] \/ RowMoves(row[j], row'[j])) /\ ledger'[j] = ledger[j]
<1>1. row'[j] = row[j] \/ row'[j] = ReportedRow(row[j], w, status)
  BY DEF Report, TypeOK
<1>2. ReportedRow(row[j], w, status) = row[j] \/ RowMoves(row[j], ReportedRow(row[j], w, status))
  BY DEF ReportedRow, RowMoves, HoldsWritableLease, HoldsLease, TypeOK, Row
<1>3. QED
  BY <1>1, <1>2 DEF Report

\* Every step moves every row, with its attempts, in one of the ways RowMove lists.
LEMMA StepMoves ==
  ASSUME TypeOK, Unparked, [Next]_vars, NEW j \in Jobs
  PROVE  JobMove(j)
<1> row[j] \in Row
  BY DEF TypeOK
<1>1. ASSUME NEW k \in Jobs, Park(k) PROVE JobMove(j)
  BY <1>1 DEF Park, JobMove, TypeOK
<1>2. ASSUME NEW k \in Jobs, Poll(k) PROVE JobMove(j)
  BY <1>2 DEF Poll, FireOnLease, JobMove, TypeOK
<1>3. ASSUME NEW k \in Jobs, Expire(k) PROVE JobMove(j)
  BY <1>3 DEF Expire, JobMove, RowMoves, TypeOK, Row
<1>4. ASSUME NEW w \in Workers, Claim(w) PROVE JobMove(j)
  <2> DEFINE t == Swept(lag[w])
  <2>1. PICK i \in Jobs :
           /\ i \in Claimable(t, RunnerOf[w])
           /\ row' = [t EXCEPT ![i] = ClaimedRow(RunnerOf[w], t[i])]
           /\ ledger' = [ledger EXCEPT ![i] = Minted(ledger[i], t[i])]
    BY <1>4 DEF Claim, Picks
  <2>2. t \in [Jobs -> Row]
    BY SweptType DEF TypeOK
  <2>3. CASE i = j
    BY <2>1, <2>2, <2>3, SweptClaimed, HubAssumption DEF JobMove, TypeOK
  <2>4. CASE i # j
    BY <2>1, <2>2, <2>4, SweptMoves DEF JobMove, TypeOK
  <2>5. QED
    BY <2>3, <2>4
<1>5. ASSUME NEW w \in Workers, ClaimNothing(w) PROVE JobMove(j)
  BY <1>5, SweptMoves DEF ClaimNothing, JobMove
<1>6. ASSUME NEW w \in Workers, Submit(w) \/ Resubmit(w) \/ FailJob(w) PROVE JobMove(j)
  BY <1>6, ReportMoves DEF Submit, Resubmit, FailJob, JobMove
<1>7. ASSUME CancelUpdate PROVE JobMove(j)
  BY <1>7 DEF CancelUpdate, JobMove, RowMoves, Unparked
<1>8. ASSUME UNCHANGED <<row, ledger>> PROVE JobMove(j)
  BY <1>8 DEF JobMove
<1>9. QED
  BY <1>1, <1>2, <1>3, <1>4, <1>5, <1>6, <1>7, <1>8
  DEF Next, DispatcherStep, WorkerStep, DispatcherCrash, StartLease, ClaimFails, Heartbeat,
      HeartbeatReply, WorkerCrash, CancelSelect, Tick, vars


-----------------------------------------------------------------------------
(* IInv is inductive, part by part.                                        *)

\* IInv holds at the start: no row, no attempt, no token.
LEMMA InitSound == Init => IInv
<1> SUFFICES ASSUME Init PROVE IInv
  OBVIOUS
<1>1. TypeOK
  BY InitTyped
<1>2. Unparked /\ Resolved
  BY DEF Init, Unparked, Resolved
<1>3. \A j \in Jobs : AttemptSound(row[j], ledger[j])
  BY DEF Init, AttemptSound, NoRow, Live
<1>4. TokensSound /\ TokensDistinct
  BY DEF Init, TokensSound, TokensDistinct, HasToken, Idle, Busy, InRun, Reporting
<1>5. QED
  BY <1>1, <1>2, <1>3, <1>4 DEF IInv

\* A claim leaves the new lease's attempt alive and no other.
LEMMA ClaimedSound ==
  ASSUME NEW r \in Row, NEW led \in [1..MaxEpoch -> AttemptState], NEW s, NEW m,
         AttemptSound(r, led), Claimed(r, led, s, m)
  PROVE  AttemptSound(s, m)
<1>1. PICK q \in Runners : s = ClaimedRow(q, r)
  BY DEF Claimed
<1>2. /\ r.status \in {"queued", "leased"} /\ r.epoch \in Nat /\ r.epoch < MaxEpoch
      /\ m = Minted(led, r) /\ MaxEpoch \in Nat
  BY HubAssumption DEF Claimed, Row, Epochs
<1>3. /\ s.status = "leased" /\ s.epoch = r.epoch + 1
      /\ s.attempt = IF r.epoch = 0 THEN r.attempt ELSE r.epoch + 1
  BY <1>1 DEF ClaimedRow, Row
<1>4. CASE r.epoch = 0
  BY <1>2, <1>3, <1>4 DEF AttemptSound, Minted
<1>5. CASE r.epoch # 0
  <2>1. r.attempt = r.epoch /\ \A e \in 1..MaxEpoch : led[e] \in Live => e = r.epoch
    BY <1>2, <1>5 DEF AttemptSound
  <2>2. m = [e \in 1..MaxEpoch |->
               IF e = r.epoch + 1 THEN "executing"
               ELSE IF e = r.epoch /\ led[e] \in Live THEN "superseded" ELSE led[e]]
    BY <1>2, <1>5, <2>1 DEF Minted, Live
  <2>3. \A e \in 1..MaxEpoch : m[e] \in Live <=> e = r.epoch + 1
    BY <1>2, <2>1, <2>2 DEF Live
  <2>4. r.epoch + 1 \in 1..MaxEpoch
    BY <1>2
  <2>5. QED
    BY <1>2, <1>3, <1>5, <2>3, <2>4 DEF AttemptSound
<1>6. QED
  BY <1>4, <1>5

\* Each way a row can move keeps the row and its attempts in agreement.
LEMMA RowMovesSound ==
  ASSUME NEW r \in Row, NEW s, NEW led, AttemptSound(r, led), RowMoves(r, s)
  PROVE  AttemptSound(s, led)
<1>1. r.epoch \in Nat
  BY HubAssumption DEF Row, Epochs
<1>2. /\ s.attempt = r.attempt /\ s.epoch = r.epoch
      /\ r.status # "absent" /\ s.status # "absent"
  BY DEF RowMoves, CancelledRow, Row
<1>3. s.status = "completed" => s.result = s.epoch /\ s.epoch = s.attempt
  <2>1. CASE /\ r.status = "leased" /\ r.epoch > 0
             /\ s = [r EXCEPT !.status = "completed", !.result = r.epoch]
    BY <1>1, <2>1 DEF AttemptSound, Row
  <2>2. CASE s = CancelledRow(r)
    BY <1>2, <2>2 DEF CancelledRow, AttemptSound, Row
  <2>3. CASE s.status # "completed"
    BY <2>3
  <2>4. QED
    BY <2>1, <2>2, <2>3 DEF RowMoves, Row
<1>4. QED
  BY <1>2, <1>3 DEF AttemptSound

\* AttemptSound and Unparked are kept by a step.
LEMMA AttemptStep ==
  ASSUME TypeOK, Unparked, NEW j \in Jobs, AttemptSound(row[j], ledger[j]), JobMove(j)
  PROVE  AttemptSound(row'[j], ledger'[j])
<1>1. row[j] \in Row /\ ledger[j] \in [1..MaxEpoch -> AttemptState] /\ 1 \in 1..MaxEpoch
  BY HubAssumption DEF TypeOK
<1>2. CASE Park(j)
  <2>1. row'[j] = [NoRow EXCEPT !.status = "queued", !.attempt = 1]
    BY <1>2 DEF Park, TypeOK
  <2>2. ledger'[j] = [ledger[j] EXCEPT ![1] = "created"]
    BY <1>2 DEF Park, TypeOK
  <2>3. \A e \in 1..MaxEpoch : ledger[j][e] = "none"
    BY <1>2 DEF Park, Unparked
  <2>4. \A e \in 1..MaxEpoch : ledger'[j][e] \in Live <=> e = 1
    BY <1>1, <2>2, <2>3 DEF Live
  <2>5. QED
    BY <1>1, <2>1, <2>4 DEF AttemptSound, NoRow
<1>3. CASE /\ row'[j] = row[j] /\ row[j].status = "leased"
           /\ ledger'[j] = [ledger[j] EXCEPT ![1] = IF ledger[j][1] = "created"
                                                      THEN "executing" ELSE ledger[j][1]]
  <2>1. \A e \in 1..MaxEpoch : ledger'[j][e] \in Live <=> ledger[j][e] \in Live
    BY <1>1, <1>3 DEF Live
  <2>2. row[j].attempt \in 1..MaxEpoch
    BY <1>1, <1>3, HubAssumption DEF AttemptSound, Row, Epochs
  <2>3. QED
    BY <1>3, <2>1, <2>2 DEF AttemptSound
<1>4. CASE Claimed(row[j], ledger[j], row'[j], ledger'[j])
  BY <1>1, <1>4, ClaimedSound
<1>5. CASE RowMoves(row[j], row'[j]) /\ ledger'[j] = ledger[j]
  BY <1>1, <1>5, RowMovesSound
<1>6. QED
  BY <1>2, <1>3, <1>4, <1>5 DEF JobMove

\* Only parking, while the dispatch is idle, gives a job its row.
LEMMA UnparkedStep ==
  ASSUME TypeOK, Unparked, [Next]_vars
  PROVE  Unparked'
<1>1. ASSUME NEW j \in Jobs, disp'[j] = "idle" PROVE disp[j] = "idle" /\ ~Park(j)
  BY <1>1 DEF TypeOK, Next, DispatcherStep, WorkerStep, Park, Poll, Settlement, Expire,
     DispatcherCrash, StartLease, Claim, ClaimNothing, ClaimFails, Heartbeat, HeartbeatReply,
     Submit, Resubmit, FailJob, Report, WorkerCrash, CancelSelect, CancelUpdate, Tick, vars
<1>2. ASSUME NEW j \in Jobs, disp'[j] = "idle"
      PROVE  row'[j] = NoRow /\ \A e \in 1..MaxEpoch : ledger'[j][e] = "none"
  <2>1. row[j] = NoRow /\ \A e \in 1..MaxEpoch : ledger[j][e] = "none"
    BY <1>1, <1>2 DEF Unparked
  <2>2. JobMove(j) /\ ~Park(j)
    BY StepMoves, <1>1, <1>2
  <2>3. row[j].status = "absent"
    BY <2>1 DEF NoRow
  <2>4. ~RowMoves(row[j], row'[j]) /\ ~Claimed(row[j], ledger[j], row'[j], ledger'[j])
    BY <2>3 DEF RowMoves, Claimed
  <2>5. QED
    BY <2>1, <2>2, <2>3, <2>4 DEF JobMove
<1>3. ASSUME NEW j \in cancelling' PROVE row'[j].status # "absent"
  <2>1. j \in Jobs /\ row[j].status # "absent"
    BY <1>3 DEF TypeOK, Unparked, Next, DispatcherStep, WorkerStep, Park, Poll, Expire,
     DispatcherCrash, StartLease, Claim, ClaimNothing, ClaimFails, Heartbeat, HeartbeatReply,
     Submit, Resubmit, FailJob, Report, WorkerCrash, CancelSelect, CancelUpdate, Tick, vars
  <2>2. JobMove(j) /\ row[j] \in Row
    BY <2>1, StepMoves DEF TypeOK
  <2>3. ASSUME Park(j) PROVE row'[j].status # "absent"
    BY <2>1, <2>3 DEF Park, TypeOK, NoRow
  <2>4. ASSUME RowMoves(row[j], row'[j]) PROVE row'[j].status # "absent"
    BY <2>1, <2>2, <2>4 DEF RowMoves, CancelledRow, Row
  <2>5. ASSUME Claimed(row[j], ledger[j], row'[j], ledger'[j]) PROVE row'[j].status # "absent"
    BY <2>2, <2>5 DEF Claimed, ClaimedRow, Row
  <2>6. QED
    BY <2>1, <2>2, <2>3, <2>4, <2>5 DEF JobMove
<1>4. QED
  BY <1>2, <1>3 DEF Unparked


\* A completed row keeps its status and attempt: a poll that answered with them
\* stays right.
LEMMA CompletedStays ==
  ASSUME TypeOK, NEW j \in Jobs, JobMove(j), row[j].status = "completed", ~Park(j)
  PROVE  row'[j].status = "completed" /\ row'[j].attempt = row[j].attempt
<1>1. row[j] \in Row
  BY DEF TypeOK
<1>2. ~Claimed(row[j], ledger[j], row'[j], ledger'[j])
  BY DEF Claimed
<1>3. ASSUME RowMoves(row[j], row'[j]) PROVE row'[j] = CancelledRow(row[j])
  BY <1>3 DEF RowMoves
<1>4. QED
  BY <1>1, <1>2, <1>3 DEF JobMove, CancelledRow, Row

\* A dispatch that was told a result stays with it.
LEMMA ResolvedStep ==
  ASSUME TypeOK, Unparked, Resolved, [Next]_vars
  PROVE  Resolved'
<1> SUFFICES ASSUME NEW j \in Jobs, disp'[j] = "resolved"
             PROVE  row'[j].status = "completed" /\ reply'[j] = row'[j].attempt
  BY DEF Resolved
<1>1. \/ disp[j] = "resolved" /\ reply'[j] = reply[j]
      \/ row[j].status = "completed" /\ reply'[j] = row[j].attempt
  <2>1. ASSUME NEW k \in Jobs, Poll(k)
        PROVE  \/ disp[j] = "resolved" /\ reply'[j] = reply[j]
               \/ row[j].status = "completed" /\ reply'[j] = row[j].attempt
    <3>1. CASE k = j
      <4>1. Settlement(outcome(row[j])) = "resolved"
        BY <2>1, <3>1 DEF Poll, TypeOK
      <4>2. outcome(row[j]) = "completed"
        BY <4>1 DEF Settlement
      <4>3. QED
        BY <2>1, <3>1, <4>2 DEF Poll, outcome, TypeOK
    <3>2. CASE k # j
      BY <2>1, <3>2 DEF Poll, TypeOK
    <3>3. QED
      BY <3>1, <3>2
  <2>2. QED
    BY <2>1 DEF TypeOK, Next, DispatcherStep, WorkerStep, Park, Expire, DispatcherCrash,
       StartLease, Claim, ClaimNothing, ClaimFails, Heartbeat, HeartbeatReply, Submit, Resubmit,
       FailJob, Report, WorkerCrash, CancelSelect, CancelUpdate, Tick, vars
<1>2. row[j].status = "completed" /\ reply'[j] = row[j].attempt
  BY <1>1 DEF Resolved
<1>3. ~Park(j)
  BY <1>2 DEF Park, Unparked, NoRow
<1>4. QED
  BY <1>2, <1>3, StepMoves, CompletedStays

\* A row's epoch never goes down, and a job nobody parked has no token.
LEMMA EpochGrows ==
  ASSUME TypeOK, NEW j \in Jobs, JobMove(j), ~Park(j)
  PROVE  row'[j].epoch \in Nat /\ row'[j].epoch >= row[j].epoch
<1>1. row[j] \in Row /\ row[j].epoch \in Nat
  BY HubAssumption DEF TypeOK, Row, Epochs
<1>2. ASSUME RowMoves(row[j], row'[j]) PROVE row'[j].epoch = row[j].epoch
  BY <1>1, <1>2 DEF RowMoves, CancelledRow, Row
<1>3. ASSUME Claimed(row[j], ledger[j], row'[j], ledger'[j])
      PROVE  row'[j].epoch = row[j].epoch + 1
  BY <1>1, <1>3 DEF Claimed, ClaimedRow, Row
<1>4. QED
  BY <1>1, <1>2, <1>3 DEF JobMove

\* What a step can do to a worker: leave its token alone or take it away, unless a
\* claim's reply hands it the token of the lease it just made.
KeepsToken(w) == /\ worker'[w].job = worker[w].job /\ worker'[w].epoch = worker[w].epoch
                 /\ worker'[w].pc \in Busy <=> worker[w].pc \in Busy
DropsToken(w) == worker'[w].job = NoJob /\ worker'[w].pc \notin Busy
GetsToken(w) == /\ worker'[w].pc \in Busy
                /\ worker'[w].job \in Jobs
                /\ worker'[w].epoch = row'[worker'[w].job].epoch
                /\ row'[worker'[w].job].epoch > row[worker'[w].job].epoch

\* A step gives out at most one token, and it is the claimed row's newest.
LEMMA WorkerMoves ==
  ASSUME TypeOK, TokensSound, [Next]_vars
  PROVE  \/ \A w \in Workers : KeepsToken(w) \/ DropsToken(w)
         \/ \E w \in Workers : GetsToken(w) /\ \A v \in Workers \ {w} : KeepsToken(v)
<1> DEFINE Conclusion == \/ \A w \in Workers : KeepsToken(w) \/ DropsToken(w)
                         \/ \E w \in Workers : GetsToken(w) /\ \A v \in Workers \ {w} : KeepsToken(v)
<1>1. ASSUME NEW w \in Workers, worker' = [worker EXCEPT ![w] = Idle] PROVE Conclusion
  BY <1>1 DEF KeepsToken, DropsToken, Idle, TypeOK, Busy, InRun, Reporting
<1>2. ASSUME NEW w \in Workers, NEW pc, worker' = [worker EXCEPT ![w].pc = pc],
             pc \in Busy <=> worker[w].pc \in Busy
      PROVE  Conclusion
  BY <1>2 DEF KeepsToken, TypeOK, Worker
<1>3. ASSUME UNCHANGED worker PROVE Conclusion
  BY <1>3 DEF KeepsToken
<1>4. ASSUME NEW w \in Workers, Claim(w) PROVE Conclusion
  <2> DEFINE t == Swept(lag[w])
  <2>1. PICK j \in Jobs :
           /\ j \in Claimable(t, RunnerOf[w])
           /\ row' = [t EXCEPT ![j] = ClaimedRow(RunnerOf[w], t[j])]
           /\ \/ worker' = [worker EXCEPT ![w] =
                              [pc |-> "running", job |-> j, epoch |-> row'[j].epoch]]
              \/ worker' = [worker EXCEPT ![w] = Idle]
    BY <1>4 DEF Claim, Picks
  <2>2. CASE worker' = [worker EXCEPT ![w] = Idle]
    BY <2>2, <1>1
  <2>3. CASE worker' = [worker EXCEPT ![w] =
                          [pc |-> "running", job |-> j, epoch |-> row'[j].epoch]]
    <3> t \in [Jobs -> Row]
      BY SweptType DEF TypeOK
    <3>1. row[j] \in Row /\ row[j].epoch \in Nat
      BY HubAssumption DEF TypeOK, Row, Epochs
    <3>2. t[j].epoch = row[j].epoch
      BY <3>1 DEF Swept, Row
    <3>3. row'[j].epoch = row[j].epoch + 1
      BY <2>1, <3>1, <3>2 DEF ClaimedRow, Row
    <3>4. GetsToken(w)
      BY <2>3, <3>1, <3>3 DEF GetsToken, TypeOK, Busy, InRun, Reporting
    <3>5. \A v \in Workers \ {w} : KeepsToken(v)
      BY <2>3 DEF KeepsToken, TypeOK
    <3>6. QED
      BY <3>4, <3>5
  <2>4. QED
    BY <2>1, <2>2, <2>3
<1>5. ASSUME NEW w \in Workers, StartLease(w) PROVE Conclusion
  BY <1>5, <1>2 DEF StartLease, Busy, InRun, Reporting
<1>6. ASSUME NEW w \in Workers, Heartbeat(w) PROVE Conclusion
  BY <1>6, <1>2, <1>3, BeatMoves DEF Busy
<1>7. ASSUME NEW w \in Workers, HeartbeatReply(w) PROVE Conclusion
  BY <1>7, <1>2, <1>3, BeatMoves DEF Busy
<1>8. ASSUME NEW w \in Workers, Submit(w) \/ Resubmit(w) \/ FailJob(w) PROVE Conclusion
  BY <1>8, <1>1, <1>2 DEF Submit, Resubmit, FailJob, Report, Busy, InRun, Reporting
<1>9. ASSUME NEW w \in Workers, ClaimNothing(w) \/ ClaimFails(w) \/ WorkerCrash(w) PROVE Conclusion
  BY <1>9, <1>1 DEF ClaimNothing, ClaimFails, WorkerCrash
<1>10. QED
  BY <1>3, <1>4, <1>5, <1>6, <1>7, <1>8, <1>9
  DEF Next, DispatcherStep, WorkerStep, Park, Poll, Expire, DispatcherCrash, CancelSelect,
      CancelUpdate, Tick, vars


\* A token never outruns its row, and the newest is the only one of its epoch.
LEMMA TokenStep ==
  ASSUME TypeOK, Unparked, TokensSound, TokensDistinct, [Next]_vars
  PROVE  TokensSound' /\ TokensDistinct'
<1>1. ASSUME NEW w \in Workers, HasToken(w)
      PROVE  /\ worker[w].job \in Jobs /\ worker[w].epoch \in Nat
             /\ row[worker[w].job].epoch \in Nat
             /\ 1 <= worker[w].epoch /\ worker[w].epoch <= row[worker[w].job].epoch
  BY <1>1, HubAssumption DEF TokensSound, HasToken, TypeOK, Worker, Row, Epochs
<1>2. ASSUME NEW w \in Workers, HasToken(w)
      PROVE  /\ row'[worker[w].job].epoch \in Nat
             /\ row'[worker[w].job].epoch >= row[worker[w].job].epoch
  <2> DEFINE j == worker[w].job
  <2>1. j \in Jobs /\ row[j].epoch > 0
    BY <1>1, <1>2
  <2>2. ~Park(j)
    BY <2>1 DEF Park, Unparked, NoRow
  <2>3. QED
    BY <2>1, <2>2, StepMoves, EpochGrows
<1>3. ASSUME NEW w \in Workers, KeepsToken(w) \/ DropsToken(w)
      PROVE  /\ worker'[w].pc \in Busy <=> worker'[w].job # NoJob
             /\ worker'[w].job # NoJob => worker'[w].epoch \in 1..row'[worker'[w].job].epoch
  BY <1>1, <1>2, <1>3 DEF KeepsToken, DropsToken, TokensSound, HasToken
<1>4. ASSUME NEW w \in Workers, GetsToken(w)
      PROVE  /\ worker'[w].pc \in Busy <=> worker'[w].job # NoJob
             /\ worker'[w].epoch \in 1..row'[worker'[w].job].epoch
  <2>1. worker'[w].job \in Jobs /\ NoJob \notin Jobs
    BY <1>4, HubAssumption DEF GetsToken
  <2>2. TypeOK'
    BY NextTyped
  <2>3. row'[worker'[w].job].epoch \in Nat /\ row[worker'[w].job].epoch \in Nat
    <3>1. row'[worker'[w].job] \in Row /\ row[worker'[w].job] \in Row
      BY <2>1, <2>2 DEF TypeOK
    <3>2. \A r \in Row : r.epoch \in Nat
      BY HubAssumption DEF Row, Epochs
    <3>3. QED
      BY <3>1, <3>2
  <2>4. QED
    BY <1>4, <2>1, <2>3 DEF GetsToken
<1>5. TokensSound'
  BY <1>3, <1>4, WorkerMoves DEF TokensSound, HasToken
<1>6. ASSUME NEW v \in Workers, NEW w \in Workers, v # w,
             worker'[v].job # NoJob, worker'[v].job = worker'[w].job
      PROVE  worker'[v].epoch # worker'[w].epoch
  <2>1. CASE \A u \in Workers : KeepsToken(u) \/ DropsToken(u)
    BY <1>6, <2>1 DEF KeepsToken, DropsToken, TokensDistinct, HasToken
  <2>2. ASSUME NEW g \in Workers, GetsToken(g), NEW k \in Workers \ {g}, KeepsToken(k),
               worker'[k].job = worker'[g].job
        PROVE  worker'[k].epoch # worker'[g].epoch
    <3> DEFINE j == worker'[g].job
    <3>1. /\ j \in Jobs /\ j # NoJob /\ worker'[g].epoch = row'[j].epoch
          /\ row'[j].epoch > row[j].epoch
      BY <2>2, HubAssumption DEF GetsToken
    <3>2. /\ worker[k].job = j /\ worker[k].epoch = worker'[k].epoch
      BY <2>2 DEF KeepsToken
    <3>3. /\ worker[k].epoch \in Nat /\ row[j].epoch \in Nat /\ worker[k].epoch <= row[j].epoch
      BY <1>1, <3>1, <3>2 DEF HasToken
    <3>4. row'[j].epoch \in Nat
      BY <1>2, <3>1, <3>2 DEF HasToken
    <3>5. QED
      BY <3>1, <3>2, <3>3, <3>4
  <2>3. CASE \E g \in Workers : GetsToken(g) /\ \A k \in Workers \ {g} : KeepsToken(k)
    <3>1. PICK g \in Workers : GetsToken(g) /\ \A k \in Workers \ {g} : KeepsToken(k)
      BY <2>3
    <3>2. CASE v = g \/ w = g
      BY <1>6, <2>2, <3>1, <3>2
    <3>3. CASE v # g /\ w # g
      BY <1>6, <3>1, <3>3 DEF KeepsToken, TokensDistinct, HasToken
    <3>4. QED
      BY <3>2, <3>3
  <2>4. QED
    BY <2>1, <2>3, WorkerMoves
<1>7. TokensDistinct'
  BY <1>6 DEF TokensDistinct, HasToken
<1>8. QED
  BY <1>5, <1>7

\* IInv is inductive.
LEMMA NextSound == IInv /\ [Next]_vars => IInv'
<1> SUFFICES ASSUME IInv, [Next]_vars PROVE IInv'
  OBVIOUS
<1> USE DEF IInv
<1>1. TypeOK' /\ Unparked'
  BY NextTyped, UnparkedStep
<1>2. (\A j \in Jobs : AttemptSound(row[j], ledger[j]))'
  BY StepMoves, AttemptStep
<1>3. Resolved' /\ TokensSound' /\ TokensDistinct'
  BY ResolvedStep, TokenStep
<1>4. QED
  BY <1>1, <1>2, <1>3

\* The inductive invariant IInv holds in every reachable state: rows, attempt ledger,
\* answers and lease tokens agree.
THEOREM Inductive == Spec => []IInv
  BY InitSound, NextSound, PTL DEF Spec

-----------------------------------------------------------------------------
(* The safety invariants.                                                  *)

\* No two workers ever hold the same lease token, for any number of runners,
\* workers, jobs and leases.
THEOREM TokensStayDistinct == Spec => []TokensDistinct
<1>1. IInv => TokensDistinct
  BY DEF IInv
<1>2. QED
  BY <1>1, Inductive, PTL

\* At most one attempt of a job is alive, and it is the one its row names.
THEOREM AttemptsExclusive == Spec => []OneLiveAttempt
<1>1. IInv => OneLiveAttempt
  BY DEF IInv, AttemptSound, OneLiveAttempt, Live
<1>2. QED
  BY <1>1, Inductive, PTL

\* A stored result is the current attempt's, and a resolved dispatch settles it.
THEOREM ResultsAttributed == Spec => []ResultAttribution
<1>1. IInv => ResultAttribution
  BY DEF IInv, AttemptSound, Resolved, ResultAttribution, Live
<1>2. QED
  BY <1>1, Inductive, PTL


-----------------------------------------------------------------------------
(* The action properties and the contract.                                 *)

\* No step rewrites the outcome of a row that has ended: late reports, sweeps,
\* expiries and cancels leave its status, result, attempt, epoch and holder alone.
THEOREM OutcomesFrozen == Spec => OutcomeFrozen
<1>1. ASSUME IInv, [Next]_vars, NEW j \in Jobs, row[j].status \in Terminal
      PROVE  [row'[j] EXCEPT !.cancel = row[j].cancel] = row[j]
  <2>1. row[j] \in Row /\ JobMove(j)
    BY <1>1, StepMoves DEF IInv, TypeOK
  <2>2. ~Park(j)
    BY <1>1 DEF IInv, Unparked, Park, NoRow, Terminal
  <2>3. ~Claimed(row[j], ledger[j], row'[j], ledger'[j])
    BY <1>1 DEF Claimed, Terminal
  <2>4. ASSUME RowMoves(row[j], row'[j]) PROVE row'[j] = CancelledRow(row[j])
    BY <1>1, <2>4 DEF RowMoves, Terminal
  <2>5. row'[j] = row[j] \/ row'[j] = [row[j] EXCEPT !.cancel = TRUE]
    <3>1. CancelledRow(row[j]) = [row[j] EXCEPT !.cancel = TRUE]
      BY <1>1, <2>1 DEF CancelledRow, Terminal, Row
    <3>2. QED
      BY <2>1, <2>2, <2>3, <2>4, <3>1 DEF JobMove
  <2>6. QED
    BY <2>1, <2>5 DEF Row
<1>2. IInv /\ [Next]_vars =>
        [\A j \in Jobs : row[j].status \in Terminal =>
            [row'[j] EXCEPT !.cancel = row[j].cancel] = row[j]]_vars
  BY <1>1
<1>3. QED
  BY <1>2, Inductive, PTL DEF Spec, OutcomeFrozen

\* A cancel that landed while the row was open is final: no later lease, no result.
THEOREM CancelsStick == Spec => CancelSticks
<1>1. ASSUME IInv, [Next]_vars, NEW j \in Jobs, row[j].cancel, row[j].status \notin Terminal
      PROVE  row'[j].epoch = row[j].epoch /\ row'[j].status # "completed"
  <2>1. row[j] \in Row /\ JobMove(j)
    BY <1>1, StepMoves DEF IInv, TypeOK
  <2>2. ~Park(j)
    BY <1>1 DEF IInv, Unparked, Park, NoRow
  <2>3. ~Claimed(row[j], ledger[j], row'[j], ledger'[j])
    BY <1>1 DEF Claimed
  <2>4. ASSUME RowMoves(row[j], row'[j])
        PROVE  row'[j].epoch = row[j].epoch /\ row'[j].status # "completed"
    <3>1. CASE row'[j] = CancelledRow(row[j])
      BY <1>1, <2>1, <3>1 DEF CancelledRow, Terminal, Row
    <3>2. CASE \E s \in {"cancelled", "failed"} : row'[j] = [row[j] EXCEPT !.status = s]
      BY <2>1, <3>2 DEF Row
    <3>3. QED
      BY <1>1, <2>4, <3>1, <3>2 DEF RowMoves
  <2>5. QED
    BY <1>1, <2>1, <2>2, <2>3, <2>4 DEF JobMove, Terminal
<1>2. IInv /\ [Next]_vars =>
        [\A j \in Jobs : row[j].cancel /\ row[j].status \notin Terminal =>
            row'[j].epoch = row[j].epoch /\ row'[j].status # "completed"]_vars
  BY <1>1
<1>3. QED
  BY <1>2, Inductive, PTL DEF Spec, CancelSticks

\* Nobody but the holder of the current, unrevoked token keeps a lease alive.
THEOREM RenewalsFenced == Spec => OnlyHolderRenews
<1>1. ASSUME IInv, [Next]_vars, NEW j \in Jobs, row[j].status = "leased",
             row'[j].epoch = row[j].epoch, age'[j] < age[j]
      PROVE  ~row[j].cancel /\ \E w \in Workers : worker[w].job = j /\ worker[w].epoch = row[j].epoch
  <2>1. TypeOK /\ row[j] \in Row /\ age[j] \in Nat /\ row[j].epoch \in Nat
    <3>1. TypeOK
      BY <1>1 DEF IInv
    <3>2. row[j] \in Row /\ age[j] \in Nat
      BY <3>1, Bounds DEF TypeOK
    <3>3. QED
      BY <3>1, <3>2, HubAssumption DEF Row, Epochs
  <2>2. age'[j] # age[j]
    BY <1>1, <2>1
  <2>3. ASSUME NEW k \in Jobs, Park(k) PROVE FALSE
    BY <1>1, <2>1, <2>2, <2>3 DEF IInv, Unparked, Park, NoRow, TypeOK
  <2>4. ASSUME NEW r, age' = Touched(age, r, 0) PROVE FALSE
    BY <1>1, <2>2, <2>4 DEF Touched
  <2>5. ASSUME NEW w \in Workers, Claim(w) PROVE FALSE
    <3> DEFINE t == Swept(lag[w])
    <3>1. PICK i \in Jobs : /\ row' = [t EXCEPT ![i] = ClaimedRow(RunnerOf[w], t[i])]
                            /\ age' = [age EXCEPT ![i] = lag[w]]
      BY <2>5 DEF Claim
    <3>2. i = j
      BY <2>1, <2>2, <3>1 DEF TypeOK
    <3>3. t \in [Jobs -> Row] /\ t[j].epoch = row[j].epoch
      <4>1. t \in [Jobs -> Row]
        BY SweptType, <2>1 DEF TypeOK
      <4>2. t[j].epoch = row[j].epoch
        BY <2>1 DEF Swept, Row
      <4>3. QED
        BY <4>1, <4>2
    <3>4. row'[j].epoch = row[j].epoch + 1
      BY <3>1, <3>2, <3>3 DEF ClaimedRow, Row
    <3>5. QED
      BY <1>1, <2>1, <3>4
  <2>6. ASSUME NEW w \in Workers, Heartbeat(w)
        PROVE  ~row[j].cancel /\ worker[w].job = j /\ worker[w].epoch = row[j].epoch
    BY <2>1, <2>2, <2>6 DEF Heartbeat, HoldsWritableLease, HoldsLease, TypeOK
  <2>7. ASSUME Tick PROVE FALSE
    BY <1>1, <2>1, <2>7 DEF Tick
  <2>8. QED
    BY <1>1, <2>2, <2>3, <2>4, <2>5, <2>6, <2>7
    DEF Next, DispatcherStep, WorkerStep, Poll, Expire, DispatcherCrash, StartLease,
        ClaimNothing, ClaimFails, HeartbeatReply, Submit, Resubmit, FailJob, Report,
        WorkerCrash, CancelSelect, CancelUpdate, vars
<1>2. IInv /\ [Next]_vars =>
        [\A j \in Jobs :
           (row[j].status = "leased" /\ row'[j].epoch = row[j].epoch /\ age'[j] < age[j])
             => /\ ~row[j].cancel
                /\ \E w \in Workers : worker[w].job = j /\ worker[w].epoch = row[j].epoch]_vars
  BY <1>1
<1>3. QED
  BY <1>2, Inductive, PTL DEF Spec, OnlyHolderRenews

-----------------------------------------------------------------------------
(* The lease contract: each job's moves map to the contract's.             *)

\* The standing of a row, as the refinement mapping of StoreRunnerHub has it.
Standing(r) ==
    [phase |-> CASE r.status = "absent" -> "absent"
                 [] r.status = "queued" -> "waiting"
                 [] r.status = "leased" /\ ~r.cancel -> "held"
                 [] r.status = "leased" /\ r.cancel -> "revoked"
                 [] OTHER -> "ended",
     epoch |-> r.epoch,
     holder |-> r.leasedBy,
     verdict |-> IF r.status \in Terminal THEN r.status ELSE "none"]

\* A standing by its fields; the contract's moves, on standings written so.
Std(phase, epoch, holder, verdict) ==
    [phase |-> phase, epoch |-> epoch, holder |-> holder, verdict |-> verdict]

\* A returned lease waits with nobody holding it.
LEMMA StdReturned ==
  ASSUME NEW e, NEW h
  PROVE  Contract!Returned(Std("held", e, h, "none"), Std("waiting", e, NoRunner, "none"))
<1> DEFINE s == Std("held", e, h, "none")
<1>1. [s EXCEPT !.phase = "waiting", !.holder = NoRunner]
        = [f \in {"phase", "epoch", "holder", "verdict"} |->
             IF f = "phase" THEN "waiting" ELSE IF f = "holder" THEN NoRunner ELSE s[f]]
  BY DEF Std
<1>2. [s EXCEPT !.phase = "waiting", !.holder = NoRunner] = Std("waiting", e, NoRunner, "none")
  BY <1>1 DEF Std
<1>3. QED
  BY <1>2 DEF Contract!Returned, Std

\* A completion ends a held job.
LEMMA StdReported ==
  ASSUME NEW e, NEW h
  PROVE  Contract!Reported(Std("held", e, h, "none"), Std("ended", e, h, "completed"))
<1> DEFINE s == Std("held", e, h, "none")
<1>1. [s EXCEPT !.phase = "ended", !.verdict = "completed"]
        = [f \in {"phase", "epoch", "holder", "verdict"} |->
             IF f = "phase" THEN "ended" ELSE IF f = "verdict" THEN "completed" ELSE s[f]]
  BY DEF Std
<1>2. [s EXCEPT !.phase = "ended", !.verdict = "completed"] = Std("ended", e, h, "completed")
  BY <1>1 DEF Std
<1>3. QED
  BY <1>2 DEF Contract!Reported, Std

\* A cancel revokes a held job.
LEMMA StdRevoked ==
  ASSUME NEW e, NEW h
  PROVE  Contract!Cancelled(Std("held", e, h, "none"), Std("revoked", e, h, "none"))
<1> DEFINE s == Std("held", e, h, "none")
<1>1. [s EXCEPT !.phase = "revoked"]
        = [f \in {"phase", "epoch", "holder", "verdict"} |->
             IF f = "phase" THEN "revoked" ELSE s[f]]
  BY DEF Std
<1>2. [s EXCEPT !.phase = "revoked"] = Std("revoked", e, h, "none")
  BY <1>1 DEF Std
<1>3. QED
  BY <1>2 DEF Contract!Cancelled, Std

\* A cancel ends a waiting job.
LEMMA StdCancelled ==
  ASSUME NEW e, NEW h
  PROVE  Contract!Cancelled(Std("waiting", e, h, "none"), Std("ended", e, h, "cancelled"))
<1> DEFINE s == Std("waiting", e, h, "none")
<1>1. [s EXCEPT !.phase = "ended", !.verdict = "cancelled"]
        = [f \in {"phase", "epoch", "holder", "verdict"} |->
             IF f = "phase" THEN "ended" ELSE IF f = "verdict" THEN "cancelled" ELSE s[f]]
  BY DEF Std
<1>2. [s EXCEPT !.phase = "ended", !.verdict = "cancelled"] = Std("ended", e, h, "cancelled")
  BY <1>1 DEF Std
<1>3. QED
  BY <1>2 DEF Contract!Cancelled, Std

\* A revoked job ends as cancelled.
LEMMA StdReclaimed ==
  ASSUME NEW e, NEW h
  PROVE  Contract!Reclaimed(Std("revoked", e, h, "none"), Std("ended", e, h, "cancelled"))
<1> DEFINE s == Std("revoked", e, h, "none")
<1>1. [s EXCEPT !.phase = "ended", !.verdict = "cancelled"]
        = [f \in {"phase", "epoch", "holder", "verdict"} |->
             IF f = "phase" THEN "ended" ELSE IF f = "verdict" THEN "cancelled" ELSE s[f]]
  BY DEF Std
<1>2. [s EXCEPT !.phase = "ended", !.verdict = "cancelled"] = Std("ended", e, h, "cancelled")
  BY <1>1 DEF Std
<1>3. QED
  BY <1>2 DEF Contract!Reclaimed, Std

\* A waiting job can lapse.
LEMMA StdLapsedWaiting ==
  ASSUME NEW e, NEW h
  PROVE  Contract!Lapsed(Std("waiting", e, h, "none"), Std("ended", e, h, "failed"))
<1> DEFINE s == Std("waiting", e, h, "none")
<1>1. [s EXCEPT !.phase = "ended", !.verdict = "failed"]
        = [f \in {"phase", "epoch", "holder", "verdict"} |->
             IF f = "phase" THEN "ended" ELSE IF f = "verdict" THEN "failed" ELSE s[f]]
  BY DEF Std
<1>2. [s EXCEPT !.phase = "ended", !.verdict = "failed"] = Std("ended", e, h, "failed")
  BY <1>1 DEF Std
<1>3. QED
  BY <1>2 DEF Contract!Lapsed, Std

\* A held job can lapse.
LEMMA StdLapsedHeld ==
  ASSUME NEW e, NEW h
  PROVE  Contract!Lapsed(Std("held", e, h, "none"), Std("ended", e, h, "failed"))
<1> DEFINE s == Std("held", e, h, "none")
<1>1. [s EXCEPT !.phase = "ended", !.verdict = "failed"]
        = [f \in {"phase", "epoch", "holder", "verdict"} |->
             IF f = "phase" THEN "ended" ELSE IF f = "verdict" THEN "failed" ELSE s[f]]
  BY DEF Std
<1>2. [s EXCEPT !.phase = "ended", !.verdict = "failed"] = Std("ended", e, h, "failed")
  BY <1>1 DEF Std
<1>3. QED
  BY <1>2 DEF Contract!Lapsed, Std

\* A revoked job can lapse.
LEMMA StdLapsedRevoked ==
  ASSUME NEW e, NEW h
  PROVE  Contract!Lapsed(Std("revoked", e, h, "none"), Std("ended", e, h, "failed"))
<1> DEFINE s == Std("revoked", e, h, "none")
<1>1. [s EXCEPT !.phase = "ended", !.verdict = "failed"]
        = [f \in {"phase", "epoch", "holder", "verdict"} |->
             IF f = "phase" THEN "ended" ELSE IF f = "verdict" THEN "failed" ELSE s[f]]
  BY DEF Std
<1>2. [s EXCEPT !.phase = "ended", !.verdict = "failed"] = Std("ended", e, h, "failed")
  BY <1>1 DEF Std
<1>3. QED
  BY <1>2 DEF Contract!Lapsed, Std

\* A waiting job can be granted, under the next epoch.
LEMMA StdGrantedWaiting ==
  ASSUME NEW e, NEW h, NEW q \in Runners
  PROVE  Contract!Granted(Std("waiting", e, h, "none"), Std("held", e + 1, q, "none"))
<1> DEFINE s == Std("waiting", e, h, "none")
<1>1. [s EXCEPT !.phase = "held", !.epoch = s.epoch + 1, !.holder = q]
        = [f \in {"phase", "epoch", "holder", "verdict"} |->
             IF f = "phase" THEN "held" ELSE IF f = "epoch" THEN s.epoch + 1 ELSE IF f = "holder" THEN q ELSE s[f]]
  BY DEF Std
<1>2. [s EXCEPT !.phase = "held", !.epoch = s.epoch + 1, !.holder = q] = Std("held", e + 1, q, "none")
  BY <1>1 DEF Std
<1>3. QED
  BY <1>2 DEF Contract!Granted, Std

\* A held job can be granted, under the next epoch.
LEMMA StdGrantedHeld ==
  ASSUME NEW e, NEW h, NEW q \in Runners
  PROVE  Contract!Granted(Std("held", e, h, "none"), Std("held", e + 1, q, "none"))
<1> DEFINE s == Std("held", e, h, "none")
<1>1. [s EXCEPT !.phase = "held", !.epoch = s.epoch + 1, !.holder = q]
        = [f \in {"phase", "epoch", "holder", "verdict"} |->
             IF f = "phase" THEN "held" ELSE IF f = "epoch" THEN s.epoch + 1 ELSE IF f = "holder" THEN q ELSE s[f]]
  BY DEF Std
<1>2. [s EXCEPT !.phase = "held", !.epoch = s.epoch + 1, !.holder = q] = Std("held", e + 1, q, "none")
  BY <1>1 DEF Std
<1>3. QED
  BY <1>2 DEF Contract!Granted, Std

\* The standing the contract sees, from the status of a row.
LEMMA StandingOf ==
  ASSUME NEW r
  PROVE  /\ r.status = "queued" => Standing(r) = Std("waiting", r.epoch, r.leasedBy, "none")
         /\ r.status = "leased" /\ ~r.cancel =>
              Standing(r) = Std("held", r.epoch, r.leasedBy, "none")
         /\ r.status = "leased" /\ r.cancel =>
              Standing(r) = Std("revoked", r.epoch, r.leasedBy, "none")
         /\ r.status \in Terminal => Standing(r) = Std("ended", r.epoch, r.leasedBy, r.status)
  BY DEF Standing, Std, Terminal

\* park() is the contract's Offer.
LEMMA ParkOffers ==
  Contract!Offered(Standing(NoRow), Standing([NoRow EXCEPT !.status = "queued", !.attempt = 1]))
  BY DEF Contract!Offered, Standing, NoRow, Terminal

\* A claim is the contract's Grant.
LEMMA ClaimGrants ==
  ASSUME NEW r \in Row, NEW led, NEW s, NEW m, Claimed(r, led, s, m)
  PROVE  Contract!Granted(Standing(r), Standing(s))
<1>1. PICK q \in Runners : s = ClaimedRow(q, r)
  BY DEF Claimed
<1>2. \/ Standing(r) = Std("waiting", r.epoch, r.leasedBy, "none")
      \/ Standing(r) = Std("held", r.epoch, r.leasedBy, "none")
  BY StandingOf DEF Claimed
<1>3. /\ s.status = "leased" /\ ~s.cancel
      /\ s.epoch = r.epoch + 1 /\ s.leasedBy = q
  BY <1>1 DEF Claimed, ClaimedRow, Row
<1>4. Standing(s) = Std("held", r.epoch + 1, q, "none")
  BY <1>3, StandingOf
<1>5. QED
  BY <1>2, <1>4, StdGrantedWaiting, StdGrantedHeld

\* A sweep returns or reclaims, a report reports, an expiry lapses, a cancel cancels.
LEMMA RowMovesKeep ==
  ASSUME NEW r \in Row, NEW s, RowMoves(r, s)
  PROVE  Standing(s) = Standing(r) \/ Contract!Moves(Standing(r), Standing(s))
<1>1. CASE r.status = "leased" /\ ~r.cancel
             /\ s = [r EXCEPT !.status = "queued", !.leasedBy = NoRunner]
  <2>1. Standing(r) = Std("held", r.epoch, r.leasedBy, "none") /\ Standing(s) = Std("waiting", s.epoch, s.leasedBy, "none")
    BY <1>1, StandingOf DEF Row
  <2>2. s.epoch = r.epoch /\ s.leasedBy = NoRunner
    BY <1>1 DEF Row
  <2>3. QED
    BY <2>1, <2>2, StdReturned DEF Contract!Moves
<1>2. CASE s.status \in Terminal /\ s.epoch = r.epoch /\ s.leasedBy = r.leasedBy
           /\ r.status \in {"queued", "leased"}
  <2> DEFINE ended == Std("ended", r.epoch, r.leasedBy, s.status)
  <2>1. Standing(s) = ended
    BY <1>2, StandingOf
  <2>2. CASE s.status = "failed"
    <3>1. \/ Standing(r) = Std("waiting", r.epoch, r.leasedBy, "none") \/ Standing(r) = Std("held", r.epoch, r.leasedBy, "none")
          \/ Standing(r) = Std("revoked", r.epoch, r.leasedBy, "none")
      BY <1>2, StandingOf
    <3>2. QED
      BY <2>1, <2>2, <3>1, StdLapsedWaiting, StdLapsedHeld, StdLapsedRevoked DEF Contract!Moves
  <2>3. CASE s.status = "completed"
    <3>1. Standing(r) = Std("held", r.epoch, r.leasedBy, "none")
      <4>1. r.status = "leased" /\ ~r.cancel
        BY <1>2, <2>3 DEF RowMoves, CancelledRow, Row
      <4>2. QED
        BY <4>1, StandingOf
    <3>2. QED
      BY <2>1, <2>3, <3>1, StdReported DEF Contract!Moves
  <2>4. CASE s.status = "cancelled"
    <3>1. Standing(r) = Std("waiting", r.epoch, r.leasedBy, "none") \/ Standing(r) = Std("revoked", r.epoch, r.leasedBy, "none")
      BY <1>2, <2>4, StandingOf DEF RowMoves, CancelledRow, Row
    <3>2. QED
      BY <2>1, <2>4, <3>1, StdCancelled, StdReclaimed DEF Contract!Moves
  <2>5. QED
    BY <1>2, <2>2, <2>3, <2>4 DEF Terminal
<1>3. CASE r.status = "leased" /\ ~r.cancel /\ s = CancelledRow(r)
  <2>1. Standing(r) = Std("held", r.epoch, r.leasedBy, "none") /\ Standing(s) = Std("revoked", s.epoch, s.leasedBy, "none")
    BY <1>3, StandingOf DEF CancelledRow, Row
  <2>2. s.epoch = r.epoch /\ s.leasedBy = r.leasedBy
    BY <1>3 DEF CancelledRow, Row
  <2>3. QED
    BY <2>1, <2>2, StdRevoked DEF Contract!Moves
<1>4. CASE r.status \in Terminal \/ (r.status = "leased" /\ r.cancel /\ s = CancelledRow(r))
  <2>1. s = CancelledRow(r)
    BY <1>4 DEF RowMoves, Terminal
  <2>2. s = [r EXCEPT !.cancel = TRUE]
    BY <1>4, <2>1 DEF CancelledRow, Row, Terminal
  <2>3. QED
    BY <1>4, <2>2, StandingOf DEF Row, Terminal
<1>5. QED
  BY <1>1, <1>2, <1>3, <1>4 DEF RowMoves, CancelledRow, Row, Terminal

\* Every way a job can move is a step of the contract for that job, or none.
LEMMA JobMoveKeeps ==
  ASSUME IInv, NEW j \in Jobs, JobMove(j)
  PROVE  Standing(row'[j]) = Standing(row[j])
         \/ Contract!Moves(Standing(row[j]), Standing(row'[j]))
<1>1. row[j] \in Row
  BY DEF IInv, TypeOK
<1>2. CASE Park(j)
  <2>1. row[j] = NoRow /\ row'[j] = [NoRow EXCEPT !.status = "queued", !.attempt = 1]
    BY <1>2 DEF Park, IInv, TypeOK, Unparked
  <2>2. QED
    BY <2>1, ParkOffers DEF Contract!Moves
<1>3. CASE Claimed(row[j], ledger[j], row'[j], ledger'[j])
  BY <1>1, <1>3, ClaimGrants DEF Contract!Moves
<1>4. CASE RowMoves(row[j], row'[j])
  BY <1>1, <1>4, RowMovesKeep
<1>5. CASE row'[j] = row[j]
  BY <1>5
<1>6. QED
  BY <1>2, <1>3, <1>4, <1>5 DEF JobMove

\* The shared-table hub keeps the lease contract, for any jobs, runners and workers.
THEOREM HubKeepsContract == Spec => KeepsContract
<1> DEFINE mapped == [j \in Jobs |-> Standing(row[j])]
<1>1. Init => Contract!Init
  BY DEF Init, Contract!Init, Contract!Absent, NoRow, Terminal
<1>2. IInv /\ [Next]_vars => [Contract!Next]_mapped
  <2> SUFFICES ASSUME IInv, [Next]_vars PROVE Contract!Next
    OBVIOUS
  <2>1. \A j \in Jobs : Standing(row'[j]) = Standing(row[j])
                        \/ Contract!Moves(Standing(row[j]), Standing(row'[j]))
    BY StepMoves, JobMoveKeeps DEF IInv
  <2>2. QED
    BY <2>1 DEF Contract!Next, Standing
<1>3. QED
  BY <1>1, <1>2, Inductive, PTL DEF Spec, KeepsContract, Contract!Spec, Standing

=============================================================================
