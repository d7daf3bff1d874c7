-------------------------- MODULE LeadershipProofs --------------------------
(***************************************************************************)
(* Proofs about Leadership, for any number of replicas, any lease and      *)
(* renewal interval, and any number of upserts under way.                  *)
(*                                                                         *)
(* The safety of the election rests on a race of three clocks: a belief,   *)
(* the row it was earned with, and the reply between them.  The invariant  *)
(* compares each belief, and each winning reply still under way, with      *)
(* what is left of the row.  Replies may be as slow as they like: what a   *)
(* late one adds to a belief is counted apart, in overrun.                 *)
(***************************************************************************)
EXTENDS Leadership, TLAPS

(***************************************************************************)
(* The parts of the inductive invariant.                                   *)
(***************************************************************************)

\* The part of a belief that no late reply added ends before the row does, which is
\* the believer's.
BeliefUnderRow ==
    \A r \in Replicas :
       Serving(r) /\ belief[r] > overrun[r] => row.holder = r /\ row.left >= belief[r] - overrun[r]

\* A winning reply younger than the lease is on its way from a row that is the
\* replica's still, and that was a whole lease when the reply left.
ReplyUnderRow ==
    \A r \in Replicas, i \in Calls :
       Serving(r) /\ call[r][i].st = "won" /\ call[r][i].age < Ttl
          => row.holder = r /\ row.left + call[r][i].age >= Ttl

\* Before its first upsert a replica has nothing under way; a DELETE is that of a
\* replica that was told to stop.
Boots ==
    \A r \in Replicas :
       /\ proc[r] = "new" => belief[r] = 0 /\ \A i \in Calls : call[r][i].st = "none"
       /\ release[r] => ~Serving(r) /\ proc[r] # "new"

IInv == TypeOK /\ BeliefUnderRow /\ ReplyUnderRow /\ Boots

-----------------------------------------------------------------------------
\* Started() takes a booting replica up and leaves the others as they are.
LEMMA StartedKeeps ==
    ASSUME TypeOK, NEW r \in Replicas, proc[r] \in Alive, NEW q \in Replicas
    PROVE  /\ Started(r) \in [Replicas -> Alive \cup {"new", "gone"}]
           /\ Started(r)[q] \in {"booting", "up"} <=> proc[q] \in {"booting", "up"}
           /\ Started(r)[q] = "new" <=> proc[q] = "new"
BY DEF TypeOK, Started, Alive

\* Every step keeps the types, the election's state staying within its bounds.
LEMMA TypeStep == TypeOK /\ [Next]_vars => TypeOK'
<1> SUFFICES ASSUME TypeOK, [Next]_vars PROVE TypeOK'
    OBVIOUS
<1> USE LeadershipAssumption
<1>1. CASE Tick
  <2>1. row' \in [holder : Replicas \cup {NoHolder}, left : -1 .. Ttl]
    <3>1. (IF row.left >= 0 THEN row.left - 1 ELSE row.left) \in -1 .. Ttl
        BY DEF TypeOK
    <3> QED
        BY <1>1, <3>1 DEF TypeOK, Tick
  <2>2. belief' \in [Replicas -> 0 .. (Ttl - Renew)] /\ beat' \in [Replicas -> 0 .. Renew]
      BY <1>1 DEF TypeOK, Tick, Less
  <2>4. overrun' \in [Replicas -> 0 .. (Ttl - Renew)]
      BY <1>1 DEF TypeOK, Tick, Less, Least
  <2>3. call' \in [Replicas -> [Calls -> [st : {"none", "sent", "won", "lost"}, age : 0 .. Ttl]]]
    <3>1. ASSUME NEW r \in Replicas, NEW i \in Calls
          PROVE  (IF call[r][i].st = "won" THEN [call[r][i] EXCEPT !.age = Least(@ + 1, Ttl)]
                  ELSE call[r][i])
                    \in [st : {"none", "sent", "won", "lost"}, age : 0 .. Ttl]
      <4>1. call[r][i] \in [st : {"none", "sent", "won", "lost"}, age : 0 .. Ttl]
          BY DEF TypeOK
      <4>2. Least(call[r][i].age + 1, Ttl) \in 0 .. Ttl
          BY <4>1 DEF Least
      <4> QED
          BY <4>1, <4>2
    <3> QED
        BY <1>1, <3>1 DEF Tick
  <2> QED
      BY <1>1, <2>1, <2>2, <2>3, <2>4 DEF TypeOK, Tick
<1>2. CASE Outage \/ Repair
    BY <1>2 DEF TypeOK, Outage, Repair
<1>3. ASSUME NEW r \in Replicas, Start(r) PROVE TypeOK'
    BY <1>3 DEF TypeOK, Start, Sends, Alive
<1>4. ASSUME NEW r \in Replicas, TimerFires(r) PROVE TypeOK'
    BY <1>4 DEF TypeOK, TimerFires, Sends
<1>5. ASSUME NEW r \in Replicas, Stop(r) PROVE TypeOK'
    BY <1>5 DEF TypeOK, Stop, isLeader, Alive
<1>6. ASSUME NEW r \in Replicas, ReleaseExecutes(r) PROVE TypeOK'
    BY <1>6 DEF TypeOK, ReleaseExecutes
<1>7. ASSUME NEW r \in Replicas, Exit(r) \/ Crash(r) PROVE TypeOK'
  <2>1. call' \in [Replicas -> [Calls -> [st : {"none", "sent", "won", "lost"}, age : 0 .. Ttl]]]
    <3>1. \A i \in Calls : (IF call[r][i].st = "sent" THEN call[r][i] ELSE Idle)
                             \in [st : {"none", "sent", "won", "lost"}, age : 0 .. Ttl]
        BY DEF TypeOK, Idle
    <3>2. call' = [call EXCEPT ![r] = [i \in Calls |-> IF @[i].st = "sent" THEN @[i] ELSE Idle]]
        BY <1>7 DEF Exit, Crash, Ends
    <3> QED
        BY <3>1, <3>2 DEF TypeOK
  <2>2. /\ proc' \in [Replicas -> Alive \cup {"new", "gone"}] /\ belief' \in [Replicas -> 0 .. (Ttl - Renew)]
        /\ overrun' \in [Replicas -> 0 .. (Ttl - Renew)] /\ beat' \in [Replicas -> 0 .. Renew]
    <3>1. /\ proc' = [proc EXCEPT ![r] = "gone"] /\ belief' = [belief EXCEPT ![r] = 0]
          /\ overrun' = [overrun EXCEPT ![r] = 0] /\ beat' = [beat EXCEPT ![r] = 0]
        BY <1>7 DEF Exit, Crash, Ends
    <3> QED
        BY <3>1 DEF TypeOK
  <2>3. row' = row /\ database' = database /\ release' \in [Replicas -> BOOLEAN]
      BY <1>7 DEF TypeOK, Exit, Crash
  <2> QED
      BY <2>1, <2>2, <2>3 DEF TypeOK
<1>8. ASSUME NEW r \in Replicas, NEW i \in Calls, ClaimExecutes(r, i) PROVE TypeOK'
    BY <1>8 DEF TypeOK, ClaimExecutes, Idle
<1>9. ASSUME NEW r \in Replicas, NEW i \in Calls, ReplyArrives(r, i) PROVE TypeOK'
  <2>1. Excess(call[r][i]) \in 0 .. (Ttl - Renew)
    <3>1. call[r][i] \in [st : {"none", "sent", "won", "lost"}, age : 0 .. Ttl]
        BY DEF TypeOK
    <3> QED
        BY <3>1 DEF Excess
  <2> QED
      BY <1>9, <2>1, StartedKeeps DEF TypeOK, ReplyArrives, Believed, Idle
<1>10. ASSUME NEW r \in Replicas, NEW i \in Calls, CallFails(r, i) PROVE TypeOK'
    BY <1>10, StartedKeeps DEF TypeOK, CallFails, Idle
<1>11. CASE UNCHANGED vars
    BY <1>11 DEF TypeOK, vars
<1> QED
    BY <1>1, <1>2, <1>3, <1>4, <1>5, <1>6, <1>7, <1>8, <1>9, <1>10, <1>11 DEF Next

\* The row of a replica that leads by right, or is about to, is not up for a takeover.
LEMMA NotClaimable ==
    ASSUME IInv, NEW r \in Replicas, Serving(r),
           \/ belief[r] > overrun[r]
           \/ \E i \in Calls : call[r][i].st = "won" /\ call[r][i].age < Ttl,
           NEW q \in Replicas, Claimable(q)
    PROVE  q = r
<1> USE LeadershipAssumption
<1>1. row.left \in -1 .. Ttl /\ belief[r] \in Nat /\ overrun[r] \in Nat
    BY DEF IInv, TypeOK
<1>2. row.holder = r /\ row.left > 0
  <2>1. CASE belief[r] > overrun[r]
      BY <1>1, <2>1 DEF IInv, BeliefUnderRow
  <2>2. CASE \E i \in Calls : call[r][i].st = "won" /\ call[r][i].age < Ttl
    <3>1. PICK i \in Calls : call[r][i].st = "won" /\ call[r][i].age < Ttl
        BY <2>2
    <3>2. call[r][i].age \in 0 .. Ttl
        BY DEF IInv, TypeOK
    <3>3. row.holder = r /\ row.left + call[r][i].age >= Ttl
        BY <3>1 DEF IInv, ReplyUnderRow
    <3> QED
        BY <1>1, <3>1, <3>2, <3>3
  <2> QED
      BY <2>1, <2>2
<1> QED
    BY <1>1, <1>2 DEF Claimable

\* Every step keeps the comparison of the clocks.
LEMMA InvStep == IInv /\ [Next]_vars => IInv'
<1> SUFFICES ASSUME IInv, [Next]_vars PROVE IInv'
    OBVIOUS
<1> USE LeadershipAssumption
<1>0. TypeOK /\ TypeOK'
    BY TypeStep DEF IInv
<1>1. CASE Tick
  <2>1. BeliefUnderRow'
      BY <1>0, <1>1 DEF IInv, TypeOK, BeliefUnderRow, Serving, Tick, Less, Least
  <2>2. ReplyUnderRow'
      BY <1>0, <1>1 DEF IInv, TypeOK, ReplyUnderRow, Serving, Tick, Least
  <2>3. Boots'
      BY <1>0, <1>1 DEF IInv, TypeOK, Boots, Serving, Tick, Less
  <2> QED
      BY <1>0, <2>1, <2>2, <2>3 DEF IInv
<1>2. CASE Outage \/ Repair \/ UNCHANGED vars
    BY <1>0, <1>2 DEF IInv, BeliefUnderRow, ReplyUnderRow, Boots, Serving, Outage, Repair, vars
<1>3. ASSUME NEW r \in Replicas, Start(r) PROVE IInv'
  <2>1. belief[r] = 0 /\ \A i \in Calls : call[r][i].st = "none"
      BY <1>3 DEF Start, IInv, Boots
  <2>2. BeliefUnderRow' /\ Boots'
      BY <1>0, <1>3, <2>1 DEF Start, Sends, IInv, TypeOK, BeliefUnderRow, Boots, Serving
  <2>3. ReplyUnderRow'
      BY <1>0, <1>3, <2>1 DEF Start, Sends, IInv, TypeOK, ReplyUnderRow, Serving
  <2> QED
      BY <1>0, <2>2, <2>3 DEF IInv
<1>4. ASSUME NEW r \in Replicas, TimerFires(r) PROVE IInv'
  <2>1. BeliefUnderRow' /\ Boots'
      BY <1>0, <1>4 DEF TimerFires, Sends, IInv, TypeOK, BeliefUnderRow, Boots, Serving
  <2>2. ReplyUnderRow'
      BY <1>0, <1>4 DEF TimerFires, Sends, IInv, TypeOK, ReplyUnderRow, Serving
  <2> QED
      BY <1>0, <2>1, <2>2 DEF IInv
<1>5. ASSUME NEW r \in Replicas, Stop(r) PROVE IInv'
    BY <1>0, <1>5 DEF Stop, isLeader, IInv, TypeOK, BeliefUnderRow, ReplyUnderRow, Boots, Serving
<1>6. ASSUME NEW r \in Replicas, ReleaseExecutes(r) PROVE IInv'
  <2>1. ~Serving(r)
      BY <1>6 DEF ReleaseExecutes, IInv, Boots
  <2> QED
      BY <1>0, <1>6, <2>1 DEF ReleaseExecutes, IInv, TypeOK, BeliefUnderRow, ReplyUnderRow, Boots, Serving
<1>7. ASSUME NEW r \in Replicas, Exit(r) \/ Crash(r) PROVE IInv'
  <2>1. proc' = [proc EXCEPT ![r] = "gone"] /\ row' = row /\ Ends(r)
      BY <1>7 DEF Exit, Crash, Ends
  <2>2. \A q \in Replicas : release'[q] => release[q]
      BY <1>0, <1>7 DEF Exit, Crash, TypeOK
  <2>3. \A q \in Replicas \ {r} : proc'[q] = proc[q] /\ belief'[q] = belief[q] /\ overrun'[q] = overrun[q] /\ call'[q] = call[q]
      BY <1>0, <2>1 DEF Ends, TypeOK
  <2>4. proc'[r] = "gone"
      BY <1>0, <2>1 DEF TypeOK
  <2> QED
      BY <1>0, <2>1, <2>2, <2>3, <2>4 DEF IInv, BeliefUnderRow, ReplyUnderRow, Boots, Serving
<1>8. ASSUME NEW r \in Replicas, NEW i \in Calls, ClaimExecutes(r, i) PROVE IInv'
  <2>1. \A q \in Replicas : proc'[q] = proc[q] /\ belief'[q] = belief[q] /\ overrun'[q] = overrun[q] /\ release'[q] = release[q]
      BY <1>8 DEF ClaimExecutes
  <2>2. /\ \A q \in Replicas, j \in Calls : <<q, j>> # <<r, i>> => call'[q][j] = call[q][j]
        /\ call'[r][i].st = "won" => Claimable(r) /\ call'[r][i].age = 0
        /\ proc[r] # "new"
      BY <1>0, <1>8 DEF ClaimExecutes, TypeOK, Idle, Alive, IInv, Boots
  <2>3. CASE Claimable(r)
    <3>1. row'.holder = r /\ row'.left = Ttl
        BY <1>8, <2>3 DEF ClaimExecutes
    <3>2. \A q \in Replicas :
             /\ Serving(q)
             /\ belief[q] > overrun[q] \/ \E j \in Calls : call[q][j].st = "won" /\ call[q][j].age < Ttl
             => q = r
        BY <2>3, NotClaimable
    <3>3. BeliefUnderRow'
        BY <1>0, <2>1, <3>1, <3>2 DEF BeliefUnderRow, Serving, TypeOK
    <3>4. ReplyUnderRow'
        BY <1>0, <2>1, <2>2, <3>1, <3>2 DEF ReplyUnderRow, Serving, TypeOK
    <3>5. Boots'
        BY <2>1, <2>2 DEF IInv, Boots, Serving
    <3> QED
        BY <1>0, <3>3, <3>4, <3>5 DEF IInv
  <2>4. CASE ~Claimable(r)
    <3>1. row' = row
        BY <1>8, <2>4 DEF ClaimExecutes
    <3> QED
        BY <1>0, <2>1, <2>2, <2>4, <3>1 DEF IInv, BeliefUnderRow, ReplyUnderRow, Boots, Serving
  <2> QED
      BY <2>3, <2>4
<1>9. ASSUME NEW r \in Replicas, NEW i \in Calls, ReplyArrives(r, i) PROVE IInv'
  <2>1. /\ row' = row /\ release' = release /\ proc[r] \in Alive /\ proc' = Started(r)
        /\ \A q \in Replicas : q # r => belief'[q] = belief[q] /\ overrun'[q] = overrun[q]
        /\ \A q \in Replicas, j \in Calls : call'[q][j].st # "none" => call'[q][j] = call[q][j]
      BY <1>0, <1>9 DEF ReplyArrives, TypeOK, Idle
  <2>2. \A q \in Replicas : (Serving(q)' <=> Serving(q)) /\ (proc'[q] = "new" <=> proc[q] = "new")
      BY <1>0, <2>1, StartedKeeps DEF Serving
  <2>3. belief'[r] = Believed(call[r][i].st) /\ overrun'[r] = Excess(call[r][i])
      BY <1>0, <1>9 DEF ReplyArrives, TypeOK
  <2>4. Serving(r) /\ belief'[r] > overrun'[r] => row.holder = r /\ row.left >= belief'[r] - overrun'[r]
    <3> HAVE Serving(r) /\ belief'[r] > overrun'[r]
    <3>1. call[r][i].age \in 0 .. Ttl /\ row.left \in -1 .. Ttl
        BY <1>0 DEF TypeOK
    <3>2. call[r][i].st = "won" /\ call[r][i].age < Ttl
        BY <2>3, <3>1 DEF Believed, Excess
    <3>3. row.holder = r /\ row.left + call[r][i].age >= Ttl
        BY <3>2 DEF IInv, ReplyUnderRow
    <3> QED
        BY <2>3, <3>1, <3>2, <3>3 DEF Believed, Excess
  <2>5. BeliefUnderRow' /\ ReplyUnderRow'
      BY <2>1, <2>2, <2>4 DEF IInv, BeliefUnderRow, ReplyUnderRow
  <2>6. proc[r] # "new"
      BY <2>1 DEF Alive
  <2>7. Boots'
      BY <2>1, <2>2, <2>6 DEF IInv, Boots
  <2> QED
      BY <1>0, <2>5, <2>7 DEF IInv
<1>10. ASSUME NEW r \in Replicas, NEW i \in Calls, CallFails(r, i) PROVE IInv'
  <2>1. /\ row' = row /\ release' = release /\ proc[r] \in Alive /\ proc' = Started(r) /\ belief' = belief /\ overrun' = overrun
        /\ \A q \in Replicas, j \in Calls : call'[q][j].st # "none" => call'[q][j] = call[q][j]
      BY <1>0, <1>10 DEF CallFails, TypeOK, Idle
  <2>2. \A q \in Replicas : (Serving(q)' <=> Serving(q)) /\ (proc'[q] = "new" <=> proc[q] = "new")
      BY <1>0, <2>1, StartedKeeps DEF Serving
  <2> QED
      BY <1>0, <2>1, <2>2 DEF IInv, BeliefUnderRow, ReplyUnderRow, Boots
<1> QED
    BY <1>1, <1>2, <1>3, <1>4, <1>5, <1>6, <1>7, <1>8, <1>9, <1>10 DEF Next

LEMMA InvInit == Init => IInv
BY LeadershipAssumption DEF Init, IInv, TypeOK, BeliefUnderRow, ReplyUnderRow, Boots, Serving, Idle, Alive

-----------------------------------------------------------------------------
\* The election's state keeps its types: a belief is never longer than the lease less
\* the margin that renew() takes off it.
THEOREM ElectionTypeCorrect == Spec => []TypeOK
<1>1. Init => TypeOK
    BY InvInit DEF IInv
<1> QED
    BY <1>1, TypeStep, PTL DEF Spec

\* The inductive invariant.
THEOREM ElectionInvariant == Spec => []IInv
<1>1. IInv /\ [Next]_vars => IInv'
    BY InvStep
<1> QED
    BY <1>1, InvInit, PTL DEF Spec

\* heldUntil <= expires_at, but for what a late reply added: a replica that was not told
\* to stop leads by right only under its own unexpired row, however slow the replies.
THEOREM BeliefsExpireFirst == Spec => []NeverActsPastLease
<1>1. IInv => NeverActsPastLease
    BY DEF IInv, BeliefUnderRow, NeverActsPastLease, Leading
<1> QED
    BY <1>1, ElectionInvariant, PTL

\* No two replicas lead by right at once.
THEOREM LeadersAreUnique == Spec => []OneLeader
<1>1. NeverActsPastLease => OneLeader
    BY DEF NeverActsPastLease, OneLeader
<1> QED
    BY <1>1, BeliefsExpireFirst, PTL

\* The upsert and the DELETE of other replicas never take the row from under a leader.
THEOREM LeadersKeepTheRow == Spec => NotTakenUnder
<1> DEFINE A == \A r \in Replicas : (row.holder = r /\ row'.holder # r) => r \notin Leading
<1>1. IInv /\ [Next]_vars => [A]_vars
  <2> SUFFICES ASSUME IInv, Next, NEW r \in Replicas,
                      row.holder = r, row'.holder # r, r \in Leading
               PROVE  FALSE
      OBVIOUS
  <2>1. ASSUME NEW q \in Replicas, NEW i \in Calls, ClaimExecutes(q, i) PROVE FALSE
    <3>1. Claimable(q) /\ row'.holder = q
        BY <2>1 DEF ClaimExecutes
    <3> QED
        BY <3>1, NotClaimable DEF Leading
  <2>2. ASSUME NEW q \in Replicas, ReleaseExecutes(q) PROVE FALSE
      BY <2>2 DEF ReleaseExecutes, IInv, Boots, Leading
  <2>3. CASE Tick
      BY <2>3 DEF Tick, IInv, TypeOK
  <2>4. ASSUME row' = row PROVE FALSE
      BY <2>4
  <2> QED
      BY <2>1, <2>2, <2>3, <2>4
      DEF Next, Outage, Repair, Start, TimerFires, Stop, Exit, Crash, ReplyArrives, CallFails
<1> QED
    BY <1>1, ElectionInvariant, PTL DEF NotTakenUnder, Spec

-----------------------------------------------------------------------------
(* The refinement of LeaderLock.                                           *)

\* Who leads under the invariant is the owner of the row.
LEMMA LeaderOwns ==
    ASSUME IInv
    PROVE  Leading \subseteq {row.holder} /\ Leading \subseteq Replicas
    BY DEF IInv, BeliefUnderRow, Leading

\* The same, after a step.
LEMMA LeaderOwnsNext ==
    ASSUME IInv'
    PROVE  Leading' \subseteq {row'.holder} /\ Leading' \subseteq Replicas
    BY DEF IInv, BeliefUnderRow, Leading

\* Where the row changes hands nobody leads: an upsert takes a row nobody leads under, a
\* DELETE is that of a replica told to stop, and neither gives anybody a belief.
LEMMA PassesUnled ==
    ASSUME IInv, IInv', Next, row'.holder # row.holder
    PROVE  Leading = {} /\ Leading' = {}
<1>1. /\ Leading' = Leading
      /\ \A r \in Leading : row'.holder = r
  <2>1. ASSUME NEW q \in Replicas, NEW i \in Calls, ClaimExecutes(q, i)
        PROVE  Leading' = Leading /\ \A r \in Leading : row'.holder = r
    <3>1. Claimable(q) /\ row'.holder = q
        BY <2>1 DEF ClaimExecutes
    <3>2. \A r \in Leading : q = r
        BY <3>1, NotClaimable DEF Leading
    <3>3. Leading' = Leading
        BY <2>1 DEF ClaimExecutes, Leading, Serving
    <3> QED
        BY <3>1, <3>2, <3>3
  <2>2. ASSUME NEW q \in Replicas, ReleaseExecutes(q)
        PROVE  Leading' = Leading /\ \A r \in Leading : row'.holder = r
    <3>1. q \notin Leading /\ row.holder = q
        BY <2>2 DEF ReleaseExecutes, IInv, Boots, Leading
    <3>2. Leading = {}
        BY <3>1, LeaderOwns
    <3>3. Leading' = Leading
        BY <2>2 DEF ReleaseExecutes, Leading, Serving
    <3> QED
        BY <3>2, <3>3
  <2>3. CASE Tick
      BY <2>3 DEF Tick, IInv, TypeOK
  <2>4. ASSUME row' = row PROVE FALSE
      BY <2>4
  <2> QED
      BY <2>1, <2>2, <2>3, <2>4
      DEF Next, Outage, Repair, Start, TimerFires, Stop, Exit, Crash, ReplyArrives, CallFails
<1>2. \A r \in Leading : row.holder = r
    BY LeaderOwns
<1> QED
    BY <1>1, <1>2

\* The election implements the lock: one leader by right, the owner, and no handover
\* under it (isLeader(), CLAIM_SQL, RELEASE_SQL and the margin of renew()).
THEOREM ElectionKeepsLock == Spec => KeepsLock
<1>1. Init => Lock!Init
  <2> SUFFICES ASSUME Init PROVE Lock!Init
      OBVIOUS
  <2>1. Leading = {}
      BY DEF Init, Leading, Serving
  <2> QED
      BY <2>1 DEF Init, Lock!Init
<1>2. IInv /\ IInv' /\ [Next]_vars => [Lock!Next]_<<row.holder, Leading>>
  <2> SUFFICES ASSUME IInv, IInv', [Next]_vars
               PROVE  [Lock!Next]_<<row.holder, Leading>>
      OBVIOUS
  <2>1. CASE UNCHANGED vars
    <3>1. Leading' = Leading
        BY <2>1 DEF vars, Leading, Serving
    <3> QED
        BY <2>1, <3>1 DEF vars
  <2>2. CASE Next /\ row'.holder # row.holder
    <3>1. Leading = {} /\ Leading' = {}
        BY <2>2, PassesUnled
    <3>2. row'.holder \in Replicas \cup {NoHolder}
        BY DEF IInv, TypeOK
    <3> QED
        BY <3>1, <3>2 DEF Lock!Next, Lock!Passes
  <2>3. CASE row'.holder = row.holder
    <3>1. Leading # {} => row.holder # NoHolder
        BY LeaderOwns, LeadershipAssumption
    <3>2. Leading' # {} => row.holder # NoHolder
        BY <2>3, LeaderOwnsNext, LeadershipAssumption
    <3> QED
        BY <2>3, <3>1, <3>2, LeaderOwns, LeaderOwnsNext DEF Lock!Next, Lock!Leads, Lock!Yields
  <2> QED
      BY <2>1, <2>2, <2>3
<1> QED
    BY <1>1, <1>2, ElectionInvariant, PTL DEF Spec, KeepsLock, Lock!Spec
=============================================================================
