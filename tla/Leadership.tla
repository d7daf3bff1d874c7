----------------------------- MODULE Leadership -----------------------------
(***************************************************************************)
(* The election of the replica that runs the control plane's singleton     *)
(* loops (PgLeaderElector, whenLeader): one lease row that every replica   *)
(* claims by an upsert on a timer, and a belief each replica keeps from    *)
(* the replies.                                                            *)
(*                                                                         *)
(* Time is measured by what is left of it: of the row (expires_at minus    *)
(* now()) and of a belief (heldUntil minus now).  The timer does not wait  *)
(* for the previous upsert, so upserts overlap, execute in any order and   *)
(* are answered in any order.  A replica stands for one boot of a process: *)
(* its holder identity is drawn anew by the next one.                      *)
(*                                                                         *)
(* A reply may be under way for as long as it likes.  overrun is a history *)
(* variable no step reads: what part of a belief lies beyond the row it    *)
(* was earned with, because the reply outlived the margin of one renewal.  *)
(***************************************************************************)
EXTENDS Integers

CONSTANTS Replicas, NoHolder,
          Ttl, Renew,     \* ttlMs and renewMs, in ticks
          Calls           \* the upserts a replica may have under way at once

ASSUME LeadershipAssumption ==
    /\ NoHolder \notin Replicas
    /\ Ttl \in Nat /\ Renew \in Nat \ {0} /\ Renew < Ttl

VARIABLES
    row,       \* the lease row: its holder and what is left of it
    proc,      \* proc[r]: where the process stands
    belief,    \* belief[r]: what is left until heldUntil
    overrun,   \* overrun[r]: how much of it no row ever backed (history)
    beat,      \* beat[r]: ticks since the renewal timer last fired
    call,      \* call[r][i]: the upserts under way
    release,   \* release[r]: whether the DELETE of stop() is under way
    database   \* whether the database answers

vars == <<row, proc, belief, overrun, beat, call, release, database>>

Alive == {"booting", "up", "stopping"}
Idle == [st |-> "none", age |-> 0]

TypeOK ==
    /\ row \in [holder : Replicas \cup {NoHolder}, left : -1 .. Ttl]
    /\ proc \in [Replicas -> Alive \cup {"new", "gone"}]
    /\ belief \in [Replicas -> 0 .. (Ttl - Renew)]
    /\ overrun \in [Replicas -> 0 .. (Ttl - Renew)]
    /\ beat \in [Replicas -> 0 .. Renew]
    /\ call \in [Replicas -> [Calls -> [st : {"none", "sent", "won", "lost"}, age : 0 .. Ttl]]]
    /\ release \in [Replicas -> BOOLEAN]
    /\ database \in {"up", "down"}

Init ==
    /\ row = [holder |-> NoHolder, left |-> -1]
    /\ proc = [r \in Replicas |-> "new"]
    /\ belief = [r \in Replicas |-> 0]
    /\ overrun = [r \in Replicas |-> 0]
    /\ beat = [r \in Replicas |-> 0]
    /\ call = [r \in Replicas |-> [i \in Calls |-> Idle]]
    /\ release = [r \in Replicas |-> FALSE]
    /\ database = "up"

\* isLeader(), what whenLeader asks before each tick of a gated loop.
isLeader(r) == belief[r] > 0

-----------------------------------------------------------------------------
(* start() and the renewals.                                               *)

Sends(r, i) == call' = [call EXCEPT ![r][i] = [st |-> "sent", age |-> 0]]

\* start(): the first upsert; the timer is set once it is answered.
Start(r) ==
    /\ proc[r] = "new"
    /\ \E i \in Calls : Sends(r, i)
    /\ proc' = [proc EXCEPT ![r] = "booting"]
    /\ UNCHANGED <<row, belief, overrun, beat, release, database>>

\* The interval fires, whatever has become of the upserts before.
TimerFires(r) ==
    /\ proc[r] = "up" /\ beat[r] = Renew
    /\ \E i \in Calls : call[r][i].st = "none" /\ Sends(r, i)
    /\ beat' = [beat EXCEPT ![r] = 0]
    /\ UNCHANGED <<row, proc, belief, overrun, release, database>>

\* Mutant: an expired row does not change hands.
ClaimableForEver(r) == row.holder \in {NoHolder, r}

\* CLAIM_SQL: an absent row, one's own, or an expired one.
Claimable(r) == row.holder \in {NoHolder, r} \/ row.left < 0

\* The database executes the upsert.  Nobody waits for the answer of a dead process.
ClaimExecutes(r, i) ==
    /\ call[r][i].st = "sent" /\ database = "up"
    /\ row' = IF Claimable(r) THEN [holder |-> r, left |-> Ttl] ELSE row
    /\ call' = [call EXCEPT ![r][i] =
                  IF proc[r] \notin Alive THEN Idle
                  ELSE [st |-> IF Claimable(r) THEN "won" ELSE "lost", age |-> 0]]
    /\ UNCHANGED <<proc, belief, overrun, beat, release, database>>

\* Mutant: the whole lease is believed in, the margin forgotten.
BelievedWhole(st) == IF st = "won" THEN Ttl ELSE 0

\* What renew() makes of the reply, by the clock of its arrival.
Believed(st) == IF st = "won" THEN Ttl - Renew ELSE 0

\* How far that belief outlives the row, age ticks after the upsert was executed.
Excess(c) == IF c.st = "won" /\ c.age > Renew THEN c.age - Renew ELSE 0

Started(r) == IF proc[r] = "booting" THEN [proc EXCEPT ![r] = "up"] ELSE proc

ReplyArrives(r, i) ==
    /\ call[r][i].st \in {"won", "lost"} /\ proc[r] \in Alive
    /\ belief' = [belief EXCEPT ![r] = Believed(call[r][i].st)]
    /\ overrun' = [overrun EXCEPT ![r] = Excess(call[r][i])]
    /\ call' = [call EXCEPT ![r][i] = Idle]
    /\ proc' = Started(r)
    /\ UNCHANGED <<row, beat, release, database>>

\* The query throws, executed or not: what was earned is kept and decays.
CallFails(r, i) ==
    /\ call[r][i].st # "none" /\ proc[r] \in Alive /\ database = "down"
    /\ call' = [call EXCEPT ![r][i] = Idle]
    /\ proc' = Started(r)
    /\ UNCHANGED <<row, belief, overrun, beat, release, database>>

-----------------------------------------------------------------------------
(* stop() and the ends of a process.                                       *)

\* stop(): the timer is cleared and the belief with it; the DELETE is sent if there
\* was one.  Upserts under way stay under way.
Stop(r) ==
    /\ proc[r] = "up"
    /\ proc' = [proc EXCEPT ![r] = "stopping"]
    /\ belief' = [belief EXCEPT ![r] = 0]
    /\ overrun' = [overrun EXCEPT ![r] = 0]
    /\ beat' = [beat EXCEPT ![r] = 0]
    /\ release' = [release EXCEPT ![r] = isLeader(r)]
    /\ UNCHANGED <<row, call, database>>

\* Mutant: the row goes, whoever holds it by now.
ReleaseBlind(r) ==
    /\ release[r] /\ database = "up"
    /\ row' = [holder |-> NoHolder, left |-> -1]
    /\ release' = [release EXCEPT ![r] = FALSE]
    /\ UNCHANGED <<proc, belief, overrun, beat, call, database>>

\* RELEASE_SQL: the row goes if it is still this holder's.
ReleaseExecutes(r) ==
    /\ release[r] /\ database = "up"
    /\ row' = IF row.holder = r THEN [holder |-> NoHolder, left |-> -1] ELSE row
    /\ release' = [release EXCEPT ![r] = FALSE]
    /\ UNCHANGED <<proc, belief, overrun, beat, call, database>>

\* Upserts the database has not executed yet may still reach it; replies are dropped.
Ends(r) ==
    /\ proc' = [proc EXCEPT ![r] = "gone"]
    /\ belief' = [belief EXCEPT ![r] = 0]
    /\ overrun' = [overrun EXCEPT ![r] = 0]
    /\ beat' = [beat EXCEPT ![r] = 0]
    /\ call' = [call EXCEPT ![r] = [i \in Calls |-> IF @[i].st = "sent" THEN @[i] ELSE Idle]]

\* process.exit(0), once the DELETE was answered; a failed one is swallowed.
Exit(r) ==
    /\ proc[r] = "stopping" /\ (release[r] => database = "down")
    /\ Ends(r)
    /\ release' = [release EXCEPT ![r] = FALSE]
    /\ UNCHANGED <<row, database>>

Crash(r) ==
    /\ proc[r] \in Alive
    /\ Ends(r)
    /\ UNCHANGED <<row, release, database>>

-----------------------------------------------------------------------------
(* Time, and the database (external).                                      *)

Less(n) == IF n > 0 THEN n - 1 ELSE 0
Least(m, n) == IF m < n THEN m ELSE n

\* After Ttl ticks the row of an unanswered upsert has run out, and its age stands.
Tick ==
    /\ row' = [row EXCEPT !.left = IF @ >= 0 THEN @ - 1 ELSE @]
    /\ belief' = [r \in Replicas |-> Less(belief[r])]
    /\ overrun' = [r \in Replicas |-> Least(overrun[r], Less(belief[r]))]
    /\ beat' = [r \in Replicas |-> IF proc[r] = "up" /\ beat[r] < Renew THEN beat[r] + 1 ELSE beat[r]]
    /\ call' = [r \in Replicas |-> [i \in Calls |->
                  IF call[r][i].st = "won" THEN [call[r][i] EXCEPT !.age = Least(@ + 1, Ttl)]
                  ELSE call[r][i]]]
    /\ UNCHANGED <<proc, release, database>>

Outage == database = "up" /\ database' = "down" /\ UNCHANGED <<row, proc, belief, overrun, beat, call, release>>
Repair == database = "down" /\ database' = "up" /\ UNCHANGED <<row, proc, belief, overrun, beat, call, release>>

Next ==
    \/ Tick \/ Outage \/ Repair
    \/ \E r \in Replicas :
          \/ Start(r) \/ TimerFires(r) \/ Stop(r) \/ ReleaseExecutes(r) \/ Exit(r) \/ Crash(r)
          \/ \E i \in Calls : ClaimExecutes(r, i) \/ ReplyArrives(r, i) \/ CallFails(r, i)

Spec == Init /\ [][Next]_vars

-----------------------------------------------------------------------------
Serving(r) == proc[r] \in {"booting", "up"}

\* The replicas that lead by right: not told to stop, and within the part of their
\* belief that the row they won still covers.
Leading == {r \in Replicas : Serving(r) /\ belief[r] > overrun[r]}

\* At most one replica leads by right, so no two of them run a gated loop's tick at
\* once: a belief of renew() ends before the row it was earned with does, but for the
\* part of it that a slow reply added.
OneLeader == \A r, q \in Leading : r = q

\* The row never changes hands, by a takeover or by a release, under a replica that
\* leads by right.
NotTakenUnder ==
    [][\A r \in Replicas : (row.holder = r /\ row'.holder # r) => r \notin Leading]_vars

\* However late replies come and in whichever order, and however the upserts of two
\* replicas cross, a replica that was not told to stop acts past the lease by what its
\* reply was slower than a renewal interval and no more: up to there the row is its
\* own, and outlasts the belief.
NeverActsPastLease ==
    \A r \in Leading : row.holder = r /\ row.left >= belief[r] - overrun[r]

\* The election is a lock: the row is its owner's, and a replica that leads by right
\* acts on it.  There is one, it is the owner, the row does not change hands under it,
\* and no step hands the lead over directly.
Lock == INSTANCE LeaderLock WITH Nobody <- NoHolder, owner <- row.holder, leaders <- Leading
KeepsLock == Lock!Spec

\* "a slow query can never let it act past the moment somebody else may legitimately
\* take over" (leader-elector.ts:37): whoever takes itself for the leader has the row,
\* or nobody may take it yet.  A reply slower than the renewal interval breaks it.
SlowQueryHarmless ==
    \A r \in Replicas : Serving(r) /\ isLeader(r) => row.holder = r /\ row.left >= 0

\* "a shutdown [...] stops acting the moment heldUntil is cleared" (leader-elector.ts:83).
\* The reply of an upsert still under way sets it again.
StopStands == \A r \in Replicas : proc[r] = "stopping" => ~isLeader(r)

-----------------------------------------------------------------------------
(* Liveness.  Clocks run, timers fire, and a database that is up executes   *)
(* and answers what it was sent.  Nothing makes a process live or the       *)
(* database stay up.                                                        *)
Fairness ==
    /\ WF_vars(Tick)
    /\ \A r \in Replicas : WF_vars(TimerFires(r)) /\ WF_vars(ReleaseExecutes(r))
    /\ \A r \in Replicas, i \in Calls : WF_vars(ClaimExecutes(r, i)) /\ WF_vars(ReplyArrives(r, i))
FairSpec == Spec /\ Fairness

\* Failover: while some replica stays up and the database with it, the singleton
\* loops have a leader again and again, whoever crashed or stopped before.
Failover ==
    \A r \in Replicas :
       <>[](proc[r] = "up" /\ database = "up") => []<>(\E q \in Replicas : isLeader(q))
=============================================================================
