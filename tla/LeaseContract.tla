---------------------------- MODULE LeaseContract ----------------------------
(***************************************************************************)
(* What a lease hub promises about one parked job, whichever hub serves    *)
(* it: the in-process RunnerHub or the database-backed StoreRunnerHub.     *)
(* A job waits, is held under a lease numbered by an epoch, may come back  *)
(* and be held again under a higher epoch, may be revoked while it is      *)
(* held, and ends once.  A step of a hub may move several jobs at once     *)
(* (one claim sweeps every expired lease), so the contract is a relation   *)
(* on each job's standing and the next-state relation moves any number of  *)
(* them.                                                                   *)
(***************************************************************************)
EXTENDS Naturals

CONSTANTS Jobs,      \* the parked jobs
          Runners,   \* the runners that may hold a lease
          NoRunner   \* "nobody holds it"

VARIABLE lease       \* lease[j]: the standing of job j

Standing == [phase : {"absent", "waiting", "held", "revoked", "ended"},
             epoch : Nat,
             holder : Runners \cup {NoRunner},
             verdict : {"none", "completed", "failed", "cancelled"}]

Absent == [phase |-> "absent", epoch |-> 0, holder |-> NoRunner, verdict |-> "none"]

Init == lease = [j \in Jobs |-> Absent]

-----------------------------------------------------------------------------
\* The moves of one job, from standing s to standing t.

\* A dispatch parks the job.
Offered(s, t) == s.phase = "absent" /\ t = [s EXCEPT !.phase = "waiting"]

\* A runner takes it.  A lease that ran out may be taken over in the same step
\* that notices it: either way the new lease has the next epoch.
Granted(s, t) ==
    /\ s.phase \in {"waiting", "held"}
    /\ \E r \in Runners :
          t = [s EXCEPT !.phase = "held", !.epoch = s.epoch + 1, !.holder = r]

\* A lease ran out and the job waits again, with nobody holding it.
Returned(s, t) ==
    s.phase = "held" /\ t = [s EXCEPT !.phase = "waiting", !.holder = NoRunner]

\* The holder reports while its lease is unrevoked.
Reported(s, t) ==
    /\ s.phase = "held"
    /\ \E v \in {"completed", "failed"} :
          t = [s EXCEPT !.phase = "ended", !.verdict = v]

\* A cancel ends a waiting job and revokes a held one.
Cancelled(s, t) ==
    \/ s.phase = "waiting" /\ t = [s EXCEPT !.phase = "ended", !.verdict = "cancelled"]
    \/ s.phase = "held" /\ t = [s EXCEPT !.phase = "revoked"]

\* A revoked job ends as cancelled.
Reclaimed(s, t) ==
    s.phase = "revoked" /\ t = [s EXCEPT !.phase = "ended", !.verdict = "cancelled"]

\* Nobody was heard from in time, or nobody can run it: the job fails.
Lapsed(s, t) ==
    /\ s.phase \in {"waiting", "held", "revoked"}
    /\ t = [s EXCEPT !.phase = "ended", !.verdict = "failed"]

Moves(s, t) ==
    \/ Offered(s, t)   \/ Granted(s, t)   \/ Returned(s, t)  \/ Reported(s, t)
    \/ Cancelled(s, t) \/ Reclaimed(s, t) \/ Lapsed(s, t)

Next == /\ DOMAIN lease' = Jobs
        /\ \A j \in Jobs : lease'[j] = lease[j] \/ Moves(lease[j], lease'[j])

Spec == Init /\ [][Next]_lease
=============================================================================
