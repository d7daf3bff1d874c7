-------------------------- MODULE MCStoreRunnerHub --------------------------
(***************************************************************************)
(* Instances of StoreRunnerHub for TLC: two runners, one with two         *)
(* workers, or one runner; a job parked for one runner and a pool job.     *)
(***************************************************************************)
EXTENDS StoreRunnerHub, TLC

CONSTANTS r1, r2, w1, w2, w3, j1, j2

\* w1 and w2 are lease loops of one runner, w3 of another.
MCThreeWorkers == (w1 :> r1) @@ (w2 :> r1) @@ (w3 :> r2)
\* One runner with all the workers: only the epoch tells their tokens apart.
MCOneRunner == [w \in Workers |-> r1]
\* j1 is parked for r1, any other job for whoever of the owner's runners comes first.
MCOwnAndPool == [j \in Jobs |-> IF j = j1 THEN r1 ELSE Pool]
MCPoolOnly == [j \in Jobs |-> Pool]
\* Both runners can run both jobs.
MCCapable == [r \in Runners |-> Jobs]
\* Nobody advertises what j2 needs.
MCOnlyJ1 == [r \in Runners |-> {j1}]
=============================================================================
