----------------------------- MODULE MCRunnerHub -----------------------------
(***************************************************************************)
(* Instances of RunnerHub for TLC.                                         *)
(***************************************************************************)
EXTENDS RunnerHub, TLC

CONSTANTS r1, r2, w1, w2, w3, j1, j2, j3

\* w1 and w2 of one runner and w3 of another; or one runner with all the workers.
MCThreeWorkers == (w1 :> r1) @@ (w2 :> r1) @@ (w3 :> r2)
MCOneRunner == [w \in Workers |-> r1]
\* j1 and j2 are parked for r1 and j3 for whichever runner comes first; or all of
\* them for whichever runner comes first.
MCOwnAndPool == [j \in Jobs |-> IF j = j3 THEN Pool ELSE r1]
MCPoolOnly == [j \in Jobs |-> Pool]
\* Every runner can run every job; or r1 lacks what its own j1 and the pool's j3 need,
\* and r2 has nothing at all.
MCCapable == [r \in Runners |-> Jobs]
MCMismatch == [r \in Runners |-> IF r = r1 THEN {j2} ELSE {}]
=============================================================================
