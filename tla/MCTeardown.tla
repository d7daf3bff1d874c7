----------------------------- MODULE MCTeardown -----------------------------
(***************************************************************************)
(* Instances of Teardown for TLC.                                          *)
(***************************************************************************)
EXTENDS Teardown, TLC

CONSTANTS w1, w2, t1, t2
=============================================================================
