---------------------------- MODULE MCLeadership ----------------------------
(***************************************************************************)
(* Instances of Leadership for TLC.                                        *)
(***************************************************************************)
EXTENDS Leadership, TLC

CONSTANTS r1, r2, c1, c2
=============================================================================
