-------------------------- MODULE MCEventConsumers --------------------------
(***************************************************************************)
(* Instances of EventConsumers for TLC.                                    *)
(***************************************************************************)
EXTENDS EventConsumers, TLC

CONSTANTS r1, r2

\* The first consumer asks for every kind, the second for kinds that do not occur.
MCWants == [c \in Names |-> IF c = 1 THEN Facts ELSE {}]
=============================================================================
