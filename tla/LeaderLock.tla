------------------------------ MODULE LeaderLock ------------------------------
(***************************************************************************)
(* What the election promises to the singleton loops (whenLeader): a lock  *)
(* with an owner, and at most one replica that acts on it.  Only the owner *)
(* may lead, and the lock never changes hands while somebody leads.        *)
(***************************************************************************)
CONSTANTS Replicas, Nobody

VARIABLES owner,    \* whose lock it is
          leaders   \* who runs the singleton loops

Init == owner = Nobody /\ leaders = {}

\* The lock is given, taken over or given back.
Passes == leaders = {} /\ owner' \in Replicas \cup {Nobody} /\ UNCHANGED leaders

\* Its owner begins to lead, alone, and whoever leads stops.
Leads == leaders = {} /\ owner # Nobody /\ leaders' = {owner} /\ UNCHANGED owner
Yields == leaders # {} /\ leaders' = {} /\ UNCHANGED owner

Next == Passes \/ Leads \/ Yields

Spec == Init /\ [][Next]_<<owner, leaders>>
=============================================================================
