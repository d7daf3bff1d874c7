-------------------------- MODULE AdmissionContract --------------------------
(***************************************************************************)
(* What the admission ledger promises to the tenants with a quota, however *)
(* many replicas ask it: a pool of leased permits.  A permit is given only *)
(* within the quota and nothing runs before it has one whose lease runs.   *)
(* Only what runs keeps its lease from running out; a permit is given back *)
(* by what does not run, and is taken back only when its lease ran out.    *)
(***************************************************************************)
EXTENDS Naturals, FiniteSets

CONSTANTS Jobs,
          TenantOf,   \* TenantOf[j]: the tenant that pays for job j
          Quota       \* Quota[t]: of the tenants that have one

VARIABLES held,       \* the jobs with a permit
          lapsed,     \* those whose lease ran out
          running     \* the jobs that run

vars == <<held, lapsed, running>>

Init == held = {} /\ lapsed = {} /\ running = {}

HeldBy(t) == {j \in held : TenantOf[j] = t}

Grants(j) ==
    /\ j \notin held /\ TenantOf[j] \in DOMAIN Quota
    /\ Cardinality(HeldBy(TenantOf[j])) < Quota[TenantOf[j]]
    /\ held' = held \cup {j}
    /\ UNCHANGED <<lapsed, running>>

Starts(j) ==
    /\ j \in held \ (lapsed \cup running)
    /\ running' = running \cup {j}
    /\ UNCHANGED <<held, lapsed>>

\* Runs end, alone or with their replica.
Ends == running' \subseteq running /\ UNCHANGED <<held, lapsed>>

GivesBack(j) ==
    /\ j \in held \ running
    /\ held' = held \ {j} /\ lapsed' = lapsed \ {j}
    /\ UNCHANGED running

\* Leases run out, are renewed, and are swept.
Ages == lapsed \subseteq lapsed' /\ lapsed' \subseteq held /\ UNCHANGED <<held, running>>
Renews == lapsed' \subseteq lapsed /\ lapsed \ lapsed' \subseteq running /\ UNCHANGED <<held, running>>
Sweeps == held' = held \ lapsed /\ lapsed' = {} /\ UNCHANGED running

Next == Ends \/ Ages \/ Renews \/ Sweeps \/ \E j \in Jobs : Grants(j) \/ Starts(j) \/ GivesBack(j)

Spec == Init /\ [][Next]_vars
=============================================================================
