-------------------------- MODULE ContentResidency --------------------------
(***************************************************************************)
(* What content residency promises to the world: the set of resident units *)
(* grows and shrinks one unit at a time, never leaving a unit without the  *)
(* units it depends on, until the service stops and takes all of them out. *)
(***************************************************************************)

CONSTANTS
    Members,            \* the units of the package
    DependsOn           \* what each of them depends on

VARIABLES
    resident,           \* the units in the world
    running             \* FALSE once the service has stopped

Init ==
    /\ resident = {}
    /\ running = TRUE

Admit(u) ==
    /\ running
    /\ u \notin resident
    /\ DependsOn[u] \subseteq resident
    /\ resident' = resident \cup {u}
    /\ UNCHANGED running

Evict(u) ==
    /\ running
    /\ u \in resident
    /\ \A k \in resident : u \notin DependsOn[k]
    /\ resident' = resident \ {u}
    /\ UNCHANGED running

Stop ==
    /\ running
    /\ running' = FALSE
    /\ resident' = {}

Next == Stop \/ \E u \in Members : Admit(u) \/ Evict(u)

Spec == Init /\ [][Next]_<<resident, running>>

=============================================================================
