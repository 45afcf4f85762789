----------------------------- MODULE MCJobSystem -----------------------------
(* Instances of JobSystem for TLC. *)
EXTENDS JobSystem

CONSTANTS w1, w2, g1

\* The odd jobs share a group, the others have none.
MixedGroups == [j \in Jobs |-> IF j % 2 = 1 THEN g1 ELSE NoGroup]

\* Every job in one group.
OneGroup == [j \in Jobs |-> g1]
==============================================================================
