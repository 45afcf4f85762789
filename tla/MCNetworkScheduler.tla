------------------------- MODULE MCNetworkScheduler -------------------------
(***************************************************************************)
(* Small instances of the network scheduler: two generations of one slot   *)
(* and a connection of another, payloads of one or two bytes, and limits   *)
(* tight enough that every ceiling is met.                                 *)
(***************************************************************************)
EXTENDS NetworkScheduler

CONSTANTS k1

Slot(s, g) == [slot |-> s, generation |-> g]

OneConnection == {Slot(1, 1)}
ThreeConnections == {Slot(1, 1), Slot(1, 2), Slot(2, 1)}

Reliable(k, size) ==
    [class |-> k, delivery |-> "reliable", key |-> NoKey, sequence |-> 0, size |-> size]

Sequenced(key, n, size) ==
    [class |-> RealtimeState, delivery |-> "sequenced", key |-> key, sequence |-> n, size |-> size]

Unordered(size) ==
    [class |-> EphemeralApplication, delivery |-> "unordered", key |-> NoKey, sequence |-> 0, size |-> size]

\* Every class a producer uses, on one connection.
MixedIntents ==
    { Reliable(Control, 1), Reliable(StructuralReplication, 1), Reliable(ReliableApplication, 1),
      Sequenced(k1, 1, 1), Sequenced(k1, 2, 2), Unordered(1) }

\* Reliable work of two sizes, contending for the aggregate ceiling.
BulkIntents == { Reliable(StructuralReplication, 2), Reliable(ReliableApplication, 1) }

\* Structural and application work arriving for ever.
StreamIntents == { Reliable(StructuralReplication, 1), Reliable(ReliableApplication, 1),
                   Reliable(Control, 1) }

Limits(queued, send, messages) ==
    [ reliableMessage |-> 2, unreliableMessage |-> 2, queuedReliable |-> queued,
      sendBytes |-> send, messages |-> messages ]

OneLimits == {Limits(2, 4, 2)}
TightLimits == {Limits(3, 2, 1)}
StreamLimits == {Limits(3, 2, 1)}
=============================================================================
