--------------------------- MODULE MCReplication ---------------------------
(* Small instances of replication to one peer.                             *)
EXTENDS Replication, TLC

LongTree == (1 :> None) @@ (2 :> 1) @@ (3 :> 2) @@ (4 :> 3)
ChainTree == (1 :> None) @@ (2 :> 1) @@ (3 :> 2)
PairTree == (1 :> None) @@ (2 :> 1)
=============================================================================
