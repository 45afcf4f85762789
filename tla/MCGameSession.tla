--------------------------- MODULE MCGameSession ---------------------------
(* The clients of a safety run are interchangeable. *)
EXTENDS GameSession, TLC

ClientSymmetry == Permutations(Clients)
=============================================================================
