------------------------ MODULE MCAuthoringHistory ------------------------
(* Instances of AuthoringHistory for TLC.                                  *)
EXTENDS AuthoringHistory
=============================================================================
