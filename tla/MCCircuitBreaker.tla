--------------------------- MODULE MCCircuitBreaker ---------------------------
(* Instances of CircuitHistory for TLC; the constants are in the .cfg files. *)
EXTENDS CircuitHistory
=============================================================================
