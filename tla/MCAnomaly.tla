------------------------------- MODULE MCAnomaly -------------------------------
(* Instance of AnomalyDetection for TLC. *)
EXTENDS AnomalyDetection
=============================================================================
