------------------------------ MODULE MCIncidents ------------------------------
(* Instances of IncidentHistory for TLC. *)
EXTENDS IncidentHistory, TLC

CONSTANTS r1, r2

\* Requests are interchangeable: no property names one and no liveness is checked.
AnyRequest == Permutations({r1, r2})

=============================================================================
