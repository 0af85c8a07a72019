------------------------------- MODULE MCHealth -------------------------------
(* Instances of HealthHistory for TLC. *)
EXTENDS HealthHistory

CONSTANTS s1, s2

\* Services are interchangeable: no property names one and no liveness is checked.
AnyService == Permutations({s1, s2})

=============================================================================
