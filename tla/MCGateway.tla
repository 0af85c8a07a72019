------------------------------ MODULE MCGateway ------------------------------
(* Instances of Gateway for TLC. *)
EXTENDS Gateway

CONSTANTS a, b, c, p

\* The ai group of services.config.ts: a primary and a fallback.
PairOnly == {<<a, b>>}

\* A group long enough to exhaust the failover budget, and a singleton group.
LongAndSingle == {<<a, b, c>>, <<p>>}

=============================================================================
