--------------------------- MODULE MCGatewayMetrics ---------------------------
(* Instances of GatewayMetrics for TLC. *)
EXTENDS MCGateway, GatewayMetrics

\* A full window, so that the next requests evict and the 95th percentile is
\* not the largest sample any more.
TwentyQuick == [i \in 1..20 |-> <<IF i = 1 THEN a ELSE p, 1>>]

\* Slots of requests are interchangeable.
RequestSymmetry == Permutations(Requests)

=============================================================================
