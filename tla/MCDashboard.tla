---------------------------- MODULE MCDashboard ----------------------------
EXTENDS Dashboard

CONSTANTS s1, Whole

MCInterval == [p \in Pages |-> IF p = "history" THEN 2 ELSE 1]

\* The last query's limit is above the ring's capacity.
MCFilters ==
    [metrics |-> {Whole},
     events |-> {[type |-> AnyType, limit |-> 2],
                 [type |-> "REQUEST_STARTED", limit |-> 1],
                 [type |-> AnyType, limit |-> 3]},
     history |-> {NoService, s1}]
=============================================================================
