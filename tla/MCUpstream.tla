----------------------------- MODULE MCUpstream -----------------------------
EXTENDS Upstream

\* What operators post: the knobs one by one, a pair, and bodies with a bad
\* field, which must leave the good one alone.
MCBodies == {
    [online |-> FALSE], [online |-> TRUE, latencyMs |-> 3],
    [latencyMs |-> 0, failureRate |-> 50],
    [failureRate |-> 100, failureStatus |-> 503],
    [online |-> FALSE, failureRate |-> 101], [online |-> Malformed], Malformed }
=============================================================================
