------------------------------ MODULE TokenBucket ------------------------------
(***************************************************************************)
(* The promise of a rate limiter: each client owns a bucket that holds at  *)
(* most Capacity tokens and gains one part of a token with every tick; a   *)
(* request takes a whole token or, if there is none, nothing.  Buckets may *)
(* be forgotten, and a forgotten client starts with a full one.            *)
(***************************************************************************)
EXTENDS Naturals

CONSTANTS Clients, Capacity, TokenTicks

VARIABLE level      \* parts of tokens each client owns

Brim == Capacity * TokenTicks

Init == level = [c \in Clients |-> Brim]

Take(c) ==
  /\ level[c] >= TokenTicks
  /\ level' = [level EXCEPT ![c] = @ - TokenTicks]

Drip ==
  level' = [c \in Clients |-> IF level[c] < Brim THEN level[c] + 1 ELSE level[c]]

Forget(S) ==
  level' = [c \in Clients |-> IF c \in S THEN Brim ELSE level[c]]

Next ==
  \/ \E c \in Clients : Take(c)
  \/ Drip
  \/ \E S \in SUBSET Clients : Forget(S)

Spec == Init /\ [][Next]_level

=============================================================================
