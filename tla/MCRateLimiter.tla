---------------------------- MODULE MCRateLimiter ----------------------------
(* Instances of RateLimiterClients for TLC; the constants are in the .cfg files. *)
EXTENDS RateLimiterClients
=============================================================================
