---------------------------- MODULE MCRateLimits ----------------------------
(* Instances of RateLimits for TLC. *)
EXTENDS RateLimits

MCMax == [command |-> 1, join |-> 1]
=============================================================================
