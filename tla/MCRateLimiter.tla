----------------------------- MODULE MCRateLimiter -----------------------------
(* Constants for the runs of RateLimiter. *)
EXTENDS RateLimiter, TLC

CONSTANTS ann, bob, eve

CallSymmetry == Permutations(Calls)

(* ann has the default, 0 being no override; bob a limit of his own. *)
Overrides == [u \in Users |-> IF u = bob THEN 2 ELSE IF u = ann THEN 0 ELSE None]
===============================================================================
