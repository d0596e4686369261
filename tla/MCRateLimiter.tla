-------------------------- MODULE MCRateLimiter --------------------------
(* The model-checking instance of RateLimiter: tenants are interchangeable. *)
EXTENDS RateLimiter, TLC

Tenants == Permutations(Keys)
============================================================================
