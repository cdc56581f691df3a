---------------------------- MODULE MCRateLimiter ----------------------------
(* The instance of RateLimiter for TLC is given by its constants alone. *)
EXTENDS RateLimiter
================================================================================
