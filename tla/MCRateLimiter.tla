---------------------------- MODULE MCRateLimiter ----------------------------
(***************************************************************************)
(* Model checking of RateLimiter.  The numbers keep the proportions that   *)
(* matter: a gap shorter than the longest sleep on the cap, that sleep     *)
(* shorter than the window, a window with room for the cap and more, a ban *)
(* that doubles twice before it reaches its maximum.                        *)
(***************************************************************************)
EXTENDS RateLimiter
============================================================================
