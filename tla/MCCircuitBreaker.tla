-------------------------- MODULE MCCircuitBreaker --------------------------
(***************************************************************************)
(* CircuitBreaker on a small instance: see MCCircuitBreaker.cfg.  The      *)
(* threshold is 3 so that a breaker opened by mark_cloud_unavailable has   *)
(* counted fewer failures than the threshold when its probe fails.         *)
(***************************************************************************)
EXTENDS CircuitBreaker

=============================================================================
