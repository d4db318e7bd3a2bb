----------------------------- MODULE MCBreaker -----------------------------
(* Model checking Breaker: the callers are model values of the cfgs. *)
EXTENDS Breaker
=============================================================================
