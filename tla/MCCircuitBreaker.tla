-------------------------- MODULE MCCircuitBreaker --------------------------
(***************************************************************************)
(* Small circuit breakers for TLC.  The threshold is two, so that with two *)
(* requests rejections alone can reach it.                                 *)
(***************************************************************************)
EXTENDS CircuitBreaker
=============================================================================
