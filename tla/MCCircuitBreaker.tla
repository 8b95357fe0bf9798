---- MODULE MCCircuitBreaker ----
(* Constants of the TLC instances of module CircuitBreaker. *)
EXTENDS BreakerClaims
CONSTANTS c1, c2, c3
====
