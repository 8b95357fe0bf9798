---------------------------- MODULE BreakerClaims ----------------------------
(***************************************************************************)
(* What the repository's documents say of the circuit breakers, stated     *)
(* over module CircuitBreaker: TLC shows it violated.                      *)
(***************************************************************************)
EXTENDS CircuitBreaker

(* "On success it recovers, on failure it opens again": with requests coming and
   a healthy dependency, HALF_OPEN is left. *)
HalfOpenIsLeft == <>[]healthy => [](state = "HALF_OPEN" => <>(state # "HALF_OPEN"))
==============================================================================
