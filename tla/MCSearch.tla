---- MODULE MCSearch ----
(* Constants of the TLC instances of module Search. *)
EXTENDS Search
CONSTANTS r1, r2
====
