---- MODULE MCEvaluation ----
(* Constants of the TLC instances of module Evaluation. *)
EXTENDS EvaluationClaims, TLC
CONSTANTS k1, k2, s1, s2
MCOnline == {[asks |-> c, kb |-> k1, kind |-> "answered"] : c \in {1, 2}}
            \cup {[asks |-> 1, kb |-> k1, kind |-> "missed"], [asks |-> 2, kb |-> k2, kind |-> "answered"]}
MCAnnotations == {<<0, 0>>, <<2, 0>>}
Symmetry == Permutations(Sessions)
====
