--------------------------- MODULE EvaluationClaims ---------------------------
(***************************************************************************)
(* What the repository's documents say of evaluation runs, stated over     *)
(* module Evaluation: TLC shows it violated.                               *)
(***************************************************************************)
EXTENDS Evaluation

Executed == rows.run.status \in {"completed", "failed"}

HasNoTrace(c) ==
  /\ rows.run.bindings[c] = NoTrace /\ dataset.annotated[c] = NoTrace
  /\ \A t \in TraceIds : trace[t] # Unrecorded => trace[t].asks # c

(* "If there is no matching trace, the case's result is marked TRACE_NOT_BOUND":
   the other cases have no say in it. *)
UnboundIsSkipped == Executed => \A c \in Cases : HasNoTrace(c) => rows.result[c].status = "skipped"
===============================================================================
