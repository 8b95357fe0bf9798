---------------------------- MODULE SearchOutcomes ----------------------------
(***************************************************************************)
(* How a call of api/retrieval.py search ends, for its caller and in its   *)
(* row of query_traces.  "failed" and "error" are exceptions.              *)
(***************************************************************************)

Statuses == {"none", "completed", "degraded", "failed", "error"}

Outcomes == [status : {"completed"}, trace : {"completed", "degraded"}]
            \cup {[status |-> "degraded", trace |-> "degraded"],
                  [status |-> "failed", trace |-> "failed"],
                  [status |-> "error", trace |-> "none"]}
===============================================================================
