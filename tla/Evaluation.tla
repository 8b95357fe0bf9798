------------------------------ MODULE Evaluation ------------------------------
(***************************************************************************)
(* Offline evaluation (api/evaluation.py, evaluation/service.py): one      *)
(* dataset snapshot, one run over it, the executions and human reviews of  *)
(* that run, and the online traces that its cases are bound to.            *)
(*                                                                         *)
(* A request is one MySQL transaction (REPEATABLE READ): it reads the      *)
(* database as it was when it began, and its commit writes the columns it  *)
(* changed over whatever others committed meanwhile.  Requests that wait   *)
(* for each other's row locks commit one after the other.                  *)
(*                                                                         *)
(* Traces are numbered by created_at, and recorded in any order.           *)
(***************************************************************************)
EXTENDS Naturals

CONSTANTS CaseCount,    \* cases of the dataset, in the order of their ordinals
          MaxTraces,    \* bound: online traces
          KBs,
          ScopeKB,      \* knowledge_base_id of the dataset snapshot, or NoKB
          Sessions,     \* requests served at once
          Online,       \* kinds of traces that online requests leave
          Annotations,  \* request ids the dataset's author may put into annotations
          NoKB, NotARow, Unrecorded

ASSUME EvaluationAssumption ==
  /\ CaseCount \in Nat \ {0} /\ MaxTraces \in Nat
  /\ ScopeKB \in KBs \cup {NoKB}
  /\ NoKB \notin KBs /\ NotARow \notin KBs \cup {NoKB}

Cases == 1..CaseCount
NoTrace == 0
TraceIds == 1..MaxTraces
Bindings == [Cases -> TraceIds \cup {NoTrace}]

ASSUME AnnotationsAssumption == Annotations \subseteq Bindings

(* "answered": status completed or degraded; "broken": the generation failed after
   the retrieval; "missed": the retrieval failed, and there is no snapshot of it. *)
Trace == [asks : Cases, kb : KBs, kind : {"answered", "broken", "missed"}]

ASSUME TraceAssumption == Online \subseteq Trace /\ Unrecorded \notin Trace

(* One JSON column: the trace that was scored, and the one whose answer a human
   reviewed, if any. *)
Metrics == [scored : TraceIds \cup {NoTrace}, review : SUBSET (TraceIds \cup {NoTrace})]

Result == [status : {"none", "completed", "skipped"},
           trace : TraceIds \cup {NoTrace},    \* request_id
           metrics : Metrics,
           unbound : BOOLEAN]                  \* error_message = "TRACE_NOT_BOUND"

Run == [status : {"none", "pending", "completed", "failed"},
        bindings : Bindings,                   \* run_manifest.trace_bindings
        error : BOOLEAN,
        counted : Bindings]                    \* traces in aggregate_metrics

Rows == [result : [Cases -> Result], link : [TraceIds -> Cases \cup {0}], run : Run]

VARIABLES dataset,   \* the dataset snapshot and its cases' annotations
          trace,     \* query_traces
          rows,      \* results, evaluation_case_id of the traces, and the run
          sess       \* requests in flight: rows as loaded and as changed

vars == <<dataset, trace, rows, sess>>

Unbound == [c \in Cases |-> NoTrace]
NoResult == [status |-> "none", trace |-> NoTrace, unbound |-> FALSE,
             metrics |-> [scored |-> NoTrace, review |-> {}]]
NoRun == [status |-> "none", bindings |-> Unbound, error |-> FALSE, counted |-> Unbound]
NoRows == [result |-> [c \in Cases |-> NoResult], link |-> [t \in TraceIds |-> 0], run |-> NoRun]
Idle == [op |-> "idle", loaded |-> NoRows, changed |-> NoRows]

Init == /\ dataset = [status |-> "none", annotated |-> Unbound]
        /\ trace = [t \in TraceIds |-> Unrecorded]
        /\ rows = NoRows
        /\ sess = [s \in Sessions |-> Idle]

-----------------------------------------------------------------------------
(* Online requests. *)

RecordTrace(t, new) ==
  /\ trace[t] = Unrecorded /\ trace' = [trace EXCEPT ![t] = new]
  /\ UNCHANGED <<dataset, rows, sess>>

(* A chat whose retrieval was traced as completed fails to generate. *)
ChatFails(t) ==
  /\ trace[t] # Unrecorded /\ trace[t].kind = "answered"
  /\ trace' = [trace EXCEPT ![t].kind = "broken"]
  /\ UNCHANGED <<dataset, rows, sess>>

-----------------------------------------------------------------------------
(* The dataset and the run. *)

CreateSnapshot(annotated) ==
  /\ dataset.status = "none"
  /\ dataset' = [status |-> "draft", annotated |-> annotated]
  /\ UNCHANGED <<trace, rows, sess>>

PublishSnapshot ==
  /\ dataset.status # "none" /\ dataset' = [dataset EXCEPT !.status = "published"]
  /\ UNCHANGED <<trace, rows, sess>>

Within(t, scope) == scope = NoKB \/ trace[t].kb = scope

Candidates(c, scope) ==
  {t \in TraceIds : trace[t] # Unrecorded /\ trace[t].asks = c /\ trace[t].kind = "answered"
                    /\ Within(t, scope)}

(* The latest of a set of traces, if any. *)
Latest(traces) == CHOOSE t \in traces \cup {NoTrace} : \A u \in traces : u <= t

(* Explicit bindings win; each of them, too, must exist and be of the dataset's
   knowledge base, but may be of any status. *)
CreateRun(explicit) ==
  LET bindings == [c \in Cases |-> IF explicit[c] # NoTrace THEN explicit[c]
                                   ELSE Latest(Candidates(c, ScopeKB))]
  IN /\ dataset.status = "published" /\ rows.run.status = "none"
     /\ \A c \in Cases : bindings[c] # NoTrace =>
          trace[bindings[c]] # Unrecorded /\ Within(bindings[c], ScopeKB)
     /\ rows' = [rows EXCEPT !.run = [NoRun EXCEPT !.status = "pending", !.bindings = bindings]]
     /\ UNCHANGED <<dataset, trace, sess>>

-----------------------------------------------------------------------------
(* execute_run: a loop over the cases, up to the one that raises.  Its variable
   snapshot is first the dataset's row, whose knowledge base limits the search for
   a trace, and after a case with a trace that trace's retrieval snapshot: {} limits
   nothing, any other dict has no attribute knowledge_base_id.

   A binding found here is put into a dict that the old value of run_manifest holds
   as well: the new value equals it, and no UPDATE is sent. *)

(* Faulty variant: the case's own annotation comes first. *)
KnownByAnnotation(c) ==
  IF dataset.annotated[c] # NoTrace THEN dataset.annotated[c] ELSE rows.run.bindings[c]

Known(c) == IF rows.run.bindings[c] # NoTrace THEN rows.run.bindings[c] ELSE dataset.annotated[c]

Found(c, scope) ==
  LET t == IF Known(c) # NoTrace THEN Known(c) ELSE Latest(Candidates(c, scope))
  IN IF t # NoTrace /\ trace[t] # Unrecorded THEN t ELSE NoTrace

(* Faulty variant: a result row is only added for a case that has a trace. *)
SkippedIfPresent(result) ==
  IF result.status = "none" THEN result
  ELSE [result EXCEPT !.status = "skipped", !.unbound = TRUE, !.metrics = NoResult.metrics]

Skipped(result) ==
  [result EXCEPT !.status = "skipped", !.unbound = TRUE, !.metrics = NoResult.metrics]

(* The four evaluators, over the same trace.  None of them raises: what keeps the judge
   from scoring is recorded as its part of the metrics. *)
Evaluated(t) == [scored |-> t, review |-> {}]

Scored(result, t) ==
  [result EXCEPT !.status = "completed", !.trace = t, !.metrics = Evaluated(t)]

ScopeAfter(t) == IF trace[t].kind = "missed" THEN NoKB ELSE NotARow

EvaluateCase(before, c) ==
  LET t == Found(c, before.scope) IN
  IF before.raised \/ (Known(c) = NoTrace /\ before.scope = NotARow)
  THEN [before EXCEPT !.raised = TRUE]
  ELSE IF t = NoTrace
  THEN [before EXCEPT !.result[c] = Skipped(@)]
  ELSE [before EXCEPT !.result[c] = Scored(@, t), !.link[t] = c, !.scope = ScopeAfter(t)]

Loop ==
  LET after[c \in 0..CaseCount] ==
        IF c = 0 THEN [scope |-> ScopeKB, raised |-> FALSE, result |-> rows.result, link |-> rows.link]
        ELSE EvaluateCase(after[c - 1], c)
  IN after[CaseCount]

(* Faulty variant: the except branch only keeps the message. *)
FinishedRunning(end) ==
  IF end.raised THEN [rows.run EXCEPT !.status = "running", !.error = TRUE]
  ELSE [rows.run EXCEPT !.status = "completed",
                        !.counted = [c \in Cases |-> end.result[c].metrics.scored]]

Finished(end) ==
  IF end.raised THEN [rows.run EXCEPT !.status = "failed", !.error = TRUE]
  ELSE [rows.run EXCEPT !.status = "completed",
                        !.counted = [c \in Cases |-> end.result[c].metrics.scored]]

Execute(s) ==
  LET end == Loop IN
  /\ sess[s] = Idle /\ rows.run.status # "none"
  /\ sess' = [sess EXCEPT ![s] =
       [op |-> "execute", loaded |-> rows,
        changed |-> [result |-> end.result, link |-> end.link, run |-> Finished(end)]]]
  /\ UNCHANGED <<dataset, trace, rows>>

(* review_result: any result can be reviewed. *)
Review(s, c) ==
  /\ sess[s] = Idle /\ rows.result[c].status # "none"
  /\ sess' = [sess EXCEPT ![s] =
       [op |-> "review", loaded |-> rows,
        changed |-> [rows EXCEPT !.result[c].metrics.review = {rows.result[c].trace}]]]
  /\ UNCHANGED <<dataset, trace, rows>>

-----------------------------------------------------------------------------
(* The end of a transaction. *)

Written(old, new, now) == IF new # old THEN new ELSE now

WrittenResult(old, new, now) ==
  [status |-> Written(old.status, new.status, now.status),
   trace |-> Written(old.trace, new.trace, now.trace),
   metrics |-> Written(old.metrics, new.metrics, now.metrics),
   unbound |-> Written(old.unbound, new.unbound, now.unbound)]

(* "running" was flushed before, so that the status of an execution is always
   written; no other transaction sees "running". *)
WrittenRun(w, now) ==
  [now EXCEPT !.status = IF w.op = "execute" THEN w.changed.run.status ELSE @,
              !.error = Written(w.loaded.run.error, w.changed.run.error, @),
              !.counted = Written(w.loaded.run.counted, w.changed.run.counted, @)]

(* uq_evaluation_run_case: a row this session inserts was inserted meanwhile. *)
InsertsTwice(w) ==
  \E c \in Cases : /\ w.loaded.result[c].status = "none" /\ w.changed.result[c].status # "none"
                   /\ rows.result[c].status # "none"

Commit(s) ==
  LET w == sess[s] IN
  /\ w.op # "idle" /\ ~InsertsTwice(w)
  /\ rows' = [result |-> [c \in Cases |-> WrittenResult(w.loaded.result[c], w.changed.result[c], rows.result[c])],
              link |-> [t \in TraceIds |-> Written(w.loaded.link[t], w.changed.link[t], rows.link[t])],
              run |-> WrittenRun(w, rows.run)]
  /\ sess' = [sess EXCEPT ![s] = Idle]
  /\ UNCHANGED <<dataset, trace>>

(* The row was inserted twice, a lock was waited for too long, or the process died. *)
Rollback(s) ==
  /\ sess[s].op # "idle" /\ sess' = [sess EXCEPT ![s] = Idle]
  /\ UNCHANGED <<dataset, trace, rows>>

-----------------------------------------------------------------------------
Next ==
  \/ \E t \in TraceIds : ChatFails(t) \/ \E new \in Online : RecordTrace(t, new)
  \/ \E annotated \in Annotations : CreateSnapshot(annotated)
  \/ PublishSnapshot
  \/ \E explicit \in Bindings : CreateRun(explicit)
  \/ \E s \in Sessions : \/ Execute(s) \/ \E c \in Cases : Review(s, c)
                         \/ Commit(s) \/ Rollback(s)

Spec == Init /\ [][Next]_vars

-----------------------------------------------------------------------------
(* Properties *)

(* Rows and sessions stay in their domains. *)
TypeOK == /\ dataset \in [status : {"none", "draft", "published"}, annotated : Bindings]
          /\ trace \in [TraceIds -> Trace \cup {Unrecorded}]
          /\ rows \in Rows
          /\ sess \in [Sessions -> [op : {"idle", "execute", "review"}, loaded : Rows, changed : Rows]]

(* A run that reads completed has a result for every case of the dataset, whichever
   executions overlapped, failed or were rolled back before. *)
CompletedRunIsWhole ==
  rows.run.status = "completed" => \A c \in Cases : rows.result[c].status # "none"

(* What the run's manifest bound when it was created is what the results show, what
   the metrics scored, what a human reviewed and what the aggregates count, also after
   overlapping executions and reviews that wrote their columns over each other's. *)
PinnedResultsAgree ==
  \A c \in Cases : LET t == rows.run.bindings[c]
                       r == rows.result[c] IN
    t # NoTrace =>
      /\ r.status # "none" => /\ r.status = "completed" /\ r.trace = t
                              /\ r.metrics.scored = t /\ r.metrics.review \subseteq {t}
      /\ rows.run.status = "completed" => rows.run.counted[c] = t
===============================================================================
