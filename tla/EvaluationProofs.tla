--------------------------- MODULE EvaluationProofs ---------------------------
(***************************************************************************)
(* Proofs about module Evaluation, for every number of cases, traces and   *)
(* requests in flight, and every annotation of the dataset's author.       *)
(***************************************************************************)
EXTENDS Evaluation, Integers, FiniteSetTheorems, WellFoundedInduction, TLAPS

-----------------------------------------------------------------------------
(* Least numbers, induction over a set of numbers, and what a function that is
   defined by recursion on the numbers up to N is. *)

LEMMA LeastNatural ==
  ASSUME NEW T \in SUBSET Nat, T # {}
  PROVE  \E n \in T : \A m \in T : n <= m
<1> DEFINE R == StrictSubsetOrdering(Nat)
           S == FiniteSubsetsOf(Nat)
           I == {0..n : n \in T}
<1>1. IsWellFoundedOn(R, S)
  BY FS_StrictSubsetOrderingWellFounded
<1>2. I \subseteq S
  <2>1. \A n \in Nat : 0..n \in SUBSET Nat /\ IsFiniteSet(0..n)
    BY FS_Interval
  <2> QED BY <2>1 DEF FiniteSubsetsOf
<1>3. I # {}
  OBVIOUS
<1>4. PICK x \in I : \A y \in I : ~(<<y, x>> \in R)
  <2> HIDE DEF R, S, I
  <2> QED BY <1>1, <1>2, <1>3, WFMin
<1>5. PICK n \in T : x = 0..n
  OBVIOUS
<1>6. ASSUME NEW m \in T, m < n PROVE FALSE
  <2>1. 0..m \in I /\ 0..m \in SUBSET Nat /\ 0..n \in SUBSET Nat
    OBVIOUS
  <2>2. 0..m \subseteq 0..n /\ n \in 0..n /\ n \notin 0..m
    BY <1>6
  <2>3. <<0..m, 0..n>> \in R
    BY <2>1, <2>2, Zenon DEF StrictSubsetOrdering
  <2> QED BY <1>4, <1>5, <2>1, <2>3
<1> QED BY <1>6

LEMMA SetInduction ==
  ASSUME NEW S, 0 \in S, \A n \in Nat : n \in S => n + 1 \in S
  PROVE  Nat \subseteq S
<1> SUFFICES ASSUME NEW k \in Nat, k \notin S PROVE FALSE
  OBVIOUS
<1> DEFINE T == {n \in Nat : n \notin S}
<1>1. PICK n \in T : \A m \in T : n <= m
  <2>1. T \in SUBSET Nat /\ T # {} OBVIOUS
  <2> HIDE DEF T
  <2> QED BY <2>1, LeastNatural
<1>2. n - 1 \in Nat /\ n - 1 \in S
  BY <1>1
<1> QED BY <1>1, <1>2

(* The functions that start at base and go on by step. *)
Recursions(X, base, step, N) ==
  {f \in [0..N -> X] : f[0] = base /\ \A n \in 1..N : f[n] = step[n][f[n - 1]]}

LEMMA RecursionExists ==
  ASSUME NEW N \in Nat, NEW X, NEW base \in X, NEW step \in [1..N -> [X -> X]]
  PROVE  Recursions(X, base, step, N) # {}
<1> DEFINE Defines(f, n) == f[0] = base /\ \A m \in 1..n : f[m] = step[m][f[m - 1]]
           S == {n \in Nat : n <= N => \E f \in [0..n -> X] : Defines(f, n)}
<1>1. 0 \in S
  <2> DEFINE f == [m \in 0..0 |-> base]
  <2>1. f \in [0..0 -> X] /\ Defines(f, 0)
    OBVIOUS
  <2> QED BY <2>1
<1>2. ASSUME NEW n \in Nat, n \in S PROVE n + 1 \in S
  <2> SUFFICES ASSUME n + 1 <= N PROVE \E f \in [0..(n + 1) -> X] : Defines(f, n + 1)
    OBVIOUS
  <2>1. PICK f \in [0..n -> X] : Defines(f, n)
    BY <1>2
  <2> DEFINE g == [m \in 0..(n + 1) |-> IF m = n + 1 THEN step[n + 1][f[n]] ELSE f[m]]
  <2>2. step[n + 1][f[n]] \in X
    BY <2>1
  <2>3. g \in [0..(n + 1) -> X]
    BY <2>2
  <2>4. Defines(g, n + 1)
    BY <2>1
  <2> HIDE DEF g, Defines
  <2> QED BY <2>3, <2>4
<1>3. PICK f \in [0..N -> X] : Defines(f, N)
  <2> HIDE DEF S
  <2>1. N \in S
    BY <1>1, <1>2, SetInduction
  <2> QED BY <2>1 DEF S
<1> QED BY <1>3 DEF Recursions

-----------------------------------------------------------------------------
(* The latest of a set of traces. *)

LEMMA LatestIsOne ==
  ASSUME NEW traces \in SUBSET TraceIds
  PROVE  Latest(traces) \in traces \cup {NoTrace}
<1> DEFINE After == {MaxTraces - t : t \in traces}
<1>0. MaxTraces \in Nat
  BY EvaluationAssumption
<1>1. CASE traces = {}
  BY <1>1 DEF Latest
<1>2. CASE traces # {}
  <2>1. \A t \in traces : t \in Int /\ MaxTraces - t \in Nat
    BY <1>0 DEF TraceIds
  <2>2. After \in SUBSET Nat /\ After # {}
    BY <1>2, <2>1
  <2>3. PICK d \in After : \A e \in After : d <= e
    <3> HIDE DEF After
    <3> QED BY <2>2, LeastNatural
  <2>4. PICK t \in traces : d = MaxTraces - t
    OBVIOUS
  <2>5. ASSUME NEW u \in traces PROVE u <= t
    <3>1. MaxTraces - t <= MaxTraces - u
      BY <2>3, <2>4
    <3> QED BY <1>0, <2>1, <3>1
  <2> QED BY <2>5 DEF Latest
<1> QED BY <1>1, <1>2

-----------------------------------------------------------------------------
(* One case of the loop. *)

LoopState == [scope : KBs \cup {NoKB, NotARow}, raised : BOOLEAN,
              result : [Cases -> Result], link : [TraceIds -> Cases \cup {0}]]

LEMMA FoundIsTrace ==
  ASSUME TypeOK, NEW c \in Cases, NEW scope
  PROVE  /\ Known(c) \in TraceIds \cup {NoTrace}
         /\ Found(c, scope) \in TraceIds \cup {NoTrace}
<1>1. Known(c) \in TraceIds \cup {NoTrace}
  BY DEF TypeOK, Rows, Run, Bindings, Known
<1>2. Latest(Candidates(c, scope)) \in TraceIds \cup {NoTrace}
  <2>1. Candidates(c, scope) \in SUBSET TraceIds
    BY DEF Candidates
  <2> QED BY <2>1, LatestIsOne
<1> QED BY <1>1, <1>2 DEF Found

LEMMA ResultTypes ==
  ASSUME NEW r \in Result, NEW t \in TraceIds \cup {NoTrace}
  PROVE  /\ Skipped(r) \in Result /\ Skipped(r).status = "skipped"
         /\ Scored(r, t) \in Result /\ Scored(r, t).status = "completed"
         /\ Scored(r, t).trace = t /\ Scored(r, t).metrics = [scored |-> t, review |-> {}]
BY DEF Result, Metrics, Skipped, Scored, Evaluated, NoResult

(* What a case does to the state of the loop, field by field. *)
LEMMA EvaluateCaseFields ==
  ASSUME TypeOK, NEW x \in LoopState, NEW c \in Cases,
         NEW t, t = Found(c, x.scope), NEW y, y = EvaluateCase(x, c)
  PROVE  /\ y \in LoopState
         /\ \A d \in Cases \ {c} : y.result[d] = x.result[d]
         /\ \/ y.raised /\ y.result = x.result
            \/ ~x.raised /\ ~y.raised /\ t = NoTrace /\ y.result[c] = Skipped(x.result[c])
            \/ ~x.raised /\ ~y.raised /\ t # NoTrace /\ y.result[c] = Scored(x.result[c], t)
<1>0. t \in TraceIds \cup {NoTrace} /\ x.result[c] \in Result
  BY FoundIsTrace DEF LoopState
<1>1. CASE x.raised \/ (Known(c) = NoTrace /\ x.scope = NotARow)
  BY <1>1 DEF EvaluateCase, LoopState
<1>2. CASE ~(x.raised \/ (Known(c) = NoTrace /\ x.scope = NotARow)) /\ t = NoTrace
  <2>1. PICK r \in Result : r = Skipped(x.result[c])
    BY <1>0, ResultTypes
  <2>2. y = [x EXCEPT !.result = [x.result EXCEPT ![c] = r]]
    BY <1>2, <2>1 DEF EvaluateCase
  <2> QED BY <1>2, <2>1, <2>2 DEF LoopState
<1>3. CASE ~(x.raised \/ (Known(c) = NoTrace /\ x.scope = NotARow)) /\ t # NoTrace
  <2>1. PICK r \in Result : r = Scored(x.result[c], t)
    BY <1>0, ResultTypes
  <2>2. PICK scope \in KBs \cup {NoKB, NotARow} : scope = ScopeAfter(t)
    BY DEF ScopeAfter
  <2>3. y = [x EXCEPT !.result = [x.result EXCEPT ![c] = r],
                      !.link = [x.link EXCEPT ![t] = c], !.scope = scope]
    BY <1>3, <2>1, <2>2 DEF EvaluateCase
  <2>4. /\ [x.result EXCEPT ![c] = r] \in [Cases -> Result]
        /\ [x.link EXCEPT ![t] = c] \in [TraceIds -> Cases \cup {0}]
    BY <1>0, <1>3, <2>1 DEF LoopState
  <2>5. PICK results, links : /\ results = [x.result EXCEPT ![c] = r]
                              /\ links = [x.link EXCEPT ![t] = c]
    OBVIOUS
  <2>6. y = [x EXCEPT !.result = results, !.link = links, !.scope = scope]
    BY <2>3, <2>5
  <2>7. y \in LoopState /\ y.result = results /\ y.raised = x.raised
    BY <2>4, <2>5, <2>6 DEF LoopState
  <2>8. results[c] = r /\ \A d \in Cases \ {c} : results[d] = x.result[d]
    BY <2>5 DEF LoopState
  <2> QED BY <1>3, <2>1, <2>7, <2>8 DEF LoopState
<1> QED BY <1>1, <1>2, <1>3

-----------------------------------------------------------------------------
(* The loop: what holds of its state after n cases. *)

(* A result of a case whose run is bound to t, if to any. *)
Fits(r, t) ==
  IF r.status = "none" THEN r = NoResult
  ELSE t # NoTrace => /\ r.status = "completed" /\ r.trace = t
                      /\ r.metrics.scored = t /\ r.metrics.review \subseteq {t}

BindingsRecorded ==
  \A c \in Cases : rows.run.bindings[c] # NoTrace => trace[rows.run.bindings[c]] # Unrecorded

ResultsFit(result) == \A c \in Cases : Fits(result[c], rows.run.bindings[c])

RowsFit == BindingsRecorded /\ ResultsFit(rows.result)

LoopInv(n, x) ==
  /\ x \in LoopState
  /\ x.raised \/ \A c \in 1..n : x.result[c].status # "none"
  /\ \A c \in Cases : rows.result[c].status # "none" => x.result[c].status # "none"
  /\ RowsFit => ResultsFit(x.result)

LEMMA CaseFits ==
  ASSUME TypeOK, RowsFit, NEW x \in LoopState, NEW c \in Cases, Fits(x.result[c], rows.run.bindings[c]),
         NEW y, y = EvaluateCase(x, c)
  PROVE  Fits(y.result[c], rows.run.bindings[c])
<1> DEFINE b == rows.run.bindings[c]
<1>1. PICK t : t = Found(c, x.scope)
  OBVIOUS
<1>2. b # NoTrace => t = b
  BY <1>1 DEF RowsFit, BindingsRecorded, Found, Known
<1>3. x.result[c] \in Result /\ t \in TraceIds \cup {NoTrace}
  BY <1>1, FoundIsTrace DEF LoopState
<1>4. \/ y.result = x.result
      \/ t = NoTrace /\ y.result[c] = Skipped(x.result[c])
      \/ t # NoTrace /\ y.result[c] = Scored(x.result[c], t)
  BY <1>1, EvaluateCaseFields
<1>5. CASE y.result = x.result
  BY <1>5
<1>6. CASE t = NoTrace /\ y.result[c] = Skipped(x.result[c])
  <2>1. b = NoTrace /\ y.result[c].status = "skipped"
    BY <1>2, <1>3, <1>6, ResultTypes
  <2> QED BY <2>1 DEF Fits
<1>7. CASE t # NoTrace /\ y.result[c] = Scored(x.result[c], t)
  <2>1. /\ y.result[c].status = "completed" /\ y.result[c].trace = t
        /\ y.result[c].metrics = [scored |-> t, review |-> {}]
    BY <1>3, <1>7, ResultTypes
  <2> QED BY <1>2, <2>1 DEF Fits
<1> QED BY <1>4, <1>5, <1>6, <1>7

LEMMA LoopInvStep ==
  ASSUME TypeOK, NEW n \in 1..CaseCount, NEW x, LoopInv(n - 1, x), NEW y, y = EvaluateCase(x, n)
  PROVE  LoopInv(n, y)
<1>0. n \in Cases /\ x \in LoopState /\ n \in Int
  BY DEF Cases, LoopInv
<1>1. PICK t : t = Found(n, x.scope)
  OBVIOUS
<1>2. /\ y \in LoopState
      /\ \A d \in Cases \ {n} : y.result[d] = x.result[d]
      /\ \/ y.raised /\ y.result = x.result
         \/ ~x.raised /\ ~y.raised /\ y.result[n] = Skipped(x.result[n])
         \/ ~x.raised /\ ~y.raised /\ y.result[n] = Scored(x.result[n], t)
  BY <1>0, <1>1, EvaluateCaseFields
<1>3. x.result[n] \in Result /\ t \in TraceIds \cup {NoTrace}
  BY <1>0, <1>1, FoundIsTrace DEF LoopState
<1>4. ~y.raised => y.result[n].status # "none" /\ ~x.raised
  BY <1>2, <1>3, ResultTypes
<1>5. y.raised \/ \A c \in 1..n : y.result[c].status # "none"
  <2>1. ASSUME ~y.raised, NEW c \in 1..n, c # n PROVE y.result[c].status # "none"
    <3>1. c \in 1..(n - 1) /\ c \in Cases
      BY <1>0, <2>1, EvaluationAssumption DEF Cases
    <3> QED BY <1>2, <1>4, <2>1, <3>1 DEF LoopInv
  <2> QED BY <1>4, <2>1
<1>6. \A c \in Cases : rows.result[c].status # "none" => y.result[c].status # "none"
  BY <1>2, <1>4 DEF LoopInv
<1>7. RowsFit => ResultsFit(y.result)
  <2> SUFFICES ASSUME RowsFit, NEW c \in Cases PROVE Fits(y.result[c], rows.run.bindings[c])
    BY DEF ResultsFit
  <2>1. \A d \in Cases : Fits(x.result[d], rows.run.bindings[d])
    BY DEF LoopInv, ResultsFit
  <2> QED BY <1>0, <1>2, <2>1, CaseFits
<1> QED BY <1>2, <1>5, <1>6, <1>7 DEF LoopInv

LEMMA LoopIsWhole ==
  ASSUME TypeOK
  PROVE  LoopInv(CaseCount, Loop)
<1> DEFINE base == [scope |-> ScopeKB, raised |-> FALSE, result |-> rows.result, link |-> rows.link]
           step == [n \in 1..CaseCount |-> [x \in LoopState |-> EvaluateCase(x, n)]]
           after == CHOOSE f : f = [c \in 0..CaseCount |->
                                      IF c = 0 THEN [scope |-> ScopeKB, raised |-> FALSE,
                                                     result |-> rows.result, link |-> rows.link]
                                      ELSE EvaluateCase(f[c - 1], c)]
<1>0. CaseCount \in Nat /\ CaseCount \in 0..CaseCount
  BY EvaluationAssumption
<1>1. base \in LoopState
  BY EvaluationAssumption DEF LoopState, TypeOK, Rows
<1>2. \A n \in 1..CaseCount, x \in LoopState : EvaluateCase(x, n) \in LoopState
  BY EvaluateCaseFields DEF Cases
<1>3. PICK f \in [0..CaseCount -> LoopState] :
        f[0] = base /\ \A n \in 1..CaseCount : f[n] = step[n][f[n - 1]]
  <2>1. step \in [1..CaseCount -> [LoopState -> LoopState]]
    BY <1>2
  <2> HIDE DEF step, base
  <2>2. Recursions(LoopState, base, step, CaseCount) # {}
    BY <1>0, <1>1, <2>1, RecursionExists
  <2> QED BY <2>2 DEF Recursions
<1>4. \A n \in 1..CaseCount : f[n] = EvaluateCase(f[n - 1], n)
  <2> SUFFICES ASSUME NEW n \in 1..CaseCount PROVE f[n] = EvaluateCase(f[n - 1], n)
    OBVIOUS
  <2>1. f[n - 1] \in LoopState
    BY <1>0
  <2> QED BY <1>3, <2>1
<1>5. f = [c \in 0..CaseCount |-> IF c = 0 THEN base ELSE EvaluateCase(f[c - 1], c)]
  <2>1. \A c \in 0..CaseCount : f[c] = IF c = 0 THEN base ELSE EvaluateCase(f[c - 1], c)
    BY <1>0, <1>3, <1>4
  <2> QED BY <2>1
<1>6. after = [c \in 0..CaseCount |-> IF c = 0 THEN base ELSE EvaluateCase(after[c - 1], c)]
  BY <1>5
<1>7. Loop = after[CaseCount]
  BY DEF Loop
<1> HIDE DEF after
<1>8. LoopInv(0, base)
  BY <1>1 DEF LoopInv, RowsFit
<1> DEFINE S == {n \in Nat : n <= CaseCount => LoopInv(n, after[n])}
<1>9. 0 \in S
  BY <1>6, <1>8
<1>10. ASSUME NEW n \in Nat, n \in S PROVE n + 1 \in S
  <2> SUFFICES ASSUME n + 1 <= CaseCount PROVE LoopInv(n + 1, after[n + 1])
    OBVIOUS
  <2>1. after[n + 1] = EvaluateCase(after[n], n + 1)
    <3>1. n + 1 \in 0..CaseCount /\ n + 1 # 0 /\ (n + 1) - 1 = n
      BY <1>0
    <3> HIDE DEF base
    <3> QED BY <1>6, <3>1
  <2>2. LoopInv((n + 1) - 1, after[n]) /\ n + 1 \in 1..CaseCount
    BY <1>0, <1>10
  <2> QED BY <2>1, <2>2, LoopInvStep
<1>11. CaseCount \in S
  <2> HIDE DEF S
  <2> QED BY <1>0, <1>9, <1>10, SetInduction
<1> QED BY <1>7, <1>11

-----------------------------------------------------------------------------
(* The rows between the requests, and what a request in flight holds. *)

CountsBound(run) == \A c \in Cases : rows.run.bindings[c] # NoTrace => run.counted[c] = rows.run.bindings[c]

Whole(result) == \A c \in Cases : result[c].status # "none"

(* Nothing is executed or reviewed before there is a run, and a completed one is whole. *)
RowsInv ==
  /\ RowsFit
  /\ rows.run.status = "none" => /\ \A c \in Cases : rows.result[c].status = "none"
                                 /\ \A s \in Sessions : sess[s].op = "idle"
  /\ rows.run.status = "completed" => Whole(rows.result) /\ CountsBound(rows.run)

(* What a request has loaded and what it will write fit the run, as the rows do now. *)
RequestInv(w) ==
  /\ ResultsFit(w.loaded.result) /\ ResultsFit(w.changed.result)
  /\ \A c \in Cases : w.loaded.result[c].status # "none" =>
                        w.changed.result[c].status # "none" /\ rows.result[c].status # "none"
  /\ CountsBound(w.loaded.run) => CountsBound(rows.run)
  /\ w.changed.run.counted = w.loaded.run.counted \/ CountsBound(w.changed.run)
  /\ w.op = "execute" =>
       \/ w.changed.run.status = "failed"
       \/ w.changed.run.status = "completed" /\ Whole(w.changed.result) /\ CountsBound(w.changed.run)

AgreeInv == RowsInv /\ \A s \in Sessions : sess[s].op # "idle" => RequestInv(sess[s])

-----------------------------------------------------------------------------
(* Type correctness. *)

Request == [op : {"idle", "execute", "review"}, loaded : Rows, changed : Rows]

LEMMA NoRowsType == NoRows \in Rows /\ Idle \in Request
<1>1. Unbound \in Bindings
  BY DEF Unbound, Bindings
<1>2. NoResult \in Result
  BY DEF NoResult, Result, Metrics
<1>3. NoRun \in Run
  BY <1>1 DEF NoRun, Run
<1>4. NoRows \in Rows
  BY <1>2, <1>3 DEF NoRows, Rows
<1> QED BY <1>4 DEF Idle, Request

LEMMA TypeDef ==
  TypeOK <=> /\ dataset \in [status : {"none", "draft", "published"}, annotated : Bindings]
             /\ trace \in [TraceIds -> Trace \cup {Unrecorded}]
             /\ rows \in Rows
             /\ sess \in [Sessions -> Request]
BY DEF TypeOK, Request

LEMMA FinishedType ==
  ASSUME TypeOK, NEW x \in LoopState
  PROVE  Finished(x) \in Run
<1>1. rows.run \in Run
  BY DEF TypeOK, Rows
<1>2. PICK counted : counted = [c \in Cases |-> x.result[c].metrics.scored]
  OBVIOUS
<1>3. counted \in Bindings
  BY <1>2 DEF Bindings, LoopState, Result, Metrics
<1>4. \/ Finished(x) = [rows.run EXCEPT !.status = "failed", !.error = TRUE]
      \/ Finished(x) = [rows.run EXCEPT !.status = "completed", !.counted = counted]
  BY <1>2 DEF Finished
<1> QED BY <1>1, <1>3, <1>4 DEF Run

(* The rows as a review changes them. *)
Reviewed(c, new) ==
  /\ new.run = rows.run /\ new.link = rows.link
  /\ \A d \in Cases \ {c} : new.result[d] = rows.result[d]
  /\ new.result[c].status = rows.result[c].status
  /\ new.result[c].trace = rows.result[c].trace
  /\ new.result[c].metrics.scored = rows.result[c].metrics.scored
  /\ new.result[c].metrics.review = {rows.result[c].trace}

LEMMA ReviewFields ==
  ASSUME TypeOK, NEW s \in Sessions, NEW c \in Cases, Review(s, c)
  PROVE  /\ rows.result[c].status # "none" /\ UNCHANGED <<dataset, trace, rows>>
         /\ \E new \in Rows :
              /\ sess' = [sess EXCEPT ![s] = [op |-> "review", loaded |-> rows, changed |-> new]]
              /\ Reviewed(c, new)
<1> DEFINE new == [rows EXCEPT !.result[c].metrics.review = {rows.result[c].trace}]
<1>1. PICK r \in Result : r = rows.result[c]
  BY DEF TypeOK, Rows
<1>2. PICK m \in Metrics : m = [scored |-> r.metrics.scored, review |-> {r.trace}]
  BY DEF Result, Metrics
<1>3. PICK reviewed \in Result : reviewed = [status |-> r.status, trace |-> r.trace, metrics |-> m, unbound |-> r.unbound]
  BY DEF Result
<1>4. PICK results \in [Cases -> Result] : results = [rows.result EXCEPT ![c] = reviewed]
  BY DEF TypeOK, Rows
<1>5. [r EXCEPT !.metrics.review = {r.trace}] = reviewed
  <2>1. [r.metrics EXCEPT !.review = {r.trace}] = m
    <3>1. PICK old \in Metrics : old = r.metrics
      BY DEF Result
    <3>2. [old EXCEPT !.review = {r.trace}] = m
      BY <1>2, <3>1 DEF Metrics
    <3> QED BY <3>1, <3>2
  <2>2. [r EXCEPT !.metrics = m] = reviewed
    BY <1>3 DEF Result
  <2>3. [r EXCEPT !.metrics.review = {r.trace}] = [r EXCEPT !.metrics = [r.metrics EXCEPT !.review = {r.trace}]]
    OBVIOUS
  <2> QED BY <2>1, <2>2, <2>3
<1>6. new = [rows EXCEPT !.result = [rows.result EXCEPT ![c] = [rows.result[c] EXCEPT !.metrics.review = {rows.result[c].trace}]]]
  OBVIOUS
<1>7. new = [rows EXCEPT !.result = results]
  BY <1>1, <1>4, <1>5, <1>6
<1>8. results[c] = reviewed /\ \A d \in Cases \ {c} : results[d] = rows.result[d]
  BY <1>4 DEF TypeOK, Rows
<1>9. /\ sess' = [sess EXCEPT ![s] = [op |-> "review", loaded |-> rows, changed |-> new]]
      /\ rows.result[c].status # "none" /\ UNCHANGED <<dataset, trace, rows>>
  BY DEF Review
<1> HIDE DEF new
<1>10. new \in Rows /\ new.run = rows.run /\ new.link = rows.link /\ new.result = results
  BY <1>4, <1>7 DEF TypeOK, Rows
<1>11. Reviewed(c, new)
  BY <1>1, <1>2, <1>3, <1>8, <1>10 DEF Reviewed
<1> QED BY <1>9, <1>10, <1>11

LEMMA WrittenResultType ==
  ASSUME NEW old \in Result, NEW new \in Result, NEW now \in Result
  PROVE  WrittenResult(old, new, now) \in Result
BY DEF WrittenResult, Written, Result

LEMMA WrittenRunType ==
  ASSUME NEW w \in Request, NEW now \in Run
  PROVE  /\ WrittenRun(w, now) \in Run /\ WrittenRun(w, now).bindings = now.bindings
         /\ WrittenRun(w, now).status = IF w.op = "execute" THEN w.changed.run.status ELSE now.status
         /\ WrittenRun(w, now).counted = Written(w.loaded.run.counted, w.changed.run.counted, now.counted)
<1>1. PICK status : status = IF w.op = "execute" THEN w.changed.run.status ELSE now.status
  OBVIOUS
<1>2. PICK error : error = Written(w.loaded.run.error, w.changed.run.error, now.error)
  OBVIOUS
<1>3. PICK counted : counted = Written(w.loaded.run.counted, w.changed.run.counted, now.counted)
  OBVIOUS
<1>4. WrittenRun(w, now) = [now EXCEPT !.status = status, !.error = error, !.counted = counted]
  BY <1>1, <1>2, <1>3 DEF WrittenRun
<1>5. /\ status \in {"none", "pending", "completed", "failed"} /\ error \in BOOLEAN
      /\ counted \in Bindings
  BY <1>1, <1>2, <1>3 DEF Written, Request, Rows, Run
<1> QED BY <1>1, <1>3, <1>4, <1>5 DEF Run

LEMMA CommitType ==
  ASSUME TypeOK, NEW s \in Sessions, Commit(s)
  PROVE  TypeOK'
<1>1. PICK w \in Request : w = sess[s]
  BY DEF TypeOK, Request
<1>2. PICK result : result = [c \in Cases |-> WrittenResult(w.loaded.result[c], w.changed.result[c], rows.result[c])]
  OBVIOUS
<1>3. PICK link : link = [t \in TraceIds |-> Written(w.loaded.link[t], w.changed.link[t], rows.link[t])]
  OBVIOUS
<1>4. PICK run : run = WrittenRun(w, rows.run)
  OBVIOUS
<1>5. /\ w.loaded.result \in [Cases -> Result] /\ w.changed.result \in [Cases -> Result]
      /\ w.loaded.link \in [TraceIds -> Cases \cup {0}] /\ w.changed.link \in [TraceIds -> Cases \cup {0}]
      /\ rows.result \in [Cases -> Result] /\ rows.link \in [TraceIds -> Cases \cup {0}]
      /\ rows.run \in Run
  BY DEF Request, Rows, TypeOK
<1>6. result \in [Cases -> Result]
  BY <1>2, <1>5, WrittenResultType
<1>7. link \in [TraceIds -> Cases \cup {0}]
  BY <1>3, <1>5 DEF Written
<1>8. run \in Run
  BY <1>4, <1>5, WrittenRunType
<1>9. rows' = [result |-> result, link |-> link, run |-> run]
  BY <1>1, <1>2, <1>3, <1>4 DEF Commit
<1>10. rows' \in Rows
  BY <1>6, <1>7, <1>8, <1>9 DEF Rows
<1>11. sess' \in [Sessions -> Request] /\ UNCHANGED <<dataset, trace>>
  BY NoRowsType DEF Commit, TypeOK, Request
<1> QED BY <1>10, <1>11 DEF TypeOK, Request

LEMMA ExecuteType ==
  ASSUME TypeOK, NEW s \in Sessions, Execute(s)
  PROVE  TypeOK'
<1>1. PICK end \in LoopState : end = Loop
  BY LoopIsWhole DEF LoopInv
<1>2. PICK run \in Run : run = Finished(end)
  BY FinishedType
<1>3. PICK changed \in Rows : changed = [result |-> end.result, link |-> end.link, run |-> run]
  BY DEF LoopState, Rows
<1>4. PICK w \in Request : w = [op |-> "execute", loaded |-> rows, changed |-> changed]
  BY DEF TypeOK, Request
<1>5. sess' = [sess EXCEPT ![s] = w] /\ UNCHANGED <<dataset, trace, rows>>
  BY <1>1, <1>2, <1>3, <1>4 DEF Execute
<1> QED BY <1>5 DEF TypeOK, Request

LEMMA ReviewType ==
  ASSUME TypeOK, NEW s \in Sessions, NEW c \in Cases, Review(s, c)
  PROVE  TypeOK'
<1>1. PICK new \in Rows :
        sess' = [sess EXCEPT ![s] = [op |-> "review", loaded |-> rows, changed |-> new]]
  BY ReviewFields
<1>2. PICK w \in Request : w = [op |-> "review", loaded |-> rows, changed |-> new]
  BY DEF TypeOK, Request
<1>3. sess' = [sess EXCEPT ![s] = w] /\ UNCHANGED <<dataset, trace, rows>>
  BY <1>1, <1>2, ReviewFields
<1> QED BY <1>3 DEF TypeOK, Request

(* The bindings of a new run. *)
LEMMA CreateRunBinds ==
  ASSUME TypeOK, NEW explicit \in Bindings, CreateRun(explicit)
  PROVE  /\ rows.run.status = "none" /\ UNCHANGED <<dataset, trace, sess>>
         /\ \E bindings \in Bindings :
              /\ \A c \in Cases : bindings[c] # NoTrace => trace[bindings[c]] # Unrecorded
              /\ rows' = [rows EXCEPT !.run = [NoRun EXCEPT !.status = "pending", !.bindings = bindings]]
<1>1. PICK bindings : bindings = [c \in Cases |-> IF explicit[c] # NoTrace THEN explicit[c]
                                                  ELSE Latest(Candidates(c, ScopeKB))]
  OBVIOUS
<1>2. bindings \in Bindings
  <2>1. \A c \in Cases : Candidates(c, ScopeKB) \in SUBSET TraceIds
    BY DEF Candidates
  <2> QED BY <1>1, <2>1, LatestIsOne DEF Bindings
<1> QED BY <1>1, <1>2 DEF CreateRun

LEMMA NextType == TypeOK /\ [Next]_vars => TypeOK'
<1> SUFFICES ASSUME TypeOK, [Next]_vars PROVE TypeOK'
  OBVIOUS
<1>1. ASSUME NEW t \in TraceIds, ChatFails(t) PROVE TypeOK'
  <2>1. trace[t] \in Trace
    BY <1>1 DEF ChatFails, TypeOK
  <2>2. PICK broken \in Trace : broken = [trace[t] EXCEPT !.kind = "broken"]
    BY <2>1 DEF Trace
  <2>3. trace' = [trace EXCEPT ![t] = broken]
    BY <1>1, <2>2 DEF ChatFails
  <2> QED BY <1>1, <2>3 DEF ChatFails, TypeOK
<1>2. ASSUME NEW t \in TraceIds, NEW new \in Online, RecordTrace(t, new) PROVE TypeOK'
  BY <1>2, TraceAssumption DEF RecordTrace, TypeOK
<1>3. ASSUME NEW annotated \in Annotations, CreateSnapshot(annotated) PROVE TypeOK'
  BY <1>3, AnnotationsAssumption DEF CreateSnapshot, TypeOK
<1>4. CASE PublishSnapshot
  BY <1>4 DEF PublishSnapshot, TypeOK
<1>5. ASSUME NEW explicit \in Bindings, CreateRun(explicit) PROVE TypeOK'
  <2>1. PICK bindings \in Bindings :
          rows' = [rows EXCEPT !.run = [NoRun EXCEPT !.status = "pending", !.bindings = bindings]]
    BY <1>5, CreateRunBinds
  <2>2. PICK run \in Run : run = [NoRun EXCEPT !.status = "pending", !.bindings = bindings]
    BY NoRowsType DEF NoRows, Rows, NoRun, Run
  <2>3. rows' = [rows EXCEPT !.run = run]
    BY <2>1, <2>2
  <2> QED BY <1>5, <2>3, CreateRunBinds DEF TypeOK, Rows
<1>6. ASSUME NEW s \in Sessions, Rollback(s) PROVE TypeOK'
  BY <1>6, NoRowsType DEF Rollback, TypeOK, Request
<1>7. CASE UNCHANGED vars
  BY <1>7 DEF vars, TypeOK
<1> QED BY <1>1, <1>2, <1>3, <1>4, <1>5, <1>6, <1>7, ExecuteType, ReviewType, CommitType DEF Next

LEMMA InitType == Init => TypeOK
<1>1. Unbound \in Bindings
  BY DEF Unbound, Bindings
<1> QED BY <1>1, NoRowsType DEF Init, TypeOK, Request

(* Rows and requests stay in their domains. *)
THEOREM TypeCorrect == Spec => []TypeOK
BY InitType, NextType, PTL DEF Spec

-----------------------------------------------------------------------------
(* The results, the metrics and the counts agree with what the run was bound to. *)

(* Column by column, what a commit leaves of a result fits the run as well. *)
LEMMA WrittenResultFits ==
  ASSUME NEW old \in Result, NEW new \in Result, NEW now \in Result, NEW b \in TraceIds \cup {NoTrace},
         Fits(old, b), Fits(new, b), Fits(now, b),
         old.status # "none" => new.status # "none" /\ now.status # "none",
         ~(old.status = "none" /\ new.status # "none" /\ now.status # "none"),
         NEW w, w = WrittenResult(old, new, now)
  PROVE  /\ Fits(w, b)
         /\ new.status # "none" \/ now.status # "none" => w.status # "none"
<1>0. /\ w.status = Written(old.status, new.status, now.status)
      /\ w.trace = Written(old.trace, new.trace, now.trace)
      /\ w.metrics = Written(old.metrics, new.metrics, now.metrics)
      /\ w.unbound = Written(old.unbound, new.unbound, now.unbound)
      /\ w \in Result
  BY WrittenResultType DEF WrittenResult
<1>1. CASE old.status = "none" /\ new.status = "none"
  <2>1. old = new
    BY <1>1 DEF Fits
  <2>2. w = now
    BY <1>0, <2>1 DEF Written, Result
  <2> QED BY <1>1, <2>2
<1>2. CASE old.status = "none" /\ new.status # "none"
  <2>1. old = NoResult /\ w.status = new.status
    BY <1>0, <1>2 DEF Fits, Written
  <2>2. b # NoTrace => w.trace = new.trace /\ w.metrics = new.metrics
    BY <1>0, <1>2, <2>1 DEF Fits, Written, NoResult
  <2> QED BY <1>2, <2>1, <2>2 DEF Fits
<1>3. CASE old.status # "none"
  BY <1>0, <1>3 DEF Fits, Written
<1> QED BY <1>1, <1>2, <1>3

(* What a commit does to the rows. *)
LEMMA CommitFields ==
  ASSUME TypeOK, NEW s \in Sessions, Commit(s), NEW w, w = sess[s]
  PROVE  /\ w \in Request /\ w.op # "idle" /\ UNCHANGED <<dataset, trace>>
         /\ \A t \in Sessions \ {s} : sess'[t] = sess[t]
         /\ sess'[s].op = "idle"
         /\ rows'.run.bindings = rows.run.bindings
         /\ rows'.run.status = IF w.op = "execute" THEN w.changed.run.status ELSE rows.run.status
         /\ rows'.run.counted = Written(w.loaded.run.counted, w.changed.run.counted, rows.run.counted)
         /\ \A c \in Cases : rows'.result[c] = WrittenResult(w.loaded.result[c], w.changed.result[c], rows.result[c])
         /\ \A c \in Cases : ~(/\ w.loaded.result[c].status = "none" /\ w.changed.result[c].status # "none"
                               /\ rows.result[c].status # "none")
<1>1. w \in Request
  BY DEF TypeOK, Request
<1>2. PICK result : result = [c \in Cases |-> WrittenResult(w.loaded.result[c], w.changed.result[c], rows.result[c])]
  OBVIOUS
<1>3. PICK run : run = WrittenRun(w, rows.run)
  OBVIOUS
<1>4. rows'.result = result /\ rows'.run = run
  BY <1>2, <1>3 DEF Commit
<1>5. /\ w.op # "idle" /\ UNCHANGED <<dataset, trace>> /\ ~InsertsTwice(w)
      /\ sess' = [sess EXCEPT ![s] = Idle]
  BY DEF Commit
<1>6. /\ \A t \in Sessions \ {s} : sess'[t] = sess[t]
      /\ sess'[s].op = "idle"
  BY <1>5 DEF TypeOK, Idle
<1>7. /\ run.bindings = rows.run.bindings
      /\ run.status = IF w.op = "execute" THEN w.changed.run.status ELSE rows.run.status
      /\ run.counted = Written(w.loaded.run.counted, w.changed.run.counted, rows.run.counted)
  BY <1>1, <1>3, WrittenRunType DEF TypeOK, Rows
<1>8. \A c \in Cases : rows'.result[c] = WrittenResult(w.loaded.result[c], w.changed.result[c], rows.result[c])
  BY <1>2, <1>4
<1> QED BY <1>1, <1>4, <1>5, <1>6, <1>7, <1>8 DEF InsertsTwice

LEMMA CommitAgrees ==
  ASSUME TypeOK, AgreeInv, NEW s \in Sessions, Commit(s)
  PROVE  AgreeInv'
<1>1. PICK w : w = sess[s]
  OBVIOUS
<1>2. /\ w \in Request /\ w.op # "idle" /\ UNCHANGED <<dataset, trace>>
      /\ \A t \in Sessions \ {s} : sess'[t] = sess[t]
      /\ sess'[s].op = "idle"
      /\ rows'.run.bindings = rows.run.bindings
      /\ rows'.run.status = IF w.op = "execute" THEN w.changed.run.status ELSE rows.run.status
      /\ rows'.run.counted = Written(w.loaded.run.counted, w.changed.run.counted, rows.run.counted)
  BY <1>1, CommitFields
<1>3. RowsInv /\ RequestInv(w)
  BY <1>1, <1>2 DEF AgreeInv
<1>4. \A c \in Cases : /\ Fits(rows'.result[c], rows.run.bindings[c])
                       /\ \/ w.changed.result[c].status # "none"
                          \/ rows.result[c].status # "none"
                          => rows'.result[c].status # "none"
  <2> SUFFICES ASSUME NEW c \in Cases
               PROVE  /\ Fits(rows'.result[c], rows.run.bindings[c])
                      /\ \/ w.changed.result[c].status # "none"
                         \/ rows.result[c].status # "none"
                         => rows'.result[c].status # "none"
    OBVIOUS
  <2>1. /\ w.loaded.result[c] \in Result /\ w.changed.result[c] \in Result /\ rows.result[c] \in Result
        /\ rows.run.bindings[c] \in TraceIds \cup {NoTrace}
    BY <1>2 DEF TypeOK, Request, Rows, Run, Bindings
  <2>2. /\ Fits(w.loaded.result[c], rows.run.bindings[c]) /\ Fits(w.changed.result[c], rows.run.bindings[c])
        /\ Fits(rows.result[c], rows.run.bindings[c])
        /\ w.loaded.result[c].status # "none" =>
             w.changed.result[c].status # "none" /\ rows.result[c].status # "none"
    BY <1>3 DEF RequestInv, RowsInv, RowsFit, ResultsFit
  <2>3. /\ rows'.result[c] = WrittenResult(w.loaded.result[c], w.changed.result[c], rows.result[c])
        /\ ~(w.loaded.result[c].status = "none" /\ w.changed.result[c].status # "none"
             /\ rows.result[c].status # "none")
    BY <1>1, CommitFields
  <2> QED BY <2>1, <2>2, <2>3, WrittenResultFits
<1>5. /\ CountsBound(rows.run) => CountsBound(rows.run)'
      /\ CountsBound(w.changed.run) => CountsBound(rows.run)'
  <2>1. CASE w.changed.run.counted = w.loaded.run.counted
    BY <1>2, <1>3, <2>1 DEF RequestInv, CountsBound, Written
  <2>2. CASE w.changed.run.counted # w.loaded.run.counted
    BY <1>2, <1>3, <2>2 DEF RequestInv, CountsBound, Written
  <2> QED BY <2>1, <2>2
<1>6. RowsInv'
  <2>1. RowsFit'
    BY <1>2, <1>3, <1>4 DEF RowsInv, RowsFit, BindingsRecorded, ResultsFit
  <2>2. rows'.run.status # "none"
    BY <1>1, <1>2, <1>3 DEF RowsInv, RequestInv
  <2>3. rows'.run.status = "completed" => Whole(rows'.result) /\ CountsBound(rows.run)'
    <3>1. CASE w.op = "execute"
      BY <1>2, <1>3, <1>4, <1>5, <3>1 DEF RequestInv, Whole
    <3>2. CASE w.op # "execute"
      BY <1>2, <1>3, <1>4, <1>5, <3>2 DEF RowsInv, Whole
    <3> QED BY <3>1, <3>2
  <2> QED BY <2>1, <2>2, <2>3 DEF RowsInv, Whole
<1>7. ASSUME NEW t \in Sessions, sess'[t].op # "idle" PROVE RequestInv(sess[t])'
  <2>1. t # s /\ sess'[t] = sess[t] /\ RequestInv(sess[t])
    BY <1>2, <1>7 DEF AgreeInv
  <2> QED BY <1>2, <1>4, <1>5, <2>1 DEF RequestInv, ResultsFit, CountsBound, Whole
<1> QED BY <1>6, <1>7 DEF AgreeInv

LEMMA ExecuteAgrees ==
  ASSUME TypeOK, AgreeInv, NEW s \in Sessions, Execute(s)
  PROVE  AgreeInv'
<1>1. PICK end : end = Loop
  OBVIOUS
<1>2. PICK run : run = Finished(end)
  OBVIOUS
<1>3. PICK w : w = [op |-> "execute", loaded |-> rows,
                    changed |-> [result |-> end.result, link |-> end.link, run |-> run]]
  OBVIOUS
<1>4. sess' = [sess EXCEPT ![s] = w] /\ UNCHANGED <<dataset, trace, rows>> /\ rows.run.status # "none"
  BY <1>1, <1>2, <1>3 DEF Execute
<1>5. /\ end \in LoopState
      /\ end.raised \/ Whole(end.result)
      /\ \A c \in Cases : rows.result[c].status # "none" => end.result[c].status # "none"
      /\ ResultsFit(end.result)
  BY <1>1, LoopIsWhole DEF LoopInv, AgreeInv, RowsInv, Whole, Cases
<1>6. \/ run.status = "failed" /\ run.counted = rows.run.counted /\ end.raised
      \/ run.status = "completed" /\ CountsBound(run) /\ ~end.raised
  <2>1. CASE end.raised
    <3>1. run = [rows.run EXCEPT !.status = "failed", !.error = TRUE]
      BY <1>2, <2>1 DEF Finished
    <3> QED BY <2>1, <3>1 DEF TypeOK, Rows, Run
  <2>2. CASE ~end.raised
    <3>1. PICK counted : counted = [c \in Cases |-> end.result[c].metrics.scored]
      OBVIOUS
    <3>2. run = [rows.run EXCEPT !.status = "completed", !.counted = counted]
      BY <1>2, <2>2, <3>1 DEF Finished
    <3>3. run.status = "completed" /\ run.counted = counted
      BY <3>2 DEF TypeOK, Rows, Run
    <3>4. CountsBound(run)
      BY <1>5, <2>2, <3>1, <3>3 DEF CountsBound, ResultsFit, Fits, Whole
    <3> QED BY <2>2, <3>3, <3>4
  <2> QED BY <2>1, <2>2
<1>7. RequestInv(w)
  BY <1>3, <1>5, <1>6 DEF RequestInv, AgreeInv, RowsInv, RowsFit
<1>8. ASSUME NEW t \in Sessions, sess'[t].op # "idle" PROVE RequestInv(sess[t])'
  <2>1. RequestInv(sess'[t])
    BY <1>4, <1>7, <1>8 DEF AgreeInv, TypeOK
  <2> QED BY <1>4, <2>1 DEF RequestInv, ResultsFit, CountsBound, Whole
<1>9. RowsInv'
  BY <1>4 DEF AgreeInv, RowsInv, RowsFit, BindingsRecorded, ResultsFit, CountsBound, Whole
<1> QED BY <1>8, <1>9 DEF AgreeInv

LEMMA ReviewAgrees ==
  ASSUME TypeOK, AgreeInv, NEW s \in Sessions, NEW c \in Cases, Review(s, c)
  PROVE  AgreeInv'
<1>1. PICK new \in Rows :
        /\ sess' = [sess EXCEPT ![s] = [op |-> "review", loaded |-> rows, changed |-> new]]
        /\ Reviewed(c, new)
  BY ReviewFields
<1>2. PICK w : w = [op |-> "review", loaded |-> rows, changed |-> new]
  OBVIOUS
<1>3. sess' = [sess EXCEPT ![s] = w] /\ UNCHANGED <<dataset, trace, rows>> /\ rows.result[c].status # "none"
  BY <1>1, <1>2, ReviewFields
<1>4. Reviewed(c, new)
  BY <1>1
<1>5. ResultsFit(rows.result) /\ ResultsFit(new.result)
  BY <1>3, <1>4 DEF Reviewed, AgreeInv, RowsInv, RowsFit, ResultsFit, Fits
<1>6. RequestInv(w)
  BY <1>2, <1>4, <1>5 DEF Reviewed, RequestInv
<1>7. ASSUME NEW t \in Sessions, sess'[t].op # "idle" PROVE RequestInv(sess[t])'
  <2>1. RequestInv(sess'[t])
    BY <1>3, <1>6, <1>7 DEF AgreeInv, TypeOK
  <2> QED BY <1>3, <2>1 DEF RequestInv, ResultsFit, CountsBound, Whole
<1>8. RowsInv'
  <2>1. rows.run.status # "none"
    BY <1>3 DEF AgreeInv, RowsInv
  <2> QED BY <1>3, <2>1 DEF AgreeInv, RowsInv, RowsFit, BindingsRecorded, ResultsFit, CountsBound, Whole
<1> QED BY <1>7, <1>8 DEF AgreeInv

LEMMA CreateRunAgrees ==
  ASSUME TypeOK, AgreeInv, NEW explicit \in Bindings, CreateRun(explicit)
  PROVE  AgreeInv'
<1>1. PICK bindings \in Bindings :
        /\ \A c \in Cases : bindings[c] # NoTrace => trace[bindings[c]] # Unrecorded
        /\ rows' = [rows EXCEPT !.run = [NoRun EXCEPT !.status = "pending", !.bindings = bindings]]
  BY CreateRunBinds
<1>2. rows.run.status = "none" /\ UNCHANGED <<dataset, trace, sess>>
  BY CreateRunBinds
<1>3. PICK run : run = [NoRun EXCEPT !.status = "pending", !.bindings = bindings]
  OBVIOUS
<1>4. run.status = "pending" /\ run.bindings = bindings
  BY <1>3 DEF NoRun
<1>5. rows'.run = run /\ rows'.result = rows.result
  BY <1>1, <1>3 DEF TypeOK, Rows
<1>6. RowsInv'
  BY <1>1, <1>2, <1>4, <1>5 DEF AgreeInv, RowsInv, RowsFit, BindingsRecorded, ResultsFit, Fits
<1>7. \A s \in Sessions : sess'[s].op = "idle"
  BY <1>2 DEF AgreeInv, RowsInv
<1> QED BY <1>6, <1>7 DEF AgreeInv

(* A step that leaves the rows and the other requests alone, and no trace unrecorded. *)
LEMMA QuietAgrees ==
  ASSUME AgreeInv, UNCHANGED rows, \A s \in Sessions : sess'[s] = sess[s] \/ sess'[s].op = "idle",
         \A t \in TraceIds : trace[t] # Unrecorded => trace'[t] # Unrecorded, TypeOK
  PROVE  AgreeInv'
<1>1. RowsInv'
  <2>1. BindingsRecorded'
    BY DEF AgreeInv, RowsInv, RowsFit, BindingsRecorded, TypeOK, Rows, Run, Bindings
  <2> QED BY <2>1 DEF AgreeInv, RowsInv, RowsFit, ResultsFit, CountsBound, Whole
<1>2. ASSUME NEW t \in Sessions, sess'[t].op # "idle" PROVE RequestInv(sess[t])'
  BY <1>2 DEF AgreeInv, RequestInv, ResultsFit, CountsBound, Whole
<1> QED BY <1>1, <1>2 DEF AgreeInv

LEMMA NextAgrees == TypeOK /\ AgreeInv /\ [Next]_vars => AgreeInv'
<1> SUFFICES ASSUME TypeOK, AgreeInv, [Next]_vars PROVE AgreeInv'
  OBVIOUS
<1>1. ASSUME NEW t \in TraceIds, ChatFails(t) \/ \E new \in Online : RecordTrace(t, new) PROVE AgreeInv'
  <2>1. \A u \in TraceIds : trace[u] # Unrecorded => trace'[u] # Unrecorded
    <3>1. CASE ChatFails(t)
      <4>1. trace[t] \in Trace /\ trace' = [trace EXCEPT ![t] = [trace[t] EXCEPT !.kind = "broken"]]
        BY <3>1 DEF ChatFails, TypeOK
      <4>2. [trace[t] EXCEPT !.kind = "broken"] \in Trace
        BY <4>1 DEF Trace
      <4> QED BY <4>1, <4>2, TraceAssumption DEF TypeOK
    <3>2. CASE \E new \in Online : RecordTrace(t, new)
      BY <3>2, TraceAssumption DEF RecordTrace, TypeOK
    <3> QED BY <1>1, <3>1, <3>2
  <2> QED BY <1>1, <2>1, QuietAgrees DEF ChatFails, RecordTrace
<1>2. ASSUME NEW annotated \in Annotations, CreateSnapshot(annotated) PROVE AgreeInv'
  BY <1>2, QuietAgrees DEF CreateSnapshot
<1>3. CASE PublishSnapshot \/ UNCHANGED vars
  BY <1>3, QuietAgrees DEF PublishSnapshot, vars
<1>4. ASSUME NEW s \in Sessions, Rollback(s) PROVE AgreeInv'
  BY <1>4, QuietAgrees DEF Rollback, Idle, TypeOK
<1> QED BY <1>1, <1>2, <1>3, <1>4, CreateRunAgrees, ExecuteAgrees, ReviewAgrees, CommitAgrees DEF Next

LEMMA InitAgrees == Init => AgreeInv
<1> SUFFICES ASSUME Init PROVE AgreeInv
  OBVIOUS
<1>1. /\ rows.run.status = "none" /\ rows.run.bindings = Unbound
      /\ \A c \in Cases : rows.result[c] = NoResult
  BY DEF Init, NoRows, NoRun
<1>2. \A s \in Sessions : sess[s].op = "idle"
  BY DEF Init, Idle
<1>3. RowsFit
  BY <1>1 DEF RowsFit, BindingsRecorded, ResultsFit, Fits, Unbound, NoResult
<1>4. RowsInv
  BY <1>1, <1>2, <1>3 DEF RowsInv, NoResult
<1> QED BY <1>2, <1>4 DEF AgreeInv

LEMMA AlwaysAgrees == Spec => []AgreeInv
BY InitType, InitAgrees, NextType, NextAgrees, TypeCorrect, PTL DEF Spec

(* A run that reads completed has a result for every case, whichever executions
   overlapped, failed or were rolled back before. *)
THEOREM CompletedStaysWhole == Spec => []CompletedRunIsWhole
<1>1. AgreeInv => CompletedRunIsWhole
  BY DEF AgreeInv, RowsInv, Whole, CompletedRunIsWhole
<1> QED BY <1>1, AlwaysAgrees, PTL

(* What the manifest bound when the run was created is what the results show, what the
   metrics scored, what a human reviewed and what the aggregates count, whatever
   overlapped. *)
THEOREM PinnedResultsStay == Spec => []PinnedResultsAgree
<1>1. AgreeInv => PinnedResultsAgree
  BY DEF AgreeInv, RowsInv, RowsFit, ResultsFit, Fits, CountsBound, PinnedResultsAgree
<1> QED BY <1>1, AlwaysAgrees, PTL
===============================================================================
