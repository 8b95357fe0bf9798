------------------------- MODULE CircuitBreakerProofs -------------------------
(***************************************************************************)
(* Proofs about module CircuitBreaker, for every number of calls and every *)
(* threshold, window, cool-down and probe limit.                           *)
(***************************************************************************)
EXTENDS CircuitBreaker, SequenceTheorems, TLAPS

Age == 0..(FailureWindow + 1)

(* The deque is ordered by age, which is what lets record_failure prune it from
   the left only. *)
OldestFirst == \A i, k \in 1..Len(failures) : i < k => failures[i] >= failures[k]

-----------------------------------------------------------------------------
(* What record_failure leaves in the deque. *)

LEMMA KeptIsSuffix ==
  ASSUME failures \in Seq(Age), NEW n \in 0..Len(failures)
  PROVE  /\ Kept(n) \in Seq(Age)
         /\ Len(Kept(n)) = Len(failures) - n
         /\ \A i \in 1..Len(Kept(n)) : Kept(n)[i] = failures[n + i]
<1>1. n + 1 \in 1..(Len(failures) + 1) /\ Len(failures) \in Nat
  OBVIOUS
<1>2. Kept(n) = [i \in 1..(Len(failures) - n) |-> failures[n + i]]
  BY <1>1 DEF Kept
<1>3. \A i \in 1..(Len(failures) - n) : failures[n + i] \in Age
  BY <1>1
<1> QED BY <1>1, <1>2, <1>3

LEMMA RememberedIsSuffixAndNew ==
  ASSUME BreakerAssumption, failures \in Seq(Age), NEW n \in 0..Len(failures)
  PROVE  /\ Remembered(n) \in Seq(Age)
         /\ Len(Remembered(n)) = Len(Kept(n)) + 1
         /\ \A i \in 1..Len(Kept(n)) : Remembered(n)[i] = Kept(n)[i]
         /\ Remembered(n)[Len(Kept(n)) + 1] = 0
<1>1. Kept(n) \in Seq(Age)
  BY KeptIsSuffix
<1>2. 0 \in Age
  BY DEF Age, BreakerAssumption
<1> QED BY <1>1, <1>2 DEF Remembered

Ordered(s) == \A i, k \in 1..Len(s) : i < k => s[i] >= s[k]

LEMMA KeptOrdered ==
  ASSUME failures \in Seq(Age), OldestFirst, NEW n \in 0..Len(failures)
  PROVE  Ordered(Kept(n))
<1> SUFFICES ASSUME NEW i \in 1..Len(Kept(n)), NEW k \in 1..Len(Kept(n)), i < k
             PROVE  Kept(n)[i] >= Kept(n)[k]
  BY DEF Ordered
<1>1. n + i \in 1..Len(failures) /\ n + k \in 1..Len(failures) /\ n + i < n + k
  BY KeptIsSuffix
<1>2. failures[n + i] >= failures[n + k]
  BY <1>1 DEF OldestFirst
<1> QED BY <1>2, KeptIsSuffix

LEMMA RememberedOrdered ==
  ASSUME BreakerAssumption, failures \in Seq(Age), OldestFirst, NEW n \in 0..Len(failures)
  PROVE  Ordered(Remembered(n))
<1>1. Ordered(Kept(n)) /\ Kept(n) \in Seq(Age)
  BY KeptOrdered, KeptIsSuffix
<1> SUFFICES ASSUME NEW i \in 1..Len(Remembered(n)), NEW k \in 1..Len(Remembered(n)), i < k
             PROVE  Remembered(n)[i] >= Remembered(n)[k]
  BY DEF Ordered
<1>2. i \in 1..Len(Kept(n))
  BY <1>1, RememberedIsSuffixAndNew
<1>3. CASE k \in 1..Len(Kept(n))
  BY <1>1, <1>2, <1>3, RememberedIsSuffixAndNew DEF Ordered
<1>4. CASE k = Len(Kept(n)) + 1
  <2>1. Remembered(n)[i] \in Age
    BY RememberedIsSuffixAndNew, ElementOfSeq
  <2>2. Remembered(n)[k] = 0
    BY <1>4, RememberedIsSuffixAndNew
  <2> QED BY <2>1, <2>2 DEF Age, BreakerAssumption
<1>5. k \in 1..(Len(Kept(n)) + 1) /\ Len(Kept(n)) \in Nat
  BY <1>1, RememberedIsSuffixAndNew
<1> QED BY <1>3, <1>4, <1>5

-----------------------------------------------------------------------------
(* The invariant: the type, and the two facts about the deque. *)

BInv == TypeOK /\ ClosedBelowThreshold /\ OldestFirst

LEMMA FailuresType == ASSUME TypeOK PROVE failures \in Seq(Age)
BY DEF TypeOK, Age

LEMMA InitBInv == ASSUME BreakerAssumption, Init PROVE BInv
BY DEF Init, BInv, TypeOK, ClosedBelowThreshold, OldestFirst, BreakerAssumption, States, NoCall

LEMMA ReturnType == ASSUME TypeOK, NEW c \in Calls, Return(c)
                    PROVE  calls' \in [Calls -> States \cup {NoCall}]
BY DEF TypeOK, Return

LEMMA BeforeCallBInv ==
  ASSUME BreakerAssumption, BInv, NEW c \in Calls, BeforeCall(c)
  PROVE  BInv'
<1>1. state' \in States /\ halfOpenCalls' \in 0..HalfOpenMaxCalls
  BY DEF BInv, TypeOK, BeforeCall, AdmittedAs, FirstProbe, ProbesLeft, States, BreakerAssumption
<1>2. TypeOK'
  BY <1>1 DEF BInv, TypeOK, BeforeCall
<1>3. ClosedBelowThreshold'
  BY DEF BInv, ClosedBelowThreshold, BeforeCall, AdmittedAs, FirstProbe
<1>4. OldestFirst'
  BY DEF BInv, OldestFirst, BeforeCall
<1> QED BY <1>2, <1>3, <1>4 DEF BInv

LEMMA SuccessBInv ==
  ASSUME BreakerAssumption, BInv, NEW c \in Calls, Succeed(c) \/ Bypass(c)
  PROVE  BInv'
<1>1. Return(c) /\ RecordSuccess /\ UNCHANGED <<healthy, cancels>>
  BY DEF Succeed, Bypass
<1>2. TypeOK'
  BY <1>1, ReturnType DEF BInv, TypeOK, RecordSuccess, States, BreakerAssumption
<1>3. ClosedBelowThreshold' /\ OldestFirst'
  BY <1>1 DEF RecordSuccess, ClosedBelowThreshold, OldestFirst, BreakerAssumption
<1> QED BY <1>2, <1>3 DEF BInv

LEMMA FailBInv ==
  ASSUME BreakerAssumption, BInv, NEW c \in Calls, Fail(c)
  PROVE  BInv'
<1>1. PICK n \in 0..Len(failures) :
        \/ state = "HALF_OPEN" /\ failures' = Kept(n) /\ Reopen
        \/ /\ state # "HALF_OPEN" /\ failures' = Remembered(n)
           /\ IF Reaches(failures') THEN Reopen ELSE UNCHANGED <<state, openedFor>>
  BY DEF Fail, RecordFailure
<1>2. failures \in Seq(Age) /\ OldestFirst
  BY FailuresType DEF BInv
<1>3. failures' \in Seq(Age)
  BY <1>1, <1>2, KeptIsSuffix, RememberedIsSuffixAndNew
<1>4. state' \in States /\ openedFor' \in 0..OpenSeconds
  BY <1>1 DEF BInv, TypeOK, Reopen, States, BreakerAssumption
<1>5. TypeOK'
  BY <1>3, <1>4, ReturnType DEF BInv, TypeOK, Fail, RecordFailure, Age
<1>6. ClosedBelowThreshold'
  <2> SUFFICES ASSUME state' = "CLOSED" PROVE Len(failures') < FailureThreshold
    BY DEF ClosedBelowThreshold
  <2>1. ~Reaches(failures')
    BY <1>1 DEF Reopen
  <2> QED BY <2>1, <1>3 DEF Reaches, BreakerAssumption
<1>7. OldestFirst'
  <2>1. Ordered(failures')
    BY <1>1, <1>2, KeptOrdered, RememberedOrdered
  <2> QED BY <2>1 DEF Ordered, OldestFirst
<1> QED BY <1>5, <1>6, <1>7 DEF BInv

LEMMA TickBInv ==
  ASSUME BreakerAssumption, BInv, Tick
  PROVE  BInv'
<1> DEFINE aged(i) == CappedAt(failures[i] + 1, FailureWindow + 1)
<1>1. failures \in Seq(Age) /\ DOMAIN failures = 1..Len(failures) /\ Len(failures) \in Nat
  BY FailuresType DEF BInv
<1>2. \A i \in 1..Len(failures) : failures[i] \in Age /\ aged(i) \in Age
  BY <1>1 DEF CappedAt, Age, BreakerAssumption
<1>3. failures' = [i \in 1..Len(failures) |-> aged(i)]
  BY <1>1 DEF Tick
<1>4. failures' \in Seq(Age) /\ Len(failures') = Len(failures)
  BY <1>1, <1>2, <1>3
<1>5. openedFor' \in 0..OpenSeconds
  BY DEF BInv, TypeOK, Tick, CappedAt, BreakerAssumption
<1>6. TypeOK'
  BY <1>4, <1>5 DEF BInv, TypeOK, Tick, Age
<1>7. ClosedBelowThreshold'
  BY <1>4 DEF BInv, ClosedBelowThreshold, Tick
<1>8. OldestFirst'
  <2> SUFFICES ASSUME NEW i \in 1..Len(failures), NEW k \in 1..Len(failures), i < k
               PROVE  failures'[i] >= failures'[k]
    BY <1>4 DEF OldestFirst
  <2>1. failures[i] >= failures[k]
    BY DEF BInv, OldestFirst
  <2> QED BY <1>2, <1>3, <2>1 DEF CappedAt, Age, BreakerAssumption
<1> QED BY <1>6, <1>7, <1>8 DEF BInv

LEMMA NextBInv ==
  ASSUME BreakerAssumption, BInv, [Next]_vars
  PROVE  BInv'
<1>1. ASSUME NEW c \in Calls, BeforeCall(c) PROVE BInv'
  BY <1>1, BeforeCallBInv
<1>2. ASSUME NEW c \in Calls, Succeed(c) \/ Bypass(c) PROVE BInv'
  BY <1>2, SuccessBInv
<1>3. ASSUME NEW c \in Calls, Fail(c) PROVE BInv'
  BY <1>3, FailBInv
<1>4. ASSUME NEW c \in Calls, Cancel(c) PROVE BInv'
  <2>1. cancels' \in 0..MaxCancels
    BY <1>4 DEF Cancel, BInv, TypeOK, BreakerAssumption
  <2>2. TypeOK'
    BY <1>4, <2>1, ReturnType DEF Cancel, breaker, BInv, TypeOK
  <2> QED BY <1>4, <2>2 DEF Cancel, breaker, BInv, ClosedBelowThreshold, OldestFirst
<1>5. CASE Tick
  BY <1>5, TickBInv
<1>6. CASE HealthChanges
  BY <1>6 DEF HealthChanges, breaker, BInv, TypeOK, ClosedBelowThreshold, OldestFirst
<1>7. CASE UNCHANGED vars
  BY <1>7 DEF vars, BInv, TypeOK, ClosedBelowThreshold, OldestFirst
<1> QED BY <1>1, <1>2, <1>3, <1>4, <1>5, <1>6, <1>7 DEF Next

LEMMA BreakerInvariant == Spec => []BInv
<1>1. Init => BInv
  BY InitBInv, BreakerAssumption
<1>2. BInv /\ [Next]_vars => BInv'
  BY NextBInv, BreakerAssumption
<1> QED BY <1>1, <1>2, PTL DEF Spec

(* The fields of the breaker stay in their domains: in particular no more than
   half_open_max_calls probes are ever counted in one HALF_OPEN period. *)
THEOREM BreakerTypeCorrect == Spec => []TypeOK
<1>1. BInv => TypeOK
  BY DEF BInv
<1> QED BY <1>1, BreakerInvariant, PTL

(* A CLOSED breaker remembers fewer failures than failure_threshold, whatever
   calls of an earlier OPEN or HALF_OPEN period report late. *)
THEOREM ClosedStaysBelowThreshold == Spec => []ClosedBelowThreshold
<1>1. BInv => ClosedBelowThreshold
  BY DEF BInv
<1> QED BY <1>1, BreakerInvariant, PTL

(* The deque of failures is ordered by age, so that pruning it from the left
   drops every failure older than the window. *)
THEOREM FailuresOldestFirst == Spec => []OldestFirst
<1>1. BInv => OldestFirst
  BY DEF BInv
<1> QED BY <1>1, BreakerInvariant, PTL

LEMMA RememberedIsRecent ==
  ASSUME BreakerAssumption, failures \in Seq(Age), OldestFirst, NEW n \in 0..Len(failures), Expires(n)
  PROVE  \A i \in 1..Len(Remembered(n)) : Remembered(n)[i] <= FailureWindow
<1> TAKE i \in 1..Len(Remembered(n))
<1>1. CASE i = Len(Kept(n)) + 1
  BY <1>1, RememberedIsSuffixAndNew DEF BreakerAssumption
<1>2. CASE i # Len(Kept(n)) + 1
  <2>1. i \in 1..Len(Kept(n)) /\ Remembered(n)[i] = failures[n + i] /\ n + i \in 1..Len(failures)
    BY <1>2, KeptIsSuffix, RememberedIsSuffixAndNew
  <2>2. n + 1 \in 1..Len(failures) /\ failures[n + 1] <= FailureWindow
    BY <2>1 DEF Expires
  <2>3. failures[n + i] <= failures[n + 1]
    <3>1. CASE i = 1
      BY <2>2, <3>1 DEF Age, BreakerAssumption
    <3>2. CASE i # 1
      BY <2>1, <2>2, <3>2 DEF OldestFirst
    <3> QED BY <3>1, <3>2
  <2>4. failures[n + i] \in Age /\ failures[n + 1] \in Age
    BY <2>1, <2>2, ElementOfSeq
  <2>5. failures[n + i] \in Int /\ failures[n + 1] \in Int /\ FailureWindow \in Int
    BY <2>4 DEF Age, BreakerAssumption
  <2> QED BY <2>1, <2>2, <2>3, <2>5
<1> QED BY <1>1, <1>2

LEMMA TripsStep ==
  ASSUME BreakerAssumption, BInv, [Next]_vars, state = "CLOSED", state' = "OPEN"
  PROVE  /\ Len(failures') >= FailureThreshold
         /\ \A i \in 1..Len(failures') : failures'[i] <= FailureWindow
<1>1. PICK c \in Calls : Fail(c)
  BY DEF Next, BeforeCall, AdmittedAs, FirstProbe, Succeed, Bypass, RecordSuccess, Cancel, Tick, HealthChanges,
         breaker, vars
<1>2. PICK n \in 0..Len(failures) : Expires(n) /\ failures' = Remembered(n) /\ Reaches(failures')
  BY <1>1 DEF Fail, RecordFailure, Reopen
<1>3. failures \in Seq(Age) /\ OldestFirst
  BY DEF BInv, TypeOK, Age
<1> QED BY <1>2, <1>3, RememberedIsRecent DEF Reaches

(* A CLOSED breaker opens only on failure_threshold failures of the window just past,
   for any threshold and window and any number of late reports. *)
THEOREM TripsOnlyOnRecentFailures == Spec => TripsOnRecentFailures
<1>1. BInv /\ [Next]_vars =>
        [state = "CLOSED" /\ state' = "OPEN" =>
           /\ Len(failures') >= FailureThreshold
           /\ \A i \in 1..Len(failures') : failures'[i] <= FailureWindow]_vars
  BY TripsStep, BreakerAssumption
<1> QED BY <1>1, BreakerInvariant, PTL DEF Spec, TripsOnRecentFailures
===============================================================================
