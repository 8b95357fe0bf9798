---------------------------- MODULE CircuitBreaker ----------------------------
(***************************************************************************)
(* One breaker of retrieval/circuit.py and the calls it guards             *)
(* (retrieval/service.py _branch_call).  Its asyncio.Lock is never held    *)
(* across an await, so before_call, record_success and record_failure are  *)
(* single steps; what interleaves is when calls start, end and are         *)
(* cancelled by their deadline.                                            *)
(*                                                                         *)
(* Monotonic timestamps are modelled by ages: the seconds since the        *)
(* timestamp was taken, capped where the code can no longer tell them      *)
(* apart.                                                                  *)
(***************************************************************************)
EXTENDS Integers, Sequences

CONSTANTS Calls,             \* requests that may be in the dependency at once
          FailureThreshold,  \* failure_threshold
          FailureWindow,     \* failure_window_seconds
          OpenSeconds,       \* open_seconds
          HalfOpenMaxCalls,  \* half_open_max_calls
          Bypasses,          \* whether a call may be answered without the dependency
          MaxCancels         \* bound: calls cut off by their deadline

ASSUME BreakerAssumption ==
  /\ FailureThreshold \in Nat \ {0}
  /\ FailureWindow \in Nat \ {0}
  /\ OpenSeconds \in Nat \ {0}
  /\ HalfOpenMaxCalls \in Nat \ {0}
  /\ Bypasses \in BOOLEAN
  /\ MaxCancels \in Nat

VARIABLES state,          \* _state
          failures,       \* _failures: ages, oldest first
          openedFor,      \* age of _opened_at; 0 when it is None
          halfOpenCalls,  \* _half_open_calls
          calls,          \* calls in flight: the state they were admitted in
          healthy,        \* whether the dependency answers
          cancels

breaker == <<state, failures, openedFor, halfOpenCalls>>
vars == <<state, failures, openedFor, halfOpenCalls, calls, healthy, cancels>>

States == {"CLOSED", "OPEN", "HALF_OPEN"}
NoCall == "none"

Init == /\ state = "CLOSED"
        /\ failures = <<>>
        /\ openedFor = 0
        /\ halfOpenCalls = 0
        /\ calls = [c \in Calls |-> NoCall]
        /\ healthy \in BOOLEAN
        /\ cancels = 0

InFlight(c) == calls[c] # NoCall

-----------------------------------------------------------------------------
(* before_call.  A rejected call raises CircuitOpenError and changes nothing. *)

CoolDownOver == openedFor >= OpenSeconds

(* Faulty variant: one probe too many. *)
ProbesLeftInclusive == halfOpenCalls <= HalfOpenMaxCalls

ProbesLeft == halfOpenCalls < HalfOpenMaxCalls

AdmittedAs(s, n) == state' = s /\ halfOpenCalls' = n

(* Faulty variant: the probes of an earlier HALF_OPEN period still count. *)
FirstProbeKeepsCount == ProbesLeft /\ AdmittedAs("HALF_OPEN", halfOpenCalls + 1)

(* Leaving OPEN resets the count, and the call is the first probe. *)
FirstProbe == AdmittedAs("HALF_OPEN", 1)

BeforeCall(c) ==
  /\ ~InFlight(c)
  /\ \/ state = "CLOSED" /\ AdmittedAs("CLOSED", halfOpenCalls)
     \/ state = "OPEN" /\ CoolDownOver /\ FirstProbe
     \/ state = "HALF_OPEN" /\ ProbesLeft /\ AdmittedAs("HALF_OPEN", halfOpenCalls + 1)
  /\ calls' = [calls EXCEPT ![c] = state']
  /\ UNCHANGED <<failures, openedFor, healthy, cancels>>

-----------------------------------------------------------------------------
(* How a call ends. *)

Return(c) == /\ InFlight(c)
             /\ calls' = [calls EXCEPT ![c] = NoCall]

RecordSuccess == /\ failures' = <<>>
                 /\ state' = "CLOSED"
                 /\ openedFor' = 0
                 /\ halfOpenCalls' = 0

Succeed(c) == Return(c) /\ healthy /\ RecordSuccess /\ UNCHANGED <<healthy, cancels>>

(* _get_embedding records a success, too, when the vector was cached or the
   deadline left no time to ask for it. *)
Bypass(c) == Bypasses /\ Return(c) /\ RecordSuccess /\ UNCHANGED <<healthy, cancels>>

(* Faulty variant: failures are never dropped. *)
ExpiresNever(n) == n = 0

(* The popleft loop drops the first n failures: those older than the window. *)
Expires(n) == /\ \A i \in 1..n : failures[i] > FailureWindow
              /\ n < Len(failures) => failures[n + 1] <= FailureWindow

Kept(n) == SubSeq(failures, n + 1, Len(failures))

Remembered(n) == Append(Kept(n), 0)

(* Faulty variant: the threshold must be exceeded. *)
ReachesAbove(recent) == Len(recent) > FailureThreshold

Reaches(recent) == Len(recent) >= FailureThreshold

Reopen == state' = "OPEN" /\ openedFor' = 0

RecordFailure ==
  \E n \in 0..Len(failures) :
    /\ Expires(n)
    /\ \/ state = "HALF_OPEN" /\ failures' = Kept(n) /\ Reopen
       \/ /\ state # "HALF_OPEN" /\ failures' = Remembered(n)
          /\ IF Reaches(failures') THEN Reopen ELSE UNCHANGED <<state, openedFor>>
    /\ UNCHANGED halfOpenCalls

Fail(c) == Return(c) /\ ~healthy /\ RecordFailure /\ UNCHANGED <<healthy, cancels>>

(* retrieve_resilient cancels the branches that outlive the deadline; the
   CancelledError passes through _branch_call and nothing is recorded. *)
Cancel(c) == /\ cancels < MaxCancels /\ Return(c)
             /\ cancels' = cancels + 1
             /\ UNCHANGED <<breaker, healthy>>

-----------------------------------------------------------------------------
(* The environment. *)

CappedAt(n, bound) == IF n > bound THEN bound ELSE n

(* A second passes. *)
Tick == /\ failures' = [i \in DOMAIN failures |-> CappedAt(failures[i] + 1, FailureWindow + 1)]
        /\ openedFor' = IF state = "CLOSED" THEN openedFor ELSE CappedAt(openedFor + 1, OpenSeconds)
        /\ UNCHANGED <<state, halfOpenCalls, calls, healthy, cancels>>

(* The dependency breaks down or is repaired. *)
HealthChanges == healthy' = ~healthy /\ UNCHANGED <<breaker, calls, cancels>>

Next == \/ \E c \in Calls : BeforeCall(c) \/ Succeed(c) \/ Bypass(c) \/ Fail(c) \/ Cancel(c)
        \/ Tick
        \/ HealthChanges

Spec == Init /\ [][Next]_vars

(* Time passes, requests keep coming, and an HTTP call ends by itself. *)
Fairness == /\ WF_vars(Tick)
            /\ \A c \in Calls : /\ WF_vars(BeforeCall(c))
                                /\ WF_vars(Succeed(c) \/ Fail(c))

FairSpec == Spec /\ Fairness

-----------------------------------------------------------------------------
(* Properties *)

(* The breaker's fields, the ages and the calls in flight stay in their domains. *)
TypeOK == /\ state \in States
          /\ failures \in Seq(0..(FailureWindow + 1))
          /\ openedFor \in 0..OpenSeconds
          /\ halfOpenCalls \in 0..HalfOpenMaxCalls
          /\ calls \in [Calls -> States \cup {NoCall}]
          /\ healthy \in BOOLEAN
          /\ cancels \in 0..MaxCancels

(* While the breaker is CLOSED the remembered failures are fewer than the
   threshold, whatever calls admitted in an earlier state report late. *)
ClosedBelowThreshold == state = "CLOSED" => Len(failures) < FailureThreshold

(* A CLOSED breaker opens only on failure_threshold failures within the window. *)
TripsOnRecentFailures ==
  [][state = "CLOSED" /\ state' = "OPEN" =>
       /\ Len(failures') >= FailureThreshold
       /\ \A i \in 1..Len(failures') : failures'[i] <= FailureWindow]_vars

(* When the dependency is repaired for good and fewer than half_open_max_calls
   calls are cut off by their deadline, the breaker ends up CLOSED for good:
   it neither stays open nor runs out of probes. *)
Recovers == <>[]healthy => <>[](state = "CLOSED")
===============================================================================
