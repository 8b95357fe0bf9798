----------------------------- MODULE SearchProofs -----------------------------
(***************************************************************************)
(* Proofs about module Search, for every number of concurrent requests and *)
(* of failures.                                                            *)
(***************************************************************************)
EXTENDS Search, TLAPS

-----------------------------------------------------------------------------
(* The type. *)

LEMMA IdleType == Idle \in Request
BY SearchAssumption DEF Idle, Request, PCs, Statuses, Reasons, Payload

LEMMA AnsweredType ==
  ASSUME TypeOK, NEW r \in Requests, NEW trace \in Statuses, NEW status \in Statuses
  PROVE  Answered(r, trace, status) \in Request
BY DEF Answered, TypeOK, Request, PCs

LEMMA OutcomeType ==
  ASSUME NEW r PROVE Outcome(r) \in Statuses
BY DEF Outcome, Statuses

LEMMA StepType ==
  ASSUME TypeOK, NEW r \in Requests, NEW pc, NEW new \in Request, Step(r, pc, new)
  PROVE  req' \in [Requests -> Request]
BY DEF Step, TypeOK

(* A field-by-field change of a request stays a request. *)
LEMMA FieldTypes ==
  ASSUME TypeOK, NEW r \in Requests
  PROVE  /\ \A pc \in PCs : [req[r] EXCEPT !.pc = pc] \in Request
         /\ \A pc \in PCs : [req[r] EXCEPT !.pc = pc, !.token = TRUE] \in Request
         /\ \A pc \in PCs, p \in Payload \cup {NoEntry} :
              [req[r] EXCEPT !.pc = pc, !.payload = p] \in Request
         /\ \A pc \in PCs, s \in SUBSET Reasons : [req[r] EXCEPT !.pc = pc, !.reasons = s] \in Request
         /\ \A pc \in PCs, s \in SUBSET Reasons :
              [req[r] EXCEPT !.pc = pc, !.vector = TRUE, !.reasons = s] \in Request
         /\ [req[r] EXCEPT !.expired = TRUE] \in Request
         /\ req[r] \in Request
BY DEF TypeOK, Request

LEMMA WithType ==
  ASSUME TypeOK, NEW r \in Requests
  PROVE  With(r, "CACHE_UNAVAILABLE") \in SUBSET Reasons
BY DEF TypeOK, Request, With, Reasons

LEMMA FaultsType ==
  ASSUME TypeOK, RedisFails \/ RedisAnswers
  PROVE  faults' \in 0..MaxFaults
BY SearchAssumption DEF TypeOK, RedisFails, RedisAnswers

LEMMA CacheStepsType ==
  ASSUME TypeOK, NEW r \in Requests,
         Lookup(r) \/ Acquire(r) \/ Poll(r) \/ GiveUp(r) \/ Store(r) \/ Release(r) \/ Delete(r)
  PROVE  TypeOK'
<1>1. {"hit", "acquire", "embed", "wait", "waited", "answer", "delete"} \subseteq PCs
  BY DEF PCs
<1>2. entry \in Payload \cup {NoEntry} /\ req[r].payload \in Payload \cup {NoEntry}
  BY DEF TypeOK, Request
<1>3. CASE Lookup(r)
  <2>1. req' \in [Requests -> Request]
    BY <1>1, <1>2, <1>3, FieldTypes, WithType, StepType DEF Lookup
  <2> QED BY <1>3, <2>1, FaultsType DEF Lookup, TypeOK
<1>4. CASE Acquire(r)
  <2>1. req' \in [Requests -> Request]
    BY <1>1, <1>4, FieldTypes, WithType, StepType DEF Acquire
  <2> QED BY <1>4, <2>1, FaultsType DEF Acquire, TypeOK
<1>5. CASE Poll(r)
  <2>1. req' \in [Requests -> Request]
    BY <1>1, <1>2, <1>5, FieldTypes, WithType, StepType DEF Poll
  <2> QED BY <1>5, <2>1, FaultsType DEF Poll, TypeOK
<1>6. CASE GiveUp(r)
  <2>1. req' \in [Requests -> Request]
    BY <1>1, <1>6, FieldTypes, StepType DEF GiveUp
  <2> QED BY <1>6, <2>1 DEF GiveUp, TypeOK
<1>7. CASE Store(r)
  <2>1. req' \in [Requests -> Request]
    BY <1>1, <1>7, FieldTypes, WithType, StepType DEF Store
  <2>2. entry' \in Payload \cup {NoEntry}
    BY <1>2, <1>7 DEF Store
  <2> QED BY <1>7, <2>1, <2>2, FaultsType DEF Store, TypeOK
<1>8. CASE Release(r)
  <2>1. req' \in [Requests -> Request]
    BY <1>1, <1>8, FieldTypes, IdleType, StepType DEF Release
  <2> QED BY <1>8, <2>1, FaultsType DEF Release, TypeOK
<1>9. CASE Delete(r)
  <2>1. req' \in [Requests -> Request]
    BY <1>9, IdleType, StepType DEF Delete
  <2> QED BY <1>9, <2>1, FaultsType DEF Delete, TypeOK
<1> QED BY <1>3, <1>4, <1>5, <1>6, <1>7, <1>8, <1>9

LEMMA WorkStepsType ==
  ASSUME TypeOK, NEW r \in Requests,
         \/ AnswerHit(r) \/ AnswerWaited(r) \/ GetEmbedding(r)
         \/ \E channels \in SUBSET Channels : Retrieve(r, channels)
         \/ Answer(r) \/ AnswerUnavailable(r)
  PROVE  TypeOK'
<1>1. {"retrieve", "unavailable", "store"} \subseteq PCs /\ "completed" \in Statuses
      /\ "failed" \in Statuses /\ "none" \in Statuses /\ "error" \in Statuses
  BY DEF PCs, Statuses
<1>2. CASE AnswerHit(r)
  BY <1>2, AnsweredType, OutcomeType, StepType DEF AnswerHit, TypeOK
<1>3. CASE AnswerWaited(r)
  BY <1>1, <1>3, AnsweredType, OutcomeType, StepType DEF AnswerWaited, TypeOK
<1>4. CASE GetEmbedding(r)
  <2>1. PICK noted \in {{}, {"CACHE_UNAVAILABLE"}} :
          /\ IF noted = {} THEN RedisAnswers ELSE req[r].cached /\ RedisFails
          /\ Embed(r, noted) \/ EmbedFails(r, noted) \/ EmbedSkipped(r, noted)
    BY <1>4 DEF GetEmbedding
  <2>2. /\ req[r].reasons \cup noted \in SUBSET Reasons
        /\ req[r].reasons \cup noted \cup {"EMBEDDING"} \in SUBSET Reasons
    BY DEF TypeOK, Request, Reasons
  <2>3. req' \in [Requests -> Request]
    <3>1. CASE Embed(r, noted)
      BY <1>1, <2>2, <3>1, FieldTypes, StepType DEF Embed
    <3>2. CASE EmbedFails(r, noted)
      BY <1>1, <2>2, <3>2, FieldTypes, StepType DEF EmbedFails
    <3>3. CASE EmbedSkipped(r, noted)
      BY <1>1, <2>2, <3>3, FieldTypes, AnsweredType, StepType DEF EmbedSkipped
    <3> QED BY <2>1, <3>1, <3>2, <3>3
  <2> QED BY <1>4, <2>1, <2>3, FaultsType DEF GetEmbedding, TypeOK
<1>5. ASSUME NEW channels \in SUBSET Channels, Retrieve(r, channels) PROVE TypeOK'
  <2> DEFINE found == [req[r] EXCEPT !.pc = "store", !.reasons = @ \cup Missing(channels), !.fresh = TRUE,
                                     !.payload = [channels |-> channels]]
  <2>1. [channels |-> channels] \in Payload
    BY DEF Payload, TypeOK
  <2>2. req[r].reasons \cup Missing(channels) \in SUBSET Reasons
    BY DEF TypeOK, Request, Reasons, Missing
  <2>3. found \in Request
    BY <1>1, <2>1, <2>2 DEF TypeOK, Request
  <2>4. req' \in [Requests -> Request]
    BY <1>1, <1>5, <2>3, FieldTypes, StepType DEF Retrieve
  <2> QED BY <1>5, <2>4 DEF Retrieve, TypeOK
<1>6. CASE Answer(r)
  BY <1>6, AnsweredType, OutcomeType, StepType DEF Answer, TypeOK
<1>7. CASE AnswerUnavailable(r)
  BY <1>1, <1>7, AnsweredType, StepType DEF AnswerUnavailable, TypeOK
<1> QED BY <1>2, <1>3, <1>4, <1>5, <1>6, <1>7

LEMMA NextType == ASSUME TypeOK, [Next]_vars PROVE TypeOK'
<1>1. ASSUME NEW r \in Requests, NEW enabled \in BOOLEAN, Begin(r, enabled) PROVE TypeOK'
  <2>1. [Idle EXCEPT !.pc = IF enabled THEN "lookup" ELSE "embed", !.cached = enabled] \in Request
    BY IdleType DEF Request, PCs, TypeOK
  <2> QED BY <1>1, <2>1, StepType DEF Begin, TypeOK
<1>2. ASSUME NEW r \in Requests, Advance(r) PROVE TypeOK'
  BY <1>2, CacheStepsType, WorkStepsType DEF Advance
<1>3. ASSUME NEW r \in Requests, DeadlineExpires(r) PROVE TypeOK'
  <2>1. req' = [req EXCEPT ![r] = [req[r] EXCEPT !.expired = TRUE]]
    BY <1>3 DEF DeadlineExpires
  <2> QED BY <1>3, <2>1, FieldTypes DEF DeadlineExpires, TypeOK
<1>4. ASSUME NEW r \in Requests, Die(r) PROVE TypeOK'
  BY <1>4, IdleType, SearchAssumption DEF Die, TypeOK
<1>5. CASE EntryExpires \/ LockExpires
  BY <1>5 DEF EntryExpires, LockExpires, TypeOK
<1>6. CASE UNCHANGED vars
  BY <1>6 DEF vars, TypeOK
<1> QED BY <1>1, <1>2, <1>3, <1>4, <1>5, <1>6 DEF Next

(* Entry, lock and requests stay in their domains. *)
THEOREM SearchTypeCorrect == Spec => []TypeOK
<1>1. Init => TypeOK
  BY IdleType, SearchAssumption DEF Init, TypeOK
<1> QED BY <1>1, NextType, PTL DEF Spec
-----------------------------------------------------------------------------
(* The lock.  Who has a token is past Acquire and not yet done, who is about to
   delete has one, and the lock and the tokens name each other. *)

Rebuilding == {"embed", "retrieve", "store", "answer", "unavailable", "finally", "delete"}

LInv == /\ \A r \in Requests : req[r].token => req[r].pc \in Rebuilding
        /\ \A r \in Requests : req[r].pc = "delete" => req[r].token
        /\ ~LockLapses => \A r \in Requests : req[r].token => lock = r
        /\ lock # Free /\ faults = 0 => req[lock].token

(* A step that hands on the token, or the lack of it, and leaves the lock alone. *)
LEMMA KeepsToken ==
  ASSUME TypeOK, LInv, NEW r \in Requests, NEW new \in Request,
         req' = [req EXCEPT ![r] = new], UNCHANGED lock, RedisAnswers \/ RedisFails,
         new.token = req[r].token, new.token => new.pc \in Rebuilding, new.pc # "delete"
  PROVE  LInv'
<1>1. \A q \in Requests : req'[q] = IF q = r THEN new ELSE req[q]
  BY DEF TypeOK
<1>2. faults' = 0 => faults = 0
  BY SearchAssumption DEF TypeOK, RedisAnswers, RedisFails
<1>3. lock \in Requests \cup {Free}
  BY DEF TypeOK
<1> QED BY <1>1, <1>2, <1>3 DEF LInv

(* A request without a token that has not come by one. *)
LEMMA CacheStepsLInv ==
  ASSUME TypeOK, LInv, NEW r \in Requests, Lookup(r) \/ Poll(r) \/ GiveUp(r)
  PROVE  LInv'
<1>1. req'[r] \in Request /\ req' = [req EXCEPT ![r] = req'[r]]
  <2>1. TypeOK'
    BY CacheStepsType
  <2> QED BY <2>1 DEF TypeOK, Lookup, Poll, GiveUp, Step
<1>2. ~req[r].token
  BY DEF LInv, Rebuilding, Lookup, Poll, GiveUp, Step
<1>3. req'[r].token = req[r].token /\ req'[r].pc # "delete"
  <2>1. CASE Lookup(r)
    BY <2>1 DEF TypeOK, Request, Step, Lookup
  <2>2. CASE Poll(r)
    BY <2>2 DEF TypeOK, Request, Step, Poll
  <2>3. CASE GiveUp(r)
    BY <2>3 DEF TypeOK, Request, Step, GiveUp
  <2> QED BY <2>1, <2>2, <2>3
<1>4. UNCHANGED lock /\ (RedisAnswers \/ RedisFails)
  BY DEF Lookup, Poll, GiveUp, RedisAnswers
<1> QED BY <1>1, <1>2, <1>3, <1>4, KeepsToken

LEMMA AnswerKeepsToken ==
  ASSUME TypeOK, NEW r \in Requests, NEW trace, NEW status
  PROVE  /\ Answered(r, trace, status).token = req[r].token
         /\ Answered(r, trace, status).pc = "finally"
BY DEF TypeOK, Request, Answered

LEMMA WorkStepsLInv ==
  ASSUME TypeOK, LInv, NEW r \in Requests,
         \/ AnswerHit(r) \/ AnswerWaited(r) \/ GetEmbedding(r)
         \/ \E channels \in SUBSET Channels : Retrieve(r, channels)
         \/ Store(r) \/ Answer(r) \/ AnswerUnavailable(r)
  PROVE  LInv'
<1>1. req'[r] \in Request /\ req' = [req EXCEPT ![r] = req'[r]]
  <2>1. TypeOK'
    BY CacheStepsType, WorkStepsType
  <2>2. \E new : req' = [req EXCEPT ![r] = new]
    BY DEF AnswerHit, AnswerWaited, GetEmbedding, Embed, EmbedFails, EmbedSkipped, Retrieve, Store,
           Answer, AnswerUnavailable, Step
  <2> QED BY <2>1, <2>2 DEF TypeOK
<1>2. req'[r].token = req[r].token /\ req'[r].pc \in Rebuilding \ {"delete"}
  <2>1. CASE AnswerHit(r) \/ AnswerWaited(r) \/ Answer(r) \/ AnswerUnavailable(r)
    BY <2>1, AnswerKeepsToken DEF TypeOK, AnswerHit, AnswerWaited, Answer, AnswerUnavailable, Step,
       Rebuilding
  <2>2. CASE GetEmbedding(r)
    <3>1. PICK noted \in {{}, {"CACHE_UNAVAILABLE"}} :
            Embed(r, noted) \/ EmbedFails(r, noted) \/ EmbedSkipped(r, noted)
      BY <2>2 DEF GetEmbedding
    <3>2. CASE Embed(r, noted) \/ EmbedFails(r, noted)
      <4>1. CASE Embed(r, noted)
        BY <4>1 DEF TypeOK, Request, Embed, Step, Rebuilding
      <4>2. CASE EmbedFails(r, noted)
        BY <4>2 DEF TypeOK, Request, EmbedFails, Step, Rebuilding
      <4> QED BY <3>2, <4>1, <4>2
    <3>3. CASE EmbedSkipped(r, noted)
      <4>1. CASE req'[r] = Answered(r, "none", "error")
        BY <4>1, AnswerKeepsToken DEF Rebuilding
      <4>2. CASE req'[r] = [req[r] EXCEPT !.pc = "retrieve", !.reasons = req[r].reasons \cup noted]
        BY <4>2 DEF TypeOK, Request, Rebuilding
      <4> QED BY <3>3, <4>1, <4>2 DEF EmbedSkipped, Step, TypeOK
    <3> QED BY <3>1, <3>2, <3>3
  <2>3. ASSUME NEW channels \in SUBSET Channels, Retrieve(r, channels)
        PROVE  req'[r].token = req[r].token /\ req'[r].pc \in Rebuilding \ {"delete"}
    <3>1. CASE Acceptable(channels)
      BY <2>3, <3>1 DEF TypeOK, Request, Retrieve, Step, Rebuilding
    <3>2. CASE ~Acceptable(channels)
      BY <2>3, <3>2 DEF TypeOK, Request, Retrieve, Step, Rebuilding
    <3> QED BY <3>1, <3>2
  <2>4. CASE Store(r)
    <3>1. \/ req'[r] = [req[r] EXCEPT !.pc = "answer"]
          \/ req'[r] = [req[r] EXCEPT !.pc = "answer", !.reasons = With(r, "CACHE_UNAVAILABLE")]
      BY <2>4 DEF TypeOK, Store, Step
    <3> QED BY <3>1 DEF TypeOK, Request, Rebuilding
  <2> QED BY <2>1, <2>2, <2>3, <2>4
<1>3. UNCHANGED lock /\ (RedisAnswers \/ RedisFails)
  BY DEF AnswerHit, AnswerWaited, GetEmbedding, Retrieve, Store, Answer, AnswerUnavailable, RedisAnswers
<1> QED BY <1>1, <1>2, <1>3, KeepsToken

LEMMA LockStepsLInv ==
  ASSUME TypeOK, LInv, NEW r \in Requests, Acquire(r) \/ Release(r) \/ Delete(r) \/ Die(r)
  PROVE  LInv'
<1> USE DEF Step
<1>1. faults \in Nat /\ lock \in Requests \cup {Free} /\ Free \notin Requests
  BY SearchAssumption DEF TypeOK
<1>2. RedisFails => faults' # 0
  BY <1>1 DEF RedisFails
<1>3. Idle.token = FALSE /\ Idle.pc = "idle"
  BY DEF Idle
<1>4. CASE Acquire(r)
  <2>1. req[r].pc = "acquire" /\ ~req[r].token
    BY <1>4 DEF Acquire, LInv, Rebuilding
  <2>2. CASE RedisAnswers /\ lock = Free /\ lock' = r
             /\ req' = [req EXCEPT ![r] = [req[r] EXCEPT !.pc = "embed", !.token = TRUE]]
    BY <1>1, <2>2 DEF TypeOK, Request, LInv, Rebuilding, RedisAnswers
  <2>3. CASE UNCHANGED lock /\ RedisAnswers
             /\ req' = [req EXCEPT ![r] = [req[r] EXCEPT !.pc = "wait"]]
    BY <1>1, <2>1, <2>3 DEF TypeOK, Request, LInv, Rebuilding, RedisAnswers
  <2>4. CASE RedisFails /\ lock' \in {lock, IF lock = Free THEN r ELSE lock}
             /\ req' = [req EXCEPT ![r] = [req[r] EXCEPT !.pc = "embed",
                                                        !.reasons = With(r, "CACHE_UNAVAILABLE")]]
    <3>1. \A q \in Requests : req'[q].token = req[q].token
      BY <2>4 DEF TypeOK, Request
    <3>2. \A q \in Requests : req'[q].pc = IF q = r THEN "embed" ELSE req[q].pc
      BY <2>4 DEF TypeOK, Request
    <3>3. \A q \in Requests : req[q].token /\ ~LockLapses => lock' = q
      BY <1>1, <2>4 DEF LInv
    <3> QED BY <1>2, <2>1, <2>4, <3>1, <3>2, <3>3 DEF LInv, Rebuilding
  <2> QED BY <1>4, <2>2, <2>3, <2>4 DEF Acquire
<1>5. CASE Release(r)
  <2>1. CASE req[r].token /\ lock = r /\ RedisAnswers
             /\ req' = [req EXCEPT ![r] = [req[r] EXCEPT !.pc = "delete"]]
    BY <1>1, <1>5, <2>1 DEF Release, TypeOK, Request, LInv, Rebuilding, RedisAnswers
  <2>2. CASE (RedisFails \/ lock # r \/ ~req[r].token) /\ (RedisFails \/ RedisAnswers)
             /\ req' = [req EXCEPT ![r] = Idle]
    BY <1>1, <1>2, <1>3, <1>5, <2>2 DEF Release, TypeOK, LInv, Rebuilding, RedisAnswers
  <2> QED BY <1>5, <2>1, <2>2 DEF Release
<1>6. CASE Delete(r)
  <2>1. req[r].token /\ req' = [req EXCEPT ![r] = Idle]
    BY <1>6 DEF Delete, LInv
  <2>2. ~LockLapses => \A q \in Requests \ {r} : ~req[q].token
    BY <2>1 DEF LInv
  <2>3. lock' = Free \/ (lock' = lock /\ faults' # 0)
    BY <1>2, <1>6 DEF Delete
  <2> QED BY <1>1, <1>3, <2>1, <2>2, <2>3 DEF TypeOK, LInv, Rebuilding
<1>7. CASE Die(r)
  BY <1>1, <1>3, <1>7 DEF Die, TypeOK, LInv, Rebuilding
<1> QED BY <1>4, <1>5, <1>6, <1>7

LEMMA NextLInv == ASSUME TypeOK, LInv, [Next]_vars PROVE LInv'
<1>1. ASSUME NEW r \in Requests, NEW enabled \in BOOLEAN, Begin(r, enabled) PROVE LInv'
  <2> DEFINE new == [Idle EXCEPT !.pc = IF enabled THEN "lookup" ELSE "embed", !.cached = enabled]
  <2>1. new \in Request
    BY IdleType DEF Request, PCs, TypeOK
  <2>2. req' = [req EXCEPT ![r] = new] /\ UNCHANGED lock /\ RedisAnswers /\ req[r].pc = "idle"
    BY <1>1 DEF Begin, Step, RedisAnswers
  <2>3. ~req[r].token
    BY <2>2 DEF LInv, Rebuilding
  <2>4. new.token = req[r].token /\ new.pc # "delete"
    BY <2>3, IdleType DEF Idle, TypeOK, Request
  <2> HIDE DEF new
  <2> QED BY <2>1, <2>2, <2>3, <2>4, KeepsToken
<1>2. ASSUME NEW r \in Requests, Advance(r) PROVE LInv'
  BY <1>2, CacheStepsLInv, WorkStepsLInv, LockStepsLInv DEF Advance
<1>3. ASSUME NEW r \in Requests, DeadlineExpires(r) PROVE LInv'
  <2>1. req' = [req EXCEPT ![r] = [req[r] EXCEPT !.expired = TRUE]] /\ UNCHANGED <<lock, faults>>
    BY <1>3 DEF DeadlineExpires
  <2>2. \A q \in Requests : req'[q].token = req[q].token /\ req'[q].pc = req[q].pc
    BY <2>1 DEF TypeOK, Request
  <2> QED BY <2>1, <2>2 DEF LInv, TypeOK
<1>4. ASSUME NEW r \in Requests, Die(r) PROVE LInv'
  BY <1>4, LockStepsLInv
<1>5. CASE LockExpires
  BY <1>5, SearchAssumption DEF LockExpires, LInv, TypeOK
<1>6. CASE EntryExpires \/ UNCHANGED vars
  BY <1>6 DEF EntryExpires, vars, LInv
<1> QED BY <1>1, <1>2, <1>3, <1>4, <1>5, <1>6 DEF Next

LEMMA LockInvariant == Spec => [](TypeOK /\ LInv)
<1>1. Init => TypeOK /\ LInv
  BY IdleType, SearchAssumption DEF Init, TypeOK, LInv, Idle, Rebuilding
<1> QED BY <1>1, NextType, NextLInv, PTL DEF Spec

(* While no Redis call fails, the lock belongs to a running request that holds its
   token: no way a request ends leaves the lock behind. *)
THEOREM LockAlwaysOwned == Spec => []LockHasOwner
<1>1. TypeOK /\ LInv => LockHasOwner
  BY SearchAssumption DEF TypeOK, LInv, LockHasOwner, Running, Rebuilding
<1> QED BY <1>1, LockInvariant, PTL

(* If no owner outlives the TTL of its lock, at most one request rebuilds the entry
   under the lock, whatever fails. *)
THEOREM AtMostOneOwner == Spec => []OneOwner
<1>1. LInv => OneOwner
  BY DEF LInv, OneOwner
<1> QED BY <1>1, LockInvariant, PTL

-----------------------------------------------------------------------------
(* The results.  What a request has in hand at each step, and what it was answered:
   a status is only given at the end, a payload of one channel never comes without
   a reason, and a request that retrieved does not come back to waiting. *)

Ended == {"finally", "delete"}

Backed(q) ==
  /\ q.payload # NoEntry => q.payload.channels # {}
  /\ q.pc \in {"hit", "waited", "store", "answer"} => q.payload # NoEntry
  /\ q.status \in {"completed", "degraded"} => q.payload # NoEntry

Whole(q) ==
  /\ q.fresh => q.pc \in Ended \cup {"store", "answer"} /\ q.payload # NoEntry
  /\ q.fresh /\ q.reasons = {} => q.payload.channels = Channels
  /\ q.fresh /\ q.status = "completed" => q.reasons = {}

Matched(q) ==
  /\ q.pc \notin Ended => q.status = "none"
  /\ q.status # "none" => [status |-> q.status, trace |-> q.trace] \in Outcomes

RequestInv(q) == Backed(q) /\ Whole(q) /\ Matched(q)

RInv == /\ entry # NoEntry => entry.channels # {}
        /\ \A r \in Requests : RequestInv(req[r])

LEMMA IdleInv == RequestInv(Idle)
BY DEF Idle, RequestInv, Backed, Whole, Matched, Ended

(* A step of one request, after which that request and the entry are as they should be. *)
LEMMA OneStepRInv ==
  ASSUME TypeOK, RInv, NEW r \in Requests, NEW new, req' = [req EXCEPT ![r] = new],
         RequestInv(new), entry' \in {entry, NoEntry, req[r].payload}
  PROVE  RInv'
<1>1. \A q \in Requests : req'[q] = IF q = r THEN new ELSE req[q]
  BY DEF TypeOK
<1>2. \A q \in Requests : RequestInv(req'[q])
  BY <1>1 DEF RInv
<1>3. req[r].payload # NoEntry => req[r].payload.channels # {}
  BY DEF RInv, RequestInv, Backed
<1> QED BY <1>2, <1>3 DEF RInv

(* The steps before the answer that leave the payload and the freshness alone. *)
LEMMA MovesOn ==
  ASSUME TypeOK, NEW r \in Requests, RequestInv(req[r]), req[r].pc \notin Ended,
         NEW pc \in {"acquire", "embed", "wait", "retrieve", "unavailable", "answer"},
         pc = "answer" => req[r].pc = "store", pc # "answer" => ~req[r].fresh,
         NEW reasons \in SUBSET Reasons, req[r].reasons \subseteq reasons,
         NEW new \in Request, new.pc = pc, new.reasons = reasons, new.payload = req[r].payload,
         new.fresh = req[r].fresh, new.status = req[r].status, new.trace = req[r].trace
  PROVE  RequestInv(new)
<1>1. Backed(new)
  BY DEF RequestInv, Backed, Ended, Matched
<1>2. Whole(new)
  BY DEF RequestInv, Whole, Ended, Matched
<1>3. Matched(new)
  BY DEF RequestInv, Matched, Ended
<1> QED BY <1>1, <1>2, <1>3 DEF RequestInv

(* An answer given to what a request has in hand. *)
LEMMA AnsweredInv ==
  ASSUME TypeOK, NEW r \in Requests, RequestInv(req[r]), NEW trace \in Statuses, NEW status \in Statuses,
         [status |-> status, trace |-> trace] \in Outcomes,
         status \in {"completed", "degraded"} => req[r].payload # NoEntry,
         req[r].fresh /\ status = "completed" => req[r].reasons = {}
  PROVE  RequestInv(Answered(r, trace, status))
<1> DEFINE new == Answered(r, trace, status)
<1>1. /\ new.pc = "finally" /\ new.trace = trace /\ new.status = status
      /\ new.payload = req[r].payload /\ new.fresh = req[r].fresh /\ new.reasons = req[r].reasons
  BY DEF TypeOK, Request, Answered
<1> HIDE DEF new
<1>2. Backed(new)
  BY <1>1 DEF RequestInv, Backed
<1>3. Whole(new)
  BY <1>1 DEF RequestInv, Whole, Ended
<1>4. Matched(new)
  BY <1>1 DEF Matched, Ended
<1> QED BY <1>2, <1>3, <1>4 DEF RequestInv, new

LEMMA CacheStepsRInv ==
  ASSUME TypeOK, RInv, NEW r \in Requests, Lookup(r) \/ Acquire(r) \/ Poll(r) \/ GiveUp(r)
  PROVE  RInv'
<1> DEFINE old == req[r]
<1>1. RequestInv(old) /\ old \in Request /\ old.reasons \subseteq Reasons
      /\ old.reasons \subseteq With(r, "CACHE_UNAVAILABLE") /\ With(r, "CACHE_UNAVAILABLE") \subseteq Reasons
  BY DEF RInv, TypeOK, Request, With, Reasons
<1>2. old.pc \in {"lookup", "acquire", "wait"} /\ old.pc \notin Ended /\ ~old.fresh
  BY <1>1 DEF Lookup, Acquire, Poll, GiveUp, Step, RequestInv, Whole, Ended
<1>3. PICK new : req' = [req EXCEPT ![r] = new]
  BY DEF Lookup, Acquire, Poll, GiveUp, Step
<1>4. new \in Request /\ new = req'[r]
  <2>1. TypeOK'
    BY CacheStepsType
  <2> QED BY <1>3, <2>1 DEF TypeOK
<1>5. UNCHANGED entry
  BY DEF Lookup, Acquire, Poll, GiveUp
<1>6. \/ entry # NoEntry /\ \E pc \in {"hit", "waited"} : new = [old EXCEPT !.pc = pc, !.payload = entry]
      \/ \E pc \in {"acquire", "embed", "wait"} :
           \/ new = [old EXCEPT !.pc = pc]
           \/ new = [old EXCEPT !.pc = pc, !.token = TRUE]
           \/ new = [old EXCEPT !.pc = pc, !.reasons = With(r, "CACHE_UNAVAILABLE")]
  <2>1. CASE Lookup(r)
    BY <1>4, <2>1 DEF Lookup, Step, TypeOK
  <2>2. CASE Acquire(r)
    BY <1>4, <2>2 DEF Acquire, Step, TypeOK
  <2>3. CASE Poll(r)
    BY <1>4, <2>3 DEF Poll, Step, TypeOK
  <2>4. CASE GiveUp(r)
    BY <1>4, <2>4 DEF GiveUp, Step, TypeOK
  <2> QED BY <2>1, <2>2, <2>3, <2>4
<1>7. RequestInv(new)
  <2>1. ASSUME NEW pc \in {"hit", "waited"}, entry # NoEntry, new = [old EXCEPT !.pc = pc, !.payload = entry]
        PROVE  RequestInv(new)
    <3>1. /\ new.pc = pc /\ new.payload = entry /\ new.fresh = old.fresh /\ new.status = old.status
      BY <1>1, <2>1 DEF Request
    <3>2. old.status = "none" /\ entry.channels # {}
      BY <1>1, <1>2, <2>1 DEF RInv, RequestInv, Matched
    <3> QED BY <1>2, <2>1, <3>1, <3>2 DEF RequestInv, Backed, Whole, Matched
  <2>2. ASSUME NEW pc \in {"acquire", "embed", "wait"},
               \/ new = [old EXCEPT !.pc = pc]
               \/ new = [old EXCEPT !.pc = pc, !.token = TRUE]
               \/ new = [old EXCEPT !.pc = pc, !.reasons = With(r, "CACHE_UNAVAILABLE")]
        PROVE  RequestInv(new)
    <3>1. /\ new.pc = pc /\ new.payload = old.payload /\ new.fresh = old.fresh
          /\ new.status = old.status /\ new.trace = old.trace
          /\ new.reasons \in {old.reasons, With(r, "CACHE_UNAVAILABLE")}
      BY <1>1, <2>2 DEF Request
    <3> QED BY <1>1, <1>2, <1>4, <3>1, MovesOn
  <2> QED BY <1>6, <2>1, <2>2
<1> QED BY <1>3, <1>5, <1>7, OneStepRInv

LEMMA AnswerStepsRInv ==
  ASSUME TypeOK, RInv, NEW r \in Requests,
         AnswerHit(r) \/ AnswerWaited(r) \/ Answer(r) \/ AnswerUnavailable(r)
  PROVE  RInv'
<1>1. RequestInv(req[r])
  BY DEF RInv
<1>2. Outcome(r) \in {"completed", "degraded"} /\ (Outcome(r) = "completed" => req[r].reasons = {})
  BY DEF Outcome
<1>3. {"completed", "degraded", "failed"} \subseteq Statuses
  BY DEF Statuses
<1>4. \A s \in {"completed", "degraded"} :
        /\ [status |-> s, trace |-> s] \in Outcomes
        /\ [status |-> "completed", trace |-> s] \in Outcomes
  BY DEF Outcomes
<1>5. [status |-> "failed", trace |-> "failed"] \in Outcomes
  BY DEF Outcomes
<1>6. UNCHANGED entry
  BY DEF AnswerHit, AnswerWaited, Answer, AnswerUnavailable
<1>7. CASE AnswerHit(r) \/ Answer(r)
  <2>1. req[r].payload # NoEntry /\ req' = [req EXCEPT ![r] = Answered(r, Outcome(r), Outcome(r))]
    BY <1>1, <1>7 DEF AnswerHit, Answer, Step, RequestInv, Backed
  <2>2. RequestInv(Answered(r, Outcome(r), Outcome(r)))
    BY <1>1, <1>2, <1>3, <1>4, <2>1, AnsweredInv
  <2> QED BY <1>6, <2>1, <2>2, OneStepRInv
<1>8. CASE AnswerWaited(r)
  <2>1. /\ req[r].payload # NoEntry /\ ~req[r].fresh
        /\ req' = [req EXCEPT ![r] = Answered(r, Outcome(r), "completed")]
    BY <1>1, <1>8 DEF AnswerWaited, Step, RequestInv, Backed, Whole, Ended
  <2>2. RequestInv(Answered(r, Outcome(r), "completed"))
    BY <1>1, <1>2, <1>3, <1>4, <2>1, AnsweredInv
  <2> QED BY <1>6, <2>1, <2>2, OneStepRInv
<1>9. CASE AnswerUnavailable(r)
  <2>1. req' = [req EXCEPT ![r] = Answered(r, "failed", "failed")]
    BY <1>9 DEF AnswerUnavailable, Step
  <2>2. RequestInv(Answered(r, "failed", "failed"))
    BY <1>1, <1>3, <1>5, AnsweredInv
  <2> QED BY <1>6, <2>1, <2>2, OneStepRInv
<1> QED BY <1>7, <1>8, <1>9

LEMMA EmbeddingRInv ==
  ASSUME TypeOK, RInv, NEW r \in Requests, GetEmbedding(r)
  PROVE  RInv'
<1> DEFINE old == req[r]
<1>1. RequestInv(old) /\ old \in Request /\ old.reasons \subseteq Reasons /\ UNCHANGED entry
  BY DEF RInv, TypeOK, Request, GetEmbedding
<1>2. PICK noted \in {{}, {"CACHE_UNAVAILABLE"}} :
        Embed(r, noted) \/ EmbedFails(r, noted) \/ EmbedSkipped(r, noted)
  BY DEF GetEmbedding
<1>3. old.pc = "embed" /\ old.pc \notin Ended /\ ~old.fresh
  BY <1>1, <1>2 DEF Embed, EmbedFails, EmbedSkipped, Step, RequestInv, Whole, Ended
<1>4. CASE EmbedSkipped(r, noted) /\ old.reasons \cup noted = {}
  <2>1. req' = [req EXCEPT ![r] = Answered(r, "none", "error")]
    BY <1>4 DEF EmbedSkipped, Step
  <2>2. {"none", "error"} \subseteq Statuses /\ [status |-> "error", trace |-> "none"] \in Outcomes
    BY DEF Statuses, Outcomes
  <2>3. RequestInv(Answered(r, "none", "error"))
    BY <1>1, <2>2, AnsweredInv
  <2> QED BY <1>1, <2>1, <2>3, OneStepRInv
<1>5. CASE ~(EmbedSkipped(r, noted) /\ old.reasons \cup noted = {})
  <2>1. PICK new : req' = [req EXCEPT ![r] = new]
    BY <1>2 DEF Embed, EmbedFails, EmbedSkipped, Step
  <2>2. new \in Request /\ new = req'[r]
    <3>1. TypeOK'
      BY WorkStepsType
    <3> QED BY <2>1, <3>1 DEF TypeOK
  <2>3. \E reasons \in SUBSET Reasons :
          /\ old.reasons \subseteq reasons
          /\ \/ new = [old EXCEPT !.pc = "retrieve", !.reasons = reasons]
             \/ new = [old EXCEPT !.pc = "retrieve", !.vector = TRUE, !.reasons = reasons]
    <3>1. noted \subseteq Reasons /\ "EMBEDDING" \in Reasons
      BY DEF Reasons
    <3>2. CASE Embed(r, noted)
      BY <1>1, <2>2, <3>1, <3>2 DEF Embed, Step, TypeOK
    <3>3. CASE EmbedFails(r, noted)
      BY <1>1, <2>2, <3>1, <3>3 DEF EmbedFails, Step, TypeOK
    <3>4. CASE EmbedSkipped(r, noted)
      BY <1>1, <1>5, <2>2, <3>1, <3>4 DEF EmbedSkipped, Step, TypeOK
    <3> QED BY <1>2, <3>2, <3>3, <3>4
  <2>4. PICK reasons \in SUBSET Reasons :
          /\ old.reasons \subseteq reasons
          /\ new.pc = "retrieve" /\ new.reasons = reasons /\ new.payload = old.payload
          /\ new.fresh = old.fresh /\ new.status = old.status /\ new.trace = old.trace
    BY <1>1, <2>3 DEF Request
  <2>5. RequestInv(new)
    BY <1>1, <1>3, <2>2, <2>4, MovesOn
  <2> QED BY <1>1, <2>1, <2>5, OneStepRInv
<1> QED BY <1>4, <1>5

(* Where the payload comes from: it has a channel, and every missing one leaves a reason. *)
LEMMA RetrieveRInv ==
  ASSUME TypeOK, RInv, NEW r \in Requests, NEW channels \in SUBSET Channels, Retrieve(r, channels)
  PROVE  RInv'
<1> DEFINE old == req[r]
<1>1. RequestInv(old) /\ old \in Request /\ old.reasons \subseteq Reasons /\ UNCHANGED entry
  BY DEF RInv, TypeOK, Request, Retrieve
<1>2. old.pc = "retrieve" /\ old.pc \notin Ended /\ ~old.fresh /\ old.status = "none"
  BY <1>1 DEF Retrieve, Step, RequestInv, Whole, Matched, Ended
<1>3. CASE Acceptable(channels)
  <2> DEFINE new == [old EXCEPT !.pc = "store", !.reasons = old.reasons \cup Missing(channels), !.fresh = TRUE,
                                !.payload = [channels |-> channels]]
  <2>1. req' = [req EXCEPT ![r] = new]
    BY <1>3 DEF Retrieve, Step
  <2>2. /\ new.pc = "store" /\ new.reasons = old.reasons \cup Missing(channels)
        /\ new.payload = [channels |-> channels] /\ new.status = "none"
    BY <1>1, <1>2 DEF Request
  <2>3. new.payload # NoEntry /\ new.payload.channels = channels /\ channels # {}
    BY <1>3, <2>2, NoEntryAssumption DEF Payload, Acceptable
  <2>4. new.reasons = {} => channels = Channels
    BY <2>2 DEF Missing
  <2> HIDE DEF new
  <2>5. RequestInv(new)
    BY <2>2, <2>3, <2>4 DEF RequestInv, Backed, Whole, Matched, Ended
  <2> QED BY <1>1, <2>1, <2>5, OneStepRInv
<1>4. CASE ~Acceptable(channels)
  <2> DEFINE new == [old EXCEPT !.pc = "unavailable"]
  <2>1. req' = [req EXCEPT ![r] = new]
    BY <1>4 DEF Retrieve, Step
  <2>2. new \in Request
    BY <1>1 DEF Request, PCs
  <2>3. /\ new.pc = "unavailable" /\ new.reasons = old.reasons /\ new.payload = old.payload
        /\ new.fresh = old.fresh /\ new.status = old.status /\ new.trace = old.trace
    BY <1>1 DEF Request
  <2> HIDE DEF new
  <2>4. RequestInv(new)
    BY <1>1, <1>2, <2>2, <2>3, MovesOn
  <2> QED BY <1>1, <2>1, <2>4, OneStepRInv
<1> QED BY <1>3, <1>4

LEMMA StoreRInv ==
  ASSUME TypeOK, RInv, NEW r \in Requests, Store(r)
  PROVE  RInv'
<1> DEFINE old == req[r]
<1>1. RequestInv(old) /\ old \in Request /\ old.reasons \subseteq Reasons
  BY DEF RInv, TypeOK, Request
<1>2. old.pc = "store" /\ old.pc \notin Ended /\ entry' \in {entry, old.payload}
  BY DEF Store, Step, Ended
<1>3. PICK new : req' = [req EXCEPT ![r] = new]
  BY DEF Store, Step
<1>4. new \in Request /\ new = req'[r]
  <2>1. TypeOK'
    BY CacheStepsType
  <2> QED BY <1>3, <2>1 DEF TypeOK
<1>5. \/ new = [old EXCEPT !.pc = "answer"]
      \/ new = [old EXCEPT !.pc = "answer", !.reasons = With(r, "CACHE_UNAVAILABLE")]
  BY <1>4 DEF Store, Step, TypeOK
<1>6. /\ new.pc = "answer" /\ new.payload = old.payload /\ new.fresh = old.fresh
      /\ new.status = old.status /\ new.trace = old.trace
      /\ new.reasons \subseteq Reasons /\ old.reasons \subseteq new.reasons
  BY <1>1, <1>5 DEF Request, With, Reasons
<1>7. RequestInv(new)
  BY <1>1, <1>2, <1>4, <1>6, MovesOn
<1> QED BY <1>2, <1>3, <1>7, OneStepRInv

LEMMA EndStepsRInv ==
  ASSUME TypeOK, RInv, NEW r \in Requests,
         \/ Release(r) \/ Delete(r) \/ Die(r) \/ DeadlineExpires(r)
         \/ \E enabled \in BOOLEAN : Begin(r, enabled)
  PROVE  RInv'
<1> DEFINE old == req[r]
<1>1. RequestInv(old) /\ old \in Request
  BY DEF RInv, TypeOK
<1>2. UNCHANGED entry
  BY DEF Release, Delete, Die, DeadlineExpires, Begin
<1>3. CASE req' = [req EXCEPT ![r] = Idle]
  BY <1>2, <1>3, IdleInv, OneStepRInv
<1>4. CASE req' = [req EXCEPT ![r] = [old EXCEPT !.pc = "delete"]] /\ old.pc = "finally"
  <2> DEFINE new == [old EXCEPT !.pc = "delete"]
  <2>1. /\ new.pc = "delete" /\ new.payload = old.payload /\ new.fresh = old.fresh
        /\ new.reasons = old.reasons /\ new.status = old.status /\ new.trace = old.trace
    BY <1>1 DEF Request
  <2>2. req' = [req EXCEPT ![r] = new]
    BY <1>4
  <2> HIDE DEF new
  <2>3. RequestInv(new)
    BY <1>1, <2>1 DEF RequestInv, Backed, Whole, Matched, Ended
  <2> QED BY <1>2, <2>2, <2>3, OneStepRInv
<1>5. CASE DeadlineExpires(r)
  <2> DEFINE new == [old EXCEPT !.expired = TRUE]
  <2>1. /\ new.pc = old.pc /\ new.payload = old.payload /\ new.fresh = old.fresh
        /\ new.reasons = old.reasons /\ new.status = old.status /\ new.trace = old.trace
    BY <1>1 DEF Request
  <2>2. req' = [req EXCEPT ![r] = new]
    BY <1>5 DEF DeadlineExpires
  <2> HIDE DEF new
  <2>3. RequestInv(new)
    BY <1>1, <2>1 DEF RequestInv, Backed, Whole, Matched
  <2> QED BY <1>2, <2>2, <2>3, OneStepRInv
<1>6. ASSUME NEW enabled \in BOOLEAN, Begin(r, enabled) PROVE RInv'
  <2> DEFINE new == [Idle EXCEPT !.pc = IF enabled THEN "lookup" ELSE "embed", !.cached = enabled]
  <2>1. req' = [req EXCEPT ![r] = new]
    BY <1>6 DEF Begin, Step
  <2>2. /\ new.pc \in {"lookup", "embed"} /\ new.payload = NoEntry /\ new.fresh = FALSE
        /\ new.status = "none"
    BY DEF Idle
  <2> HIDE DEF new
  <2>3. RequestInv(new)
    BY <2>2 DEF RequestInv, Backed, Whole, Matched
  <2> QED BY <1>2, <2>1, <2>3, OneStepRInv
<1> QED BY <1>3, <1>4, <1>5, <1>6 DEF Release, Delete, Die, Step

LEMMA NextRInv == ASSUME TypeOK, RInv, [Next]_vars PROVE RInv'
<1>1. ASSUME NEW r \in Requests, Advance(r) PROVE RInv'
  BY <1>1, CacheStepsRInv, AnswerStepsRInv, EmbeddingRInv, RetrieveRInv, StoreRInv, EndStepsRInv DEF Advance
<1>2. ASSUME NEW r \in Requests,
             DeadlineExpires(r) \/ Die(r) \/ \E enabled \in BOOLEAN : Begin(r, enabled)
      PROVE  RInv'
  BY <1>2, EndStepsRInv
<1>3. CASE EntryExpires \/ LockExpires
  BY <1>3 DEF EntryExpires, LockExpires, RInv
<1>4. CASE UNCHANGED vars
  BY <1>4 DEF vars, RInv
<1> QED BY <1>1, <1>2, <1>3, <1>4 DEF Next

LEMMA ResultInvariant == Spec => [](TypeOK /\ RInv)
<1>1. Init => TypeOK /\ RInv
  BY IdleType, IdleInv, SearchAssumption DEF Init, TypeOK, RInv
<1> QED BY <1>1, NextType, NextRInv, PTL DEF Spec

(* However requests interleave, expire, lose Redis or die, what is cached or answered
   as a result was retrieved from at least one channel. *)
THEOREM ResultsAlwaysBacked == Spec => []ResultsAreBacked
<1>1. RInv => ResultsAreBacked
  BY DEF RInv, RequestInv, Backed, ResultsAreBacked
<1> QED BY <1>1, ResultInvariant, PTL

(* A request that retrieved answers "completed" only of a result with both channels. *)
THEOREM CompletedIsWhole == Spec => []FreshCompletedIsWhole
<1>1. RInv => FreshCompletedIsWhole
  BY DEF RInv, RequestInv, Whole, FreshCompletedIsWhole
<1> QED BY <1>1, ResultInvariant, PTL

(* Whatever its path, the handler ends in one of the outcomes the chat stream expects. *)
THEOREM AnswersAlwaysMatch == Spec => []AnswersMatchTraces
<1>1. RInv => AnswersMatchTraces
  BY DEF RInv, RequestInv, Matched, AnswersMatchTraces
<1> QED BY <1>1, ResultInvariant, PTL
===============================================================================
