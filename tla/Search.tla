-------------------------------- MODULE Search --------------------------------
(***************************************************************************)
(* POST /api/v1/retrieval/search (api/retrieval.py search): concurrent     *)
(* requests for one cache key, the Redis entry and rebuild lock of that    *)
(* key (cache/redis.py), the embedding, the two retrieval channels         *)
(* (retrieval/service.py retrieve_resilient) and the trace that is         *)
(* written.  Every await on Redis, on the provider, on OpenSearch and on   *)
(* MySQL ends a step.                                                      *)
(*                                                                         *)
(* A payload is what the properties tell apart: the channels it was fused  *)
(* from.                                                                   *)
(***************************************************************************)
EXTENDS Naturals, SearchOutcomes

CONSTANTS Requests,       \* places of requests handled at once
          MaxFaults,      \* bound: Redis calls that fail, processes that die
          LockLapses,     \* whether the lock's TTL may end before its owner does
          NoEntry, Free

ASSUME SearchAssumption ==
  /\ MaxFaults \in Nat
  /\ LockLapses \in BOOLEAN
  /\ Free \notin Requests

Channels == {"dense", "sparse"}
Payload == [channels : SUBSET Channels]

ASSUME NoEntryAssumption == NoEntry \notin Payload

VARIABLES entry,      \* the retrieval payload cached under the key
          lock,       \* key:lock, as the request whose token it holds
          faults,
          req

vars == <<entry, lock, faults, req>>

Reasons == {"CACHE_UNAVAILABLE", "EMBEDDING", "RETRIEVAL"}
PCs == {"idle", "lookup", "hit", "acquire", "wait", "waited", "embed", "retrieve", "store",
        "answer", "unavailable", "finally", "delete"}

Request == [pc : PCs,
            cached : BOOLEAN,            \* cache_policy == "enabled"
            token : BOOLEAN,             \* lock_token is not None
            expired : BOOLEAN,           \* the deadline is over
            vector : BOOLEAN,            \* the query was embedded
            reasons : SUBSET Reasons,
            payload : Payload \cup {NoEntry},
            fresh : BOOLEAN,             \* the payload was retrieved by this request
            status : Statuses,           \* what the client was answered
            trace : Statuses]            \* the status of the query_traces row

Idle == [pc |-> "idle", cached |-> FALSE, token |-> FALSE, expired |-> FALSE,
          vector |-> FALSE, reasons |-> {}, payload |-> NoEntry,
          fresh |-> FALSE, status |-> "none", trace |-> "none"]

Init == /\ entry = NoEntry
        /\ lock = Free
        /\ faults = 0
        /\ req = [r \in Requests |-> Idle]

Running(r) == req[r].pc # "idle"

Step(r, pc, new) ==
  /\ req[r].pc = pc
  /\ req' = [req EXCEPT ![r] = new]

(* A Redis call of the step raises CacheUnavailable: refused, or timed out with
   its effect applied or not. *)
RedisFails == faults < MaxFaults /\ faults' = faults + 1
RedisAnswers == UNCHANGED faults

With(r, reason) == req[r].reasons \cup {reason}

-----------------------------------------------------------------------------
(* The cache and the lock. *)

Begin(r, enabled) ==
  /\ Step(r, "idle", [Idle EXCEPT !.pc = IF enabled THEN "lookup" ELSE "embed",
                                  !.cached = enabled])
  /\ UNCHANGED <<entry, lock, faults>>

Lookup(r) ==
  /\ \/ /\ RedisAnswers /\ entry # NoEntry
        /\ Step(r, "lookup", [req[r] EXCEPT !.pc = "hit", !.payload = entry])
     \/ /\ RedisAnswers /\ entry = NoEntry
        /\ Step(r, "lookup", [req[r] EXCEPT !.pc = "acquire"])
     \/ /\ RedisFails
        /\ Step(r, "lookup", [req[r] EXCEPT !.pc = "acquire", !.reasons = With(r, "CACHE_UNAVAILABLE")])
  /\ UNCHANGED <<entry, lock>>

(* Faulty variant: SET without NX. *)
AcquireAlways(r) ==
  /\ RedisAnswers /\ lock' = r
  /\ Step(r, "acquire", [req[r] EXCEPT !.pc = "embed", !.token = TRUE])
  /\ UNCHANGED <<entry>>

(* SET key:lock token EX 10 NX.  When it fails the token is lost, and the lock may
   have been set all the same. *)
Acquire(r) ==
  /\ \/ /\ RedisAnswers /\ lock = Free /\ lock' = r
        /\ Step(r, "acquire", [req[r] EXCEPT !.pc = "embed", !.token = TRUE])
     \/ /\ RedisAnswers /\ lock # Free /\ UNCHANGED lock
        /\ Step(r, "acquire", [req[r] EXCEPT !.pc = "wait"])
     \/ /\ RedisFails /\ lock' \in {lock, IF lock = Free THEN r ELSE lock}
        /\ Step(r, "acquire", [req[r] EXCEPT !.pc = "embed", !.reasons = With(r, "CACHE_UNAVAILABLE")])
  /\ UNCHANGED <<entry>>

(* wait_for_json: a poll finds the entry, or fails. *)
Poll(r) ==
  /\ \/ /\ RedisAnswers /\ entry # NoEntry
        /\ Step(r, "wait", [req[r] EXCEPT !.pc = "waited", !.payload = entry])
     \/ /\ RedisFails
        /\ Step(r, "wait", [req[r] EXCEPT !.pc = "embed", !.reasons = With(r, "CACHE_UNAVAILABLE")])
  /\ UNCHANGED <<entry, lock>>

(* Faulty variant: the waiter polls until the lock is gone. *)
GiveUpWhenFree(r) ==
  /\ entry = NoEntry /\ lock = Free
  /\ Step(r, "wait", [req[r] EXCEPT !.pc = "embed"])
  /\ UNCHANGED <<entry, lock, faults>>

(* The last of its polls found nothing. *)
GiveUp(r) ==
  /\ entry = NoEntry
  /\ Step(r, "wait", [req[r] EXCEPT !.pc = "embed"])
  /\ UNCHANGED <<entry, lock, faults>>

(* _write_trace, then the answer; what only the work needed is forgotten. *)
Answered(r, trace, status) ==
  [req[r] EXCEPT !.pc = "finally", !.trace = trace, !.status = status,
                 !.vector = FALSE, !.expired = FALSE]

Outcome(r) == IF req[r].reasons # {} THEN "degraded" ELSE "completed"

(* A hit of the first look carries the reasons, ... *)
AnswerHit(r) ==
  /\ Step(r, "hit", Answered(r, Outcome(r), Outcome(r)))
  /\ UNCHANGED <<entry, lock, faults>>

(* Faulty variant: the two expressions are swapped. *)
AnswerWaitedSwapped(r) ==
  /\ Step(r, "waited", Answered(r, "completed", Outcome(r)))
  /\ UNCHANGED <<entry, lock, faults>>

(* ... a hit after waiting is "completed" whatever was traced. *)
AnswerWaited(r) ==
  /\ Step(r, "waited", Answered(r, Outcome(r), "completed"))
  /\ UNCHANGED <<entry, lock, faults>>

-----------------------------------------------------------------------------
(* _get_embedding and retrieve_resilient. *)

(* The vector comes from its own cache, which is read even after the deadline,
   or from the provider. *)
Embed(r, noted) ==
  /\ ~req[r].expired \/ (req[r].cached /\ noted = {})
  /\ Step(r, "embed", [req[r] EXCEPT !.pc = "retrieve", !.vector = TRUE, !.reasons = @ \cup noted])

(* The breaker is open, the provider fails, or it is too slow. *)
EmbedFails(r, noted) ==
  Step(r, "embed", [req[r] EXCEPT !.pc = "retrieve", !.reasons = @ \cup noted \cup {"EMBEDDING"}])

(* The deadline is over and nothing was cached: the provider is not called and
   error_code=reasons[-1] raises IndexError when no reason was noted yet. *)
EmbedSkipped(r, noted) ==
  LET reasons == req[r].reasons \cup noted IN
  /\ req[r].expired
  /\ Step(r, "embed", IF reasons = {} THEN Answered(r, "none", "error")
                      ELSE [req[r] EXCEPT !.pc = "retrieve", !.reasons = reasons])

(* With caching, the vector's own entry may be out of reach: noted, and it goes on. *)
GetEmbedding(r) ==
  /\ \E noted \in {{}, {"CACHE_UNAVAILABLE"}} :
       /\ IF noted = {} THEN RedisAnswers ELSE req[r].cached /\ RedisFails
       /\ Embed(r, noted) \/ EmbedFails(r, noted) \/ EmbedSkipped(r, noted)
  /\ UNCHANGED <<entry, lock>>

Asked(r) == IF req[r].vector THEN Channels ELSE {"sparse"}

(* Faulty variants: the missing channels are not noted, or noted by their names. *)
MissingUnnoted(channels) == {}
MissingNamed(channels) == Channels \ channels

(* reasons: a channel that failed, was skipped or was cut off by the deadline, and
   the dense channel when there was no vector. *)
Missing(channels) == IF channels = Channels THEN {} ELSE {"RETRIEVAL"}

(* Faulty variant: an empty result is as good as any. *)
AcceptableAlways(channels) == TRUE

(* Otherwise AllRetrieversFailed. *)
Acceptable(channels) == channels # {}

Retrieve(r, channels) ==
  /\ channels \subseteq Asked(r)
  /\ req[r].expired => channels = {}
  /\ Step(r, "retrieve",
          IF Acceptable(channels)
          THEN [req[r] EXCEPT !.pc = "store", !.reasons = @ \cup Missing(channels), !.fresh = TRUE,
                              !.payload = [channels |-> channels]]
          ELSE [req[r] EXCEPT !.pc = "unavailable"])
  /\ UNCHANGED <<entry, lock, faults>>

Store(r) ==
  /\ \/ /\ req[r].cached /\ RedisAnswers /\ entry' = req[r].payload
        /\ Step(r, "store", [req[r] EXCEPT !.pc = "answer"])
     \/ /\ req[r].cached /\ RedisFails /\ entry' \in {entry, req[r].payload}
        /\ Step(r, "store", [req[r] EXCEPT !.pc = "answer", !.reasons = With(r, "CACHE_UNAVAILABLE")])
     \/ /\ ~req[r].cached /\ RedisAnswers /\ UNCHANGED entry
        /\ Step(r, "store", [req[r] EXCEPT !.pc = "answer"])
  /\ UNCHANGED <<lock>>

Answer(r) ==
  /\ Step(r, "answer", Answered(r, Outcome(r), Outcome(r)))
  /\ UNCHANGED <<entry, lock, faults>>

(* Faulty variant: the lock is released on the successful path only. *)
AnswerUnavailableKeepsLock(r) ==
  /\ Step(r, "unavailable", Idle)
  /\ UNCHANGED <<entry, lock, faults>>

AnswerUnavailable(r) ==
  /\ Step(r, "unavailable", Answered(r, "failed", "failed"))
  /\ UNCHANGED <<entry, lock, faults>>

-----------------------------------------------------------------------------
(* finally: release_lock reads the lock, and deletes it in a second call. *)

Release(r) ==
  /\ \/ /\ req[r].token /\ RedisAnswers
        /\ Step(r, "finally", IF lock = r THEN [req[r] EXCEPT !.pc = "delete"] ELSE Idle)
     \/ req[r].token /\ RedisFails /\ Step(r, "finally", Idle)
     \/ ~req[r].token /\ RedisAnswers /\ Step(r, "finally", Idle)
  /\ UNCHANGED <<entry, lock>>

Delete(r) ==
  /\ Step(r, "delete", Idle)
  /\ \/ RedisAnswers /\ lock' = Free
     \/ RedisFails /\ lock' \in {lock, Free}
  /\ UNCHANGED <<entry>>

-----------------------------------------------------------------------------
(* The environment. *)

DeadlineExpires(r) ==
  /\ Running(r) /\ ~req[r].expired /\ req[r].status = "none"
  /\ req' = [req EXCEPT ![r].expired = TRUE]
  /\ UNCHANGED <<entry, lock, faults>>

(* The API process dies, or the chat stream that called search is closed: the
   awaits of finally are cancelled, too. *)
Die(r) ==
  /\ Running(r) /\ faults < MaxFaults /\ faults' = faults + 1
  /\ req' = [req EXCEPT ![r] = Idle]
  /\ UNCHANGED <<entry, lock>>

EntryExpires == entry # NoEntry /\ entry' = NoEntry /\ UNCHANGED <<lock, faults, req>>

(* The TTL of a lock ends; while its owner runs, only if LockLapses. *)
LockExpires ==
  /\ lock # Free /\ lock' = Free
  /\ LockLapses \/ ~req[lock].token
  /\ UNCHANGED <<entry, faults, req>>

Advance(r) ==
  \/ Lookup(r) \/ Acquire(r) \/ Poll(r) \/ GiveUp(r) \/ AnswerHit(r) \/ AnswerWaited(r)
  \/ GetEmbedding(r) \/ \E channels \in SUBSET Channels : Retrieve(r, channels)
  \/ Store(r) \/ Answer(r) \/ AnswerUnavailable(r) \/ Release(r) \/ Delete(r)

Next == \/ \E r \in Requests : \/ \E enabled \in BOOLEAN : Begin(r, enabled)
                               \/ Advance(r) \/ DeadlineExpires(r) \/ Die(r)
        \/ EntryExpires \/ LockExpires

Spec == Init /\ [][Next]_vars

(* A handler that was started runs on: its calls of Redis, of the provider and of
   OpenSearch have timeouts, and MySQL is supposed to answer its commit. *)
FairSpec == Spec /\ \A r \in Requests : WF_vars(Advance(r))

-----------------------------------------------------------------------------
(* Properties *)

(* Entry, lock and requests stay in their domains. *)
TypeOK == /\ entry \in Payload \cup {NoEntry}
          /\ lock \in Requests \cup {Free}
          /\ faults \in 0..MaxFaults
          /\ req \in [Requests -> Request]

(* Nothing that no channel answered is ever cached or served as a result, by any
   interleaving of owners, waiters, deadlines and Redis failures. *)
ResultsAreBacked ==
  /\ entry # NoEntry => entry.channels # {}
  /\ \A r \in Requests : req[r].status \in {"completed", "degraded"} =>
       req[r].payload # NoEntry /\ req[r].payload.channels # {}

(* A request that retrieved by itself answers "completed" only with both channels
   in its result and every Redis call answered. *)
FreshCompletedIsWhole ==
  \A r \in Requests : req[r].fresh /\ req[r].status = "completed" =>
    req[r].payload.channels = Channels /\ req[r].reasons = {}

(* On every path the answer and the trace, which are built from different expressions,
   go together as in SearchOutcomes: what a caller such as the chat stream relies on. *)
AnswersMatchTraces ==
  \A r \in Requests : req[r].status # "none" =>
    [status |-> req[r].status, trace |-> req[r].trace] \in Outcomes

(* While no Redis call fails, the lock belongs to a running request that will
   release it, however that request ends. *)
LockHasOwner ==
  lock # Free /\ faults = 0 => Running(lock) /\ req[lock].token

(* At most one request at a time thinks it rebuilds the entry under the lock, as
   long as no owner outlives the lock's TTL. *)
OneOwner ==
  ~LockLapses => \A r, q \in Requests : req[r].token /\ req[q].token => r = q

(* Every request that began is answered, or its process died: nobody waits for
   ever for the owner of the lock, dead or failed. *)
EveryRequestEnds == \A r \in Requests : Running(r) ~> ~Running(r)
===============================================================================
