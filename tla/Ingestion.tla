------------------------------ MODULE Ingestion ------------------------------
(***************************************************************************)
(* The ingestion pipeline of services/ingestion.py: the worker loop        *)
(* (docker/worker.sh running cli.process_next_job), the API's background   *)
(* task (api/ingestion.py), and the operator's CLI commands, all working   *)
(* on the same ingestion_jobs / document_versions / chunks rows and on the *)
(* same OpenSearch index.                                                  *)
(*                                                                         *)
(* Every actor is a database session.  A session reads a row once, keeps   *)
(* its own view of it (SQLAlchemy identity map, expire_on_commit=False),   *)
(* and a commit writes only the columns it changed with respect to that    *)
(* view: the operator Flush.  Each commit, and each call to the file       *)
(* store, the embedding provider and OpenSearch, ends a step.              *)
(***************************************************************************)
EXTENDS Naturals

CONSTANTS Jobs,           \* one job per (knowledge base, content hash)
          KBs, KBOf,      \* knowledge base of each job
          Workers,        \* sessions of the worker loop
          Background,     \* sessions of the API's background task
          Operators,      \* sessions of the operator's CLI commands
          Configs,        \* chunk size / overlap settings in use
          Ordinals,       \* chunk ordinals; stable_chunk_id hashes version and ordinal
          Drafts,         \* the ordinals the chunker produces of each job's document
          Unparsable,     \* jobs whose parser always raises, or yields no block
          MaxAttempts,
          MaxCrashes,     \* bound: sessions that die before they finish
          MaxOperations,  \* bound: operator commands
          NoJob, NoConfig

Sessions == Workers \cup Background \cup Operators

ASSUME ConstantsAssumption ==
  /\ KBOf \in [Jobs -> KBs]
  /\ Drafts \in [Jobs -> [Configs -> SUBSET Ordinals]]
  /\ Unparsable \subseteq Jobs
  /\ MaxAttempts \in Nat \ {0}
  /\ MaxCrashes \in Nat
  /\ MaxOperations \in Nat
  /\ NoJob \notin Jobs
  /\ NoConfig \notin Configs

VARIABLES job,         \* ingestion_jobs rows
          version,     \* document_versions.status
          chunks,      \* chunks rows of each version: setting each ordinal was cut with
          index,       \* OpenSearch documents of each version, by ordinal
          sess,        \* what each session is doing and has read
          uploads, crashes, operations

db   == <<job, version, chunks, index>>
vars == <<job, version, chunks, index, sess, uploads, crashes, operations>>

InFlight == {"PARSING", "CHUNKING", "EMBEDDING", "INDEXING"}
Status   == {"ABSENT", "PENDING", "RETRY_WAITING", "READY", "FAILED"} \cup InFlight
Stages   == {"PENDING", "READY"} \cup InFlight
Errors   == {"NONE", "INGESTION_RETRYABLE", "INGESTION_FAILED"}

(* next_retry_at: NULL, in the future, or already past. *)
RetryTimes == {"null", "future", "past"}

Row == [status: Status, stage: Stages, attempts: Nat, error: Errors,
        retryAt: RetryTimes, leased: BOOLEAN, created: Nat]

VersionStatus == {"PENDING", "BUILDING", "READY", "FAILED"}

(* "raised" and "refused" are the two except branches: an error that may be
   retried, and one that may not. *)
PCs == {"idle", "queued", "loaded", "started", "parsing", "chunking", "embedding",
        "indexing", "indexed", "raised", "refused", "retry", "reindex"}

Session == [pc: PCs, job: Jobs \cup {NoJob}, view: Row, seen: VersionStatus,
            config: Configs \cup {NoConfig}]

Absent == [status |-> "ABSENT", stage |-> "PENDING", attempts |-> 0, error |-> "NONE",
           retryAt |-> "null", leased |-> FALSE, created |-> 0]

Idle == [pc |-> "idle", job |-> NoJob, view |-> Absent, seen |-> "PENDING",
         config |-> NoConfig]

Nothing == [o \in Ordinals |-> NoConfig]

Init == /\ job = [j \in Jobs |-> Absent]
        /\ version = [j \in Jobs |-> "PENDING"]
        /\ chunks = [j \in Jobs |-> Nothing]
        /\ index = [j \in Jobs |-> Nothing]
        /\ sess = [s \in Sessions |-> Idle]
        /\ uploads = 0
        /\ crashes = 0
        /\ operations = 0

-----------------------------------------------------------------------------
(* What a session does to its rows. *)

Dirty(old, new, stored) == IF new # old THEN new ELSE stored

(* SQLAlchemy's UPDATE: a column is written only if this session changed it. *)
Flush(stored, old, new) ==
  [status   |-> Dirty(old.status, new.status, stored.status),
   stage    |-> Dirty(old.stage, new.stage, stored.stage),
   attempts |-> Dirty(old.attempts, new.attempts, stored.attempts),
   error    |-> Dirty(old.error, new.error, stored.error),
   retryAt  |-> Dirty(old.retryAt, new.retryAt, stored.retryAt),
   leased   |-> Dirty(old.leased, new.leased, stored.leased),
   created  |-> stored.created]

(* Commit of session s, which now sees its job as row and its version as ver. *)
Commit(s, row, ver) ==
  LET j == sess[s].job IN
  /\ job' = [job EXCEPT ![j] = Flush(@, sess[s].view, row)]
  /\ version' = [version EXCEPT ![j] = Dirty(sess[s].seen, ver, @)]

Continue(s, pc, row, ver) ==
  sess' = [sess EXCEPT ![s] = [@ EXCEPT !.pc = pc, !.view = row, !.seen = ver]]

Finish(s) == sess' = [sess EXCEPT ![s] = Idle]

Open(s, pc, j, row, ver) ==
  sess' = [sess EXCEPT ![s] = [Idle EXCEPT !.pc = pc, !.job = j, !.view = row, !.seen = ver]]

InStage(row, stage) == [row EXCEPT !.stage = stage, !.status = stage]

(* The documents of the index, or the rows of the table, after those of the
   given ordinals were (re)written under the given setting. *)
Written(old, ordinals, config) ==
  [o \in Ordinals |-> IF o \in ordinals THEN config ELSE old[o]]

-----------------------------------------------------------------------------
(* Uploading and claiming. *)

(* create_ingestion_job, seen from its single commit: a new document, its
   version 1 and its job; an upload of known content returns the old job. *)
Upload(j) ==
  /\ job[j].status = "ABSENT"
  /\ uploads' = uploads + 1
  /\ job' = [job EXCEPT ![j] = [Absent EXCEPT !.status = "PENDING", !.created = uploads']]
  /\ UNCHANGED <<version, chunks, index, sess, crashes, operations>>

Claimable(j) == /\ job[j].status \in {"PENDING", "RETRY_WAITING"}
                /\ job[j].retryAt # "future"

(* First row of the claiming SELECT among the jobs of S: ORDER BY created_at. *)
IsNext(j, S) == /\ j \in S /\ Claimable(j)
                /\ \A k \in S : Claimable(k) => job[j].created <= job[k].created

(* The lease is all a claim writes: status and next_retry_at stay as they are. *)
Lease(j) == job' = [job EXCEPT ![j].leased = TRUE]

(* The worker loop processes in the session that claimed. *)
Claim(s) ==
  /\ s \in Workers /\ sess[s].pc = "idle"
  /\ \E j \in Jobs : /\ IsNext(j, Jobs)
                     /\ Lease(j)
                     /\ Open(s, "loaded", j, [job[j] EXCEPT !.leased = TRUE], "PENDING")
  /\ UNCHANGED <<version, chunks, index, uploads, crashes, operations>>

(* The API claims in the request and queues a background task. *)
ClaimForKB(s, kb) ==
  /\ s \in Background /\ sess[s].pc = "idle"
  /\ \E j \in Jobs : /\ IsNext(j, {k \in Jobs : KBOf[k] = kb})
                     /\ Lease(j)
                     /\ Open(s, "queued", j, Absent, "PENDING")
  /\ UNCHANGED <<version, chunks, index, uploads, crashes, operations>>

(* The background task selects the job in a session of its own. *)
Load(s) ==
  /\ sess[s].pc = "queued"
  /\ Continue(s, "loaded", job[sess[s].job], "PENDING")
  /\ UNCHANGED <<db, uploads, crashes, operations>>

(* process-ingestion-job: any existing job, claimed or not, backoff or not. *)
OpenById(s, j) ==
  /\ s \in Operators /\ sess[s].pc = "idle" /\ operations < MaxOperations
  /\ job[j].status # "ABSENT"
  /\ Open(s, "loaded", j, job[j], "PENDING")
  /\ operations' = operations + 1
  /\ UNCHANGED <<db, uploads, crashes>>

-----------------------------------------------------------------------------
(* process_ingestion_job *)

ReturnTerminal(s) ==
  /\ sess[s].pc = "loaded" /\ sess[s].view.status \in {"READY", "FAILED"}
  /\ Finish(s)
  /\ UNCHANGED <<db, uploads, crashes, operations>>

(* Faulty variant: the chunk rows are dropped when an attempt starts. *)
StartDropsRows(s) ==
  LET row == [InStage(sess[s].view, "PARSING") EXCEPT !.attempts = @ + 1] IN
  /\ sess[s].pc = "loaded" /\ sess[s].view.status \notin {"READY", "FAILED"}
  /\ Commit(s, row, sess[s].seen)
  /\ Continue(s, "started", row, sess[s].seen)
  /\ chunks' = [chunks EXCEPT ![sess[s].job] = Nothing]
  /\ UNCHANGED <<index, uploads, crashes, operations>>

(* Faulty variant: the attempt is not counted. *)
StartUncounted(s) ==
  LET row == InStage(sess[s].view, "PARSING") IN
  /\ sess[s].pc = "loaded" /\ sess[s].view.status \notin {"READY", "FAILED"}
  /\ Commit(s, row, sess[s].seen)
  /\ Continue(s, "started", row, sess[s].seen)
  /\ UNCHANGED <<chunks, index, uploads, crashes, operations>>

Start(s) ==
  LET row == [InStage(sess[s].view, "PARSING") EXCEPT !.attempts = @ + 1] IN
  /\ sess[s].pc = "loaded" /\ sess[s].view.status \notin {"READY", "FAILED"}
  /\ Commit(s, row, sess[s].seen)
  /\ Continue(s, "started", row, sess[s].seen)
  /\ UNCHANGED <<chunks, index, uploads, crashes, operations>>

ReadVersion(s) ==
  /\ sess[s].pc = "started"
  /\ Continue(s, "parsing", sess[s].view, version[sess[s].job])
  /\ UNCHANGED <<db, uploads, crashes, operations>>

Parse(s) ==
  LET row == InStage(sess[s].view, "CHUNKING") IN
  /\ sess[s].pc = "parsing" /\ sess[s].job \notin Unparsable
  /\ Commit(s, row, "BUILDING")
  /\ Continue(s, "chunking", row, "BUILDING")
  /\ UNCHANGED <<chunks, index, uploads, crashes, operations>>

(* The old rows go, the new rows come and the status moves in one commit. *)
Chunk(s, c) ==
  LET row == InStage(sess[s].view, "EMBEDDING") IN
  /\ sess[s].pc = "chunking" /\ Drafts[sess[s].job][c] # {}
  /\ Commit(s, row, sess[s].seen)
  /\ chunks' = [chunks EXCEPT ![sess[s].job] = Written(Nothing, Drafts[sess[s].job][c], c)]
  /\ sess' = [sess EXCEPT ![s] = [@ EXCEPT !.pc = "embedding", !.view = row, !.config = c]]
  /\ UNCHANGED <<index, uploads, crashes, operations>>

Embed(s) ==
  LET row == InStage(sess[s].view, "INDEXING") IN
  /\ sess[s].pc = "embedding"
  /\ Commit(s, row, sess[s].seen)
  /\ Continue(s, "indexing", row, sess[s].seen)
  /\ UNCHANGED <<chunks, index, uploads, crashes, operations>>

(* One bulk request; a document is replaced by one of the same id. *)
BulkWrite(s, ordinals) ==
  index' = [index EXCEPT ![sess[s].job] = Written(@, ordinals, sess[s].config)]

Upsert(s) ==
  /\ sess[s].pc = "indexing"
  /\ BulkWrite(s, Drafts[sess[s].job][sess[s].config])
  /\ Continue(s, "indexed", sess[s].view, sess[s].seen)
  /\ UNCHANGED <<job, version, chunks, uploads, crashes, operations>>

(* Faulty variant: the error of an earlier attempt is not cleared. *)
PublishKeepsError(s) ==
  LET row == InStage(sess[s].view, "READY") IN
  /\ sess[s].pc = "indexed"
  /\ Commit(s, row, "READY")
  /\ Finish(s)
  /\ UNCHANGED <<chunks, index, uploads, crashes, operations>>

Publish(s) ==
  LET row == [InStage(sess[s].view, "READY") EXCEPT !.error = "NONE"] IN
  /\ sess[s].pc = "indexed"
  /\ Commit(s, row, "READY")
  /\ Finish(s)
  /\ UNCHANGED <<chunks, index, uploads, crashes, operations>>

-----------------------------------------------------------------------------
(* The steps that raise, and the except branches. *)

Raise(s, pc) == Continue(s, pc, sess[s].view, sess[s].seen)

(* The file store, the embedding provider or OpenSearch answers with an error
   or not at all: any exception but a ValueError. *)
CallFails(s) ==
  /\ sess[s].pc \in {"parsing", "embedding"}
  /\ Raise(s, "raised")
  /\ UNCHANGED <<db, uploads, crashes, operations>>

(* No parser, no text, undecodable text; no chunk; vectors of a wrong shape. *)
InputRefused(s) ==
  /\ \/ sess[s].pc = "parsing" /\ sess[s].job \in Unparsable
     \/ sess[s].pc = "chunking" /\ \E c \in Configs : Drafts[sess[s].job][c] = {}
     \/ sess[s].pc = "embedding"
  /\ Raise(s, "refused")
  /\ UNCHANGED <<db, uploads, crashes, operations>>

(* Faulty variant: the errors of the bulk response are not looked at. *)
UpsertIgnoresErrors(s, ordinals) ==
  /\ sess[s].pc = "indexing" /\ ordinals \subseteq Drafts[sess[s].job][sess[s].config]
  /\ BulkWrite(s, ordinals)
  /\ Continue(s, "indexed", sess[s].view, sess[s].seen)
  /\ UNCHANGED <<job, version, chunks, uploads, crashes, operations>>

(* The bulk request wrote some documents, none or all, and then failed: an item
   error or a timeout, or a body that is not JSON (a ValueError). *)
UpsertFails(s, ordinals) ==
  /\ sess[s].pc = "indexing" /\ ordinals \subseteq Drafts[sess[s].job][sess[s].config]
  /\ BulkWrite(s, ordinals)
  /\ \E pc \in {"raised", "refused"} : Raise(s, pc)
  /\ UNCHANGED <<job, version, chunks, uploads, crashes, operations>>

(* Faulty variant: one attempt too many. *)
HasAttemptsLeftInclusive(s) == sess[s].view.attempts <= MaxAttempts

HasAttemptsLeft(s) == sess[s].view.attempts < MaxAttempts

(* Faulty variant: the stage is overwritten along with the status. *)
MarkRetryingInStage(s) ==
  LET j == sess[s].job
      row == [InStage(sess[s].view, "RETRY_WAITING") EXCEPT !.error = "INGESTION_RETRYABLE"]
  IN
  /\ sess[s].pc = "raised" /\ HasAttemptsLeft(s)
  /\ job' = [job EXCEPT ![j] = [Flush(@, sess[s].view, row) EXCEPT !.retryAt = "future"]]
  /\ Finish(s)
  /\ UNCHANGED <<version, chunks, index, uploads, crashes, operations>>

(* next_retry_at is a fresh timestamp, so it is always written. *)
MarkRetrying(s) ==
  LET j == sess[s].job
      row == [sess[s].view EXCEPT !.status = "RETRY_WAITING", !.error = "INGESTION_RETRYABLE"]
  IN
  /\ sess[s].pc = "raised" /\ HasAttemptsLeft(s)
  /\ job' = [job EXCEPT ![j] = [Flush(@, sess[s].view, row) EXCEPT !.retryAt = "future"]]
  /\ Finish(s)
  /\ UNCHANGED <<version, chunks, index, uploads, crashes, operations>>

(* Faulty variant: the version is left as it was. *)
MarkFailedJobOnly(s) ==
  /\ \/ sess[s].pc = "refused"
     \/ sess[s].pc = "raised" /\ ~HasAttemptsLeft(s)
  /\ Commit(s, [sess[s].view EXCEPT !.status = "FAILED", !.error = "INGESTION_FAILED"], sess[s].seen)
  /\ Finish(s)
  /\ UNCHANGED <<chunks, index, uploads, crashes, operations>>

MarkFailed(s) ==
  /\ \/ sess[s].pc = "refused"
     \/ sess[s].pc = "raised" /\ ~HasAttemptsLeft(s)
  /\ Commit(s, [sess[s].view EXCEPT !.status = "FAILED", !.error = "INGESTION_FAILED"], "FAILED")
  /\ Finish(s)
  /\ UNCHANGED <<chunks, index, uploads, crashes, operations>>

(* The process is killed, or a database error leaves a session whose except
   branch raises as well: what was committed stays. *)
Abandon(s) ==
  /\ sess[s].pc # "idle" /\ crashes < MaxCrashes
  /\ Finish(s)
  /\ crashes' = crashes + 1
  /\ UNCHANGED <<db, uploads, operations>>

BackoffElapses(j) ==
  /\ job[j].retryAt = "future"
  /\ job' = [job EXCEPT ![j].retryAt = "past"]
  /\ UNCHANGED <<version, chunks, index, sess, uploads, crashes, operations>>

-----------------------------------------------------------------------------
(* The operator: reset_ingestion_job_for_retry and reset_ingestion_job_for_reindex. *)

Resettable(pc) == IF pc = "retry" THEN {"FAILED"} ELSE {"READY", "FAILED", "RETRY_WAITING"}

LoadForReset(s, j, pc) ==
  /\ s \in Operators /\ sess[s].pc = "idle" /\ operations < MaxOperations
  /\ job[j].status \in Resettable(pc)
  /\ Open(s, pc, j, job[j], version[j])
  /\ operations' = operations + 1
  /\ UNCHANGED <<db, uploads, crashes>>

ResetForRetry(s) ==
  /\ sess[s].pc = "retry"
  /\ Commit(s, [sess[s].view EXCEPT !.status = "RETRY_WAITING", !.retryAt = "null",
                                    !.error = "NONE"], sess[s].seen)
  /\ Finish(s)
  /\ UNCHANGED <<chunks, index, uploads, crashes, operations>>

ResetForReindex(s) ==
  /\ sess[s].pc = "reindex"
  /\ Commit(s, [sess[s].view EXCEPT !.status = "RETRY_WAITING", !.stage = "PARSING",
                                    !.attempts = 0, !.leased = FALSE, !.retryAt = "null",
                                    !.error = "NONE"], "PENDING")
  /\ Finish(s)
  /\ UNCHANGED <<chunks, index, uploads, crashes, operations>>

-----------------------------------------------------------------------------
Process(s) ==
  \/ Load(s) \/ ReturnTerminal(s) \/ Start(s) \/ ReadVersion(s) \/ Parse(s)
  \/ \E c \in Configs : Chunk(s, c)
  \/ Embed(s) \/ Upsert(s) \/ Publish(s)
  \/ CallFails(s) \/ InputRefused(s)
  \/ \E ordinals \in SUBSET Ordinals : UpsertFails(s, ordinals)
  \/ MarkRetrying(s) \/ MarkFailed(s)

Operate(s) ==
  \/ \E j \in Jobs : OpenById(s, j)
  \/ \E j \in Jobs, pc \in {"retry", "reindex"} : LoadForReset(s, j, pc)
  \/ ResetForRetry(s) \/ ResetForReindex(s)

Next ==
  \/ \E j \in Jobs : Upload(j) \/ BackoffElapses(j)
  \/ \E s \in Sessions :
       \/ Claim(s)
       \/ \E kb \in KBs : ClaimForKB(s, kb)
       \/ Process(s) \/ Operate(s) \/ Abandon(s)

Spec == Init /\ [][Next]_vars

(* worker.sh loops for ever, a session that has a job runs on, and time passes;
   nothing is asked of the operator, of the API's users or of the uploads. *)
Fairness == /\ \A s \in Workers : WF_vars(Claim(s))
            /\ \A s \in Sessions : WF_vars(Process(s))
            /\ \A j \in Jobs : WF_vars(BackoffElapses(j))

FairSpec == Spec /\ Fairness

-----------------------------------------------------------------------------
(* Properties *)

(* The rows, the index and the sessions' views stay in their domains. *)
TypeOK ==
  /\ job \in [Jobs -> Row]
  /\ version \in [Jobs -> VersionStatus]
  /\ chunks \in [Jobs -> [Ordinals -> Configs \cup {NoConfig}]]
  /\ index \in [Jobs -> [Ordinals -> Configs \cup {NoConfig}]]
  /\ sess \in [Sessions -> Session]
  /\ uploads \in Nat /\ crashes \in Nat /\ operations \in Nat

Holds(docs, j, c) == Drafts[j][c] # {} /\ \A o \in Drafts[j][c] : docs[o] = c

(* A job or a version that reads READY has every chunk of some complete
   chunking in the index, whichever sessions overlapped, died or were reset on
   the way: nobody reports success for a document with missing chunks. *)
ReadyIsSearchable ==
  \A j \in Jobs : (job[j].status = "READY" \/ version[j] = "READY") =>
    \E c \in Configs : Drafts[j][c] # {} /\ \A o \in Drafts[j][c] : index[j][o] # NoConfig

(* The strengthening that makes ReadyIsSearchable inductive: a busy session has
   a job, one past Chunk has a setting that cuts at least one chunk, and one that
   is about to publish has all its chunks in the index. *)
Chunked == {"embedding", "indexing", "indexed"}

SessionsWellFormed ==
  \A s \in Sessions :
    /\ sess[s].pc # "idle" => sess[s].job \in Jobs
    /\ sess[s].pc \in Chunked => sess[s].config \in Configs /\ Drafts[sess[s].job][sess[s].config] # {}

UpsertIsComplete ==
  \A s \in Sessions : sess[s].pc = "indexed" =>
    \A o \in Drafts[sess[s].job][sess[s].config] : index[sess[s].job][o] # NoConfig

IInv == TypeOK /\ SessionsWellFormed /\ UpsertIsComplete /\ ReadyIsSearchable

(* With sessions that do not overlap, READY moreover means that the chunk rows
   and the index hold the same chunking, the version is READY too and no error
   of an earlier attempt is left on the job. *)
ReadyIsConsistent ==
  \A j \in Jobs : job[j].status = "READY" =>
    /\ \E c \in Configs : Holds(chunks[j], j, c) /\ Holds(index[j], j, c)
    /\ version[j] = "READY" /\ job[j].error = "NONE"

(* With sessions that do not overlap, a FAILED job says why, its version is
   FAILED, and it either used up its attempts or was refused. *)
FailureIsExplained ==
  \A j \in Jobs : job[j].status = "FAILED" =>
    version[j] = "FAILED" /\ job[j].error # "NONE" /\ job[j].attempts > 0

(* With a single chunking setting, whatever the sessions do, every document of
   the index is backed by a chunk row of the same version. *)
IndexedHasRow ==
  \A j \in Jobs, o \in Ordinals : index[j][o] # NoConfig => chunks[j][o] = index[j][o]

(* The pipeline implements the lifecycle of module JobLifecycle. *)
Lifecycle == INSTANCE JobLifecycle WITH
               status <- [j \in Jobs |-> job[j].status],
               attempts <- [j \in Jobs |-> job[j].attempts]

ImplementsLifecycle == Lifecycle!Spec

Settled(j) == job[j].status \in {"ABSENT", "READY", "FAILED"}

(* As long as no session dies, every uploaded job ends READY or FAILED for
   good, even when two workers claim the same one and overwrite each other. *)
JobsSettle == \A j \in Jobs : <>[](Settled(j) \/ crashes > 0)
=============================================================================
