--------------------------- MODULE IngestionProofs ---------------------------
(***************************************************************************)
(* Proofs about module Ingestion, for every set of jobs, sessions and      *)
(* chunking settings and every number of attempts, crashes and operator    *)
(* commands.                                                               *)
(***************************************************************************)
EXTENDS Ingestion, TLAPS

-----------------------------------------------------------------------------
(* What the helpers of the sessions return. *)

LEMMA FlushType ==
  ASSUME NEW stored \in Row, NEW old \in Row, NEW new \in Row
  PROVE  Flush(stored, old, new) \in Row
BY DEF Flush, Dirty, Row

(* A commit cannot make a status READY that neither side has. *)
LEMMA FlushStatus ==
  ASSUME NEW stored \in Row, NEW old \in Row, NEW new \in Row
  PROVE  Flush(stored, old, new).status \in {stored.status, new.status}
BY DEF Flush, Dirty

LEMMA InStageType ==
  ASSUME NEW row \in Row, NEW stage \in InFlight \cup {"READY"}
  PROVE  InStage(row, stage) \in Row
BY DEF InStage, Row, Status, Stages, InFlight

LEMMA CommitType ==
  ASSUME TypeOK, NEW s \in Sessions, NEW row \in Row, NEW ver \in VersionStatus,
         Commit(s, row, ver)
  PROVE  /\ job' \in [Jobs -> Row]
         /\ version' \in [Jobs -> VersionStatus]
<1> DEFINE j == sess[s].job
<1>1. sess[s].view \in Row
  BY DEF TypeOK, Session
<1>2. \A k \in Jobs : Flush(job[k], sess[s].view, row) \in Row
  BY <1>1, FlushType DEF TypeOK
<1>3. job' \in [Jobs -> Row]
  BY <1>2 DEF Commit, TypeOK
<1>4. version' \in [Jobs -> VersionStatus]
  BY DEF Commit, TypeOK, Dirty
<1> QED BY <1>3, <1>4

LEMMA IdleType == Idle \in Session /\ Absent \in Row
BY DEF Idle, Session, PCs, Absent, Row, Status, Stages, Errors, RetryTimes, VersionStatus

(* TypeOK alone is not inductive: Load reads the row of the session's job. *)
TInv == TypeOK /\ SessionsWellFormed

LEMMA FinishType ==
  ASSUME TInv, NEW s \in Sessions, Finish(s)
  PROVE  sess' \in [Sessions -> Session] /\ SessionsWellFormed'
BY IdleType DEF Finish, TInv, TypeOK, SessionsWellFormed, Idle, Chunked

LEMMA ContinueType ==
  ASSUME TInv, NEW s \in Sessions, NEW pc \in PCs, NEW row \in Row,
         NEW ver \in VersionStatus, Continue(s, pc, row, ver),
         sess[s].pc # "idle", pc \in Chunked => sess[s].pc \in Chunked
  PROVE  sess' \in [Sessions -> Session] /\ SessionsWellFormed'
<1> DEFINE next == [sess[s] EXCEPT !.pc = pc, !.view = row, !.seen = ver]
<1>1. sess[s] \in Session
  BY DEF TInv, TypeOK
<1>2. /\ next \in Session /\ next.pc = pc /\ next.job = sess[s].job
      /\ next.config = sess[s].config
  BY <1>1 DEF Session
<1>3. sess' = [sess EXCEPT ![s] = next]
  BY DEF Continue
<1> HIDE DEF next
<1> QED BY <1>2, <1>3 DEF TInv, TypeOK, SessionsWellFormed

LEMMA OpenType ==
  ASSUME TInv, NEW s \in Sessions, NEW pc \in PCs \ Chunked, NEW j \in Jobs,
         NEW row \in Row, NEW ver \in VersionStatus, Open(s, pc, j, row, ver)
  PROVE  sess' \in [Sessions -> Session] /\ SessionsWellFormed'
<1> DEFINE next == [Idle EXCEPT !.pc = pc, !.job = j, !.view = row, !.seen = ver]
<1>1. next \in Session /\ next.pc = pc /\ next.job = j
  BY DEF Idle, Session
<1>2. sess' = [sess EXCEPT ![s] = next]
  BY DEF Open
<1> HIDE DEF next
<1> QED BY <1>1, <1>2 DEF TInv, TypeOK, SessionsWellFormed

LEMMA WrittenType ==
  ASSUME NEW old \in [Ordinals -> Configs \cup {NoConfig}], NEW ordinals,
         NEW c \in Configs \cup {NoConfig}
  PROVE  Written(old, ordinals, c) \in [Ordinals -> Configs \cup {NoConfig}]
BY DEF Written

LEMMA BulkWriteType ==
  ASSUME TypeOK, NEW s \in Sessions, NEW ordinals, BulkWrite(s, ordinals)
  PROVE  index' \in [Jobs -> [Ordinals -> Configs \cup {NoConfig}]]
<1>1. sess[s].config \in Configs \cup {NoConfig}
  BY DEF TypeOK, Session
<1>2. \A k \in Jobs : Written(index[k], ordinals, sess[s].config)
                        \in [Ordinals -> Configs \cup {NoConfig}]
  BY <1>1, WrittenType DEF TypeOK
<1> QED BY <1>2 DEF BulkWrite, TypeOK

LEMMA LeaseType ==
  ASSUME TypeOK, NEW j \in Jobs, Lease(j)
  PROVE  job' \in [Jobs -> Row] /\ [job[j] EXCEPT !.leased = TRUE] \in Row
<1>1. [job[j] EXCEPT !.leased = TRUE] \in Row
  BY DEF TypeOK, Row
<1>2. job' = [job EXCEPT ![j] = [job[j] EXCEPT !.leased = TRUE]]
  BY DEF Lease
<1> QED BY <1>1, <1>2 DEF TypeOK

-----------------------------------------------------------------------------
(* Type correctness. *)

LEMMA InitType == Init => TInv
<1> SUFFICES ASSUME Init PROVE TInv
  OBVIOUS
<1>1. Nothing \in [Ordinals -> Configs \cup {NoConfig}]
  BY DEF Nothing
<1>2. TypeOK
  BY <1>1, IdleType DEF Init, TypeOK, VersionStatus
<1>3. SessionsWellFormed
  BY DEF Init, SessionsWellFormed, Idle, Chunked
<1> QED BY <1>2, <1>3 DEF TInv

(* A step that commits row and ver for the job of s and moves s to pc. *)
LEMMA CommitContinueType ==
  ASSUME TInv, NEW s \in Sessions, NEW pc \in PCs, NEW row \in Row,
         NEW ver \in VersionStatus, Commit(s, row, ver), Continue(s, pc, row, ver),
         sess[s].pc # "idle", pc \in Chunked => sess[s].pc \in Chunked,
         UNCHANGED <<chunks, index, uploads, crashes, operations>>
  PROVE  TInv'
<1>1. job' \in [Jobs -> Row] /\ version' \in [Jobs -> VersionStatus]
  BY CommitType DEF TInv
<1>2. sess' \in [Sessions -> Session] /\ SessionsWellFormed'
  BY ContinueType
<1> QED BY <1>1, <1>2 DEF TInv, TypeOK

(* A step that commits row and ver for the job of s and ends s. *)
LEMMA CommitFinishType ==
  ASSUME TInv, NEW s \in Sessions, NEW row \in Row, NEW ver \in VersionStatus,
         Commit(s, row, ver), Finish(s),
         UNCHANGED <<chunks, index, uploads, crashes, operations>>
  PROVE  TInv'
<1>1. job' \in [Jobs -> Row] /\ version' \in [Jobs -> VersionStatus]
  BY CommitType DEF TInv
<1>2. sess' \in [Sessions -> Session] /\ SessionsWellFormed'
  BY FinishType
<1> QED BY <1>1, <1>2 DEF TInv, TypeOK

(* A step that moves s to pc and writes no row. *)
LEMMA ReadType ==
  ASSUME TInv, NEW s \in Sessions, NEW pc \in PCs, NEW row \in Row,
         NEW ver \in VersionStatus, Continue(s, pc, row, ver),
         sess[s].pc # "idle", pc \in Chunked => sess[s].pc \in Chunked,
         UNCHANGED <<db, uploads, crashes, operations>>
  PROVE  TInv'
<1>1. sess' \in [Sessions -> Session] /\ SessionsWellFormed'
  BY ContinueType
<1> QED BY <1>1 DEF TInv, TypeOK, db

LEMMA ProcessType ==
  ASSUME TInv, NEW s \in Sessions, Process(s)
  PROVE  TInv'
<1> DEFINE v == sess[s].view
<1>1. /\ v \in Row /\ sess[s].seen \in VersionStatus /\ TypeOK
      /\ sess[s].pc # "idle" => sess[s].job \in Jobs
  BY DEF TInv, TypeOK, Session, SessionsWellFormed
<1>p. /\ {"loaded", "started", "parsing", "chunking", "embedding", "indexing",
          "indexed", "raised", "refused"} \subseteq PCs
      /\ {"BUILDING", "READY", "FAILED"} \subseteq VersionStatus
      /\ \A pc \in {"loaded", "started", "parsing", "chunking", "raised", "refused"} :
           pc \notin Chunked
      /\ {"embedding", "indexing", "indexed"} = Chunked
  BY DEF PCs, VersionStatus, Chunked
<1>s. \A stage \in {"PARSING", "CHUNKING", "EMBEDDING", "INDEXING", "READY"} :
        InStage(v, stage) \in Row
  BY <1>1, InStageType DEF InFlight
<1>2. CASE Load(s)
  <2>1. job[sess[s].job] \in Row /\ "PENDING" \in VersionStatus
    BY <1>1, <1>2 DEF Load, TypeOK, VersionStatus
  <2> QED BY <1>2, <2>1, <1>p, ReadType DEF Load
<1>3. CASE ReturnTerminal(s)
  BY <1>3, FinishType DEF ReturnTerminal, TInv, TypeOK, db
<1>4. CASE Start(s)
  <2> DEFINE row == [InStage(v, "PARSING") EXCEPT !.attempts = @ + 1]
  <2>1. row \in Row
    BY <1>s DEF Row
  <2> HIDE DEF row
  <2>2. /\ Commit(s, row, sess[s].seen) /\ Continue(s, "started", row, sess[s].seen)
        /\ sess[s].pc = "loaded" /\ UNCHANGED <<chunks, index, uploads, crashes, operations>>
    BY <1>4 DEF Start, row
  <2> QED BY <2>1, <2>2, <1>1, <1>p, CommitContinueType
<1>5. CASE ReadVersion(s)
  <2>1. version[sess[s].job] \in VersionStatus
    BY <1>1, <1>5 DEF ReadVersion, TypeOK
  <2> QED BY <1>1, <1>5, <2>1, <1>p, ReadType DEF ReadVersion
<1>6. CASE Parse(s)
  BY <1>6, <1>s, <1>1, <1>p, CommitContinueType DEF Parse
<1>7. ASSUME NEW c \in Configs, Chunk(s, c)
      PROVE  TInv'
  <2> DEFINE row == InStage(v, "EMBEDDING")
             next == [sess[s] EXCEPT !.pc = "embedding", !.view = row, !.config = c]
  <2>1. row \in Row
    BY <1>s
  <2> HIDE DEF row
  <2>2. /\ Commit(s, row, sess[s].seen) /\ Drafts[sess[s].job][c] # {} /\ sess[s].pc = "chunking"
        /\ chunks' = [chunks EXCEPT ![sess[s].job] = Written(Nothing, Drafts[sess[s].job][c], c)]
        /\ sess' = [sess EXCEPT ![s] = next]
        /\ UNCHANGED <<index, uploads, crashes, operations>>
    BY <1>7 DEF Chunk, row
  <2>3. job' \in [Jobs -> Row] /\ version' \in [Jobs -> VersionStatus]
    BY <2>1, <2>2, <1>1, CommitType
  <2>4. /\ next \in Session /\ next.pc = "embedding" /\ next.job = sess[s].job
        /\ next.config = c
    BY <2>1, <1>7, <1>p DEF TInv, TypeOK, Session
  <2> HIDE DEF next
  <2>5. Written(Nothing, Drafts[sess[s].job][c], c) \in [Ordinals -> Configs \cup {NoConfig}]
    BY <1>7 DEF Written, Nothing
  <2>6. chunks' \in [Jobs -> [Ordinals -> Configs \cup {NoConfig}]]
    BY <2>2, <2>5, <1>1 DEF TypeOK
  <2>7. sess' \in [Sessions -> Session] /\ SessionsWellFormed'
    BY <2>2, <2>4, <1>7 DEF TInv, TypeOK, SessionsWellFormed
  <2> QED BY <2>2, <2>3, <2>6, <2>7 DEF TInv, TypeOK
<1>8. CASE Embed(s)
  BY <1>8, <1>s, <1>1, <1>p, CommitContinueType DEF Embed
<1>9. CASE Upsert(s)
  <2>1. index' \in [Jobs -> [Ordinals -> Configs \cup {NoConfig}]]
    BY <1>9, <1>1, BulkWriteType DEF Upsert
  <2>2. sess' \in [Sessions -> Session] /\ SessionsWellFormed'
    BY <1>9, <1>1, <1>p, ContinueType DEF Upsert
  <2> QED BY <1>9, <2>1, <2>2 DEF Upsert, TInv, TypeOK
<1>10. CASE Publish(s)
  <2> DEFINE row == [InStage(v, "READY") EXCEPT !.error = "NONE"]
  <2>1. row \in Row
    BY <1>s DEF Row, Errors
  <2> HIDE DEF row
  <2>2. /\ Commit(s, row, "READY") /\ Finish(s)
        /\ UNCHANGED <<chunks, index, uploads, crashes, operations>>
    BY <1>10 DEF Publish, row
  <2> QED BY <2>1, <2>2, <1>p, CommitFinishType
<1>11. CASE CallFails(s)
  BY <1>11, <1>1, <1>p, ReadType DEF CallFails, Raise
<1>12. CASE InputRefused(s)
  <2>1. sess[s].pc # "idle"
    BY <1>12 DEF InputRefused
  <2> QED BY <1>12, <2>1, <1>1, <1>p, ReadType DEF InputRefused, Raise
<1>13. ASSUME NEW ordinals, UpsertFails(s, ordinals)
       PROVE  TInv'
  <2>1. index' \in [Jobs -> [Ordinals -> Configs \cup {NoConfig}]]
    BY <1>13, <1>1, BulkWriteType DEF UpsertFails
  <2>2. PICK pc \in {"raised", "refused"} : Raise(s, pc)
    BY <1>13 DEF UpsertFails
  <2>3. sess' \in [Sessions -> Session] /\ SessionsWellFormed'
    BY <1>13, <2>2, <1>1, <1>p, ContinueType DEF UpsertFails, Raise
  <2> QED BY <1>13, <2>1, <2>3 DEF UpsertFails, TInv, TypeOK
<1>14. CASE MarkRetrying(s)
  <2> DEFINE row == [v EXCEPT !.status = "RETRY_WAITING", !.error = "INGESTION_RETRYABLE"]
  <2>1. row \in Row
    BY <1>1 DEF Row, Status, Errors
  <2> HIDE DEF row
  <2>2. \A k \in Jobs : [Flush(job[k], v, row) EXCEPT !.retryAt = "future"] \in Row
    <3> TAKE k \in Jobs
    <3>1. Flush(job[k], v, row) \in Row
      BY <1>1, <2>1, FlushType DEF TypeOK
    <3> QED BY <3>1 DEF Row, RetryTimes
  <2>3. /\ job' = [job EXCEPT ![sess[s].job] =
                     [Flush(job[sess[s].job], v, row) EXCEPT !.retryAt = "future"]]
        /\ sess[s].job \in Jobs
    BY <1>14, <1>1 DEF MarkRetrying, row, TypeOK
  <2>4. job' \in [Jobs -> Row]
    BY <2>2, <2>3, <1>1 DEF TypeOK
  <2>5. sess' \in [Sessions -> Session] /\ SessionsWellFormed'
    BY <1>14, FinishType DEF MarkRetrying
  <2> QED BY <1>14, <2>4, <2>5 DEF MarkRetrying, TInv, TypeOK
<1>15. CASE MarkFailed(s)
  <2> DEFINE row == [v EXCEPT !.status = "FAILED", !.error = "INGESTION_FAILED"]
  <2>1. row \in Row
    BY <1>1 DEF Row, Status, Errors
  <2> HIDE DEF row
  <2>2. /\ Commit(s, row, "FAILED") /\ Finish(s)
        /\ UNCHANGED <<chunks, index, uploads, crashes, operations>>
    BY <1>15 DEF MarkFailed, row
  <2> QED BY <2>1, <2>2, <1>p, CommitFinishType
<1> QED BY <1>2, <1>3, <1>4, <1>5, <1>6, <1>7, <1>8, <1>9, <1>10, <1>11, <1>12, <1>13,
           <1>14, <1>15 DEF Process

LEMMA ClaimsType ==
  ASSUME TInv, NEW s \in Sessions,
         \/ Claim(s)
         \/ \E kb \in KBs : ClaimForKB(s, kb)
  PROVE  TInv'
<1>1. TypeOK /\ "PENDING" \in VersionStatus /\ {"loaded", "queued"} \subseteq PCs \ Chunked
  BY DEF TInv, VersionStatus, PCs, Chunked
<1>2. CASE Claim(s)
  <2>1. PICK j \in Jobs : Lease(j) /\ Open(s, "loaded", j, [job[j] EXCEPT !.leased = TRUE], "PENDING")
    BY <1>2 DEF Claim
  <2>2. sess' \in [Sessions -> Session] /\ SessionsWellFormed'
    BY <2>1, <1>1, LeaseType, OpenType
  <2> QED BY <1>2, <2>1, <2>2, <1>1, LeaseType DEF Claim, TInv, TypeOK
<1>3. ASSUME NEW kb \in KBs, ClaimForKB(s, kb)
      PROVE  TInv'
  <2>1. PICK j \in Jobs : Lease(j) /\ Open(s, "queued", j, Absent, "PENDING")
    BY <1>3 DEF ClaimForKB
  <2>2. sess' \in [Sessions -> Session] /\ SessionsWellFormed'
    BY <2>1, <1>1, IdleType, OpenType
  <2> QED BY <1>3, <2>1, <2>2, <1>1, LeaseType DEF ClaimForKB, TInv, TypeOK
<1> QED BY <1>2, <1>3

LEMMA OperateType ==
  ASSUME TInv, NEW s \in Sessions, Operate(s)
  PROVE  TInv'
<1> DEFINE v == sess[s].view
<1>1. /\ v \in Row /\ sess[s].seen \in VersionStatus /\ TypeOK
      /\ {"loaded", "retry", "reindex"} \subseteq PCs \ Chunked
      /\ "PENDING" \in VersionStatus
  BY DEF TInv, TypeOK, Session, PCs, Chunked, VersionStatus
<1>2. ASSUME NEW j \in Jobs, NEW pc \in PCs \ Chunked, NEW ver \in VersionStatus,
             Open(s, pc, j, job[j], ver), operations' = operations + 1,
             UNCHANGED <<db, uploads, crashes>>
      PROVE  TInv'
  <2>1. job[j] \in Row
    BY <1>1 DEF TypeOK
  <2>2. sess' \in [Sessions -> Session] /\ SessionsWellFormed'
    BY <1>2, <2>1, OpenType
  <2> QED BY <1>2, <2>2, <1>1 DEF TInv, TypeOK, db
<1>3. ASSUME NEW j \in Jobs, OpenById(s, j)
      PROVE  TInv'
  BY <1>3, <1>1, <1>2 DEF OpenById
<1>4. ASSUME NEW j \in Jobs, NEW pc \in {"retry", "reindex"}, LoadForReset(s, j, pc)
      PROVE  TInv'
  <2>1. version[j] \in VersionStatus
    BY <1>1 DEF TypeOK
  <2> QED BY <1>4, <2>1, <1>1, <1>2 DEF LoadForReset
<1>5. CASE ResetForRetry(s)
  <2> DEFINE row == [v EXCEPT !.status = "RETRY_WAITING", !.retryAt = "null", !.error = "NONE"]
  <2>1. row \in Row
    BY <1>1 DEF Row, Status, Errors, RetryTimes
  <2> HIDE DEF row
  <2>2. /\ Commit(s, row, sess[s].seen) /\ Finish(s)
        /\ UNCHANGED <<chunks, index, uploads, crashes, operations>>
    BY <1>5 DEF ResetForRetry, row
  <2> QED BY <2>1, <2>2, <1>1, CommitFinishType
<1>6. CASE ResetForReindex(s)
  <2> DEFINE row == [v EXCEPT !.status = "RETRY_WAITING", !.stage = "PARSING",
                              !.attempts = 0, !.leased = FALSE, !.retryAt = "null",
                              !.error = "NONE"]
  <2>1. row \in Row
    BY <1>1 DEF Row, Status, Stages, InFlight, Errors, RetryTimes
  <2> HIDE DEF row
  <2>2. /\ Commit(s, row, "PENDING") /\ Finish(s)
        /\ UNCHANGED <<chunks, index, uploads, crashes, operations>>
    BY <1>6 DEF ResetForReindex, row
  <2> QED BY <2>1, <2>2, <1>1, CommitFinishType
<1> QED BY <1>3, <1>4, <1>5, <1>6 DEF Operate

LEMMA NextType == TInv /\ [Next]_vars => TInv'
<1> SUFFICES ASSUME TInv, [Next]_vars PROVE TInv'
  OBVIOUS
<1>1. ASSUME NEW j \in Jobs, Upload(j)
      PROVE  TInv'
  <2> DEFINE row == [Absent EXCEPT !.status = "PENDING", !.created = uploads']
  <2>1. uploads' \in Nat /\ uploads' = uploads + 1
    BY <1>1 DEF Upload, TInv, TypeOK
  <2>2. row \in Row
    BY <2>1 DEF Absent, Row, Status, Stages, Errors, RetryTimes
  <2> HIDE DEF row
  <2>3. job' = [job EXCEPT ![j] = row] /\ UNCHANGED <<version, chunks, index, sess, crashes, operations>>
    BY <1>1 DEF Upload, row
  <2> QED BY <2>1, <2>2, <2>3 DEF TInv, TypeOK, SessionsWellFormed
<1>2. ASSUME NEW j \in Jobs, BackoffElapses(j)
      PROVE  TInv'
  <2>1. [job[j] EXCEPT !.retryAt = "past"] \in Row
    BY DEF TInv, TypeOK, Row, RetryTimes
  <2>2. /\ job' = [job EXCEPT ![j] = [job[j] EXCEPT !.retryAt = "past"]]
        /\ UNCHANGED <<version, chunks, index, sess, uploads, crashes, operations>>
    BY <1>2 DEF BackoffElapses
  <2> QED BY <2>1, <2>2 DEF TInv, TypeOK, SessionsWellFormed
<1>3. ASSUME NEW s \in Sessions, Abandon(s)
      PROVE  TInv'
  BY <1>3, FinishType DEF Abandon, TInv, TypeOK, db
<1>4. CASE UNCHANGED vars
  BY <1>4 DEF vars, TInv, TypeOK, SessionsWellFormed
<1> QED BY <1>1, <1>2, <1>3, <1>4, ClaimsType, OperateType, ProcessType DEF Next

(* Every reachable state is well typed, for every instance of the constants. *)
THEOREM TypeCorrect == Spec => []TypeOK
<1>1. Init => TInv
  BY InitType
<1>2. TInv /\ [Next]_vars => TInv'
  BY NextType
<1>3. TInv => TypeOK
  BY DEF TInv
<1> QED BY <1>1, <1>2, <1>3, PTL DEF Spec

-----------------------------------------------------------------------------
(* ReadyIsSearchable.  Three facts about a step carry the argument: the index
   never loses a document, only Publish makes a job or a version READY, and only
   Upsert brings a session to "indexed". *)

IndexGrows ==
  \A j \in Jobs, o \in Ordinals : index[j][o] # NoConfig => index'[j][o] # NoConfig

AboutToPublish(j) == \E s \in Sessions : sess[s].pc = "indexed" /\ sess[s].job = j

OnlyPublishMakesReady ==
  \A j \in Jobs : job'[j].status = "READY" \/ version'[j] = "READY" =>
    job[j].status = "READY" \/ version[j] = "READY" \/ AboutToPublish(j)

OnlyUpsertReachesIndexed ==
  \A t \in Sessions : sess'[t].pc = "indexed" => sess'[t] = sess[t] \/ Upsert(t)

StepFacts == IndexGrows /\ OnlyPublishMakesReady /\ OnlyUpsertReachesIndexed

LEMMA QuietCommit ==
  ASSUME TInv, NEW s \in Sessions, NEW row \in Row, NEW ver \in VersionStatus,
         Commit(s, row, ver), row.status # "READY", ver = sess[s].seen \/ ver # "READY"
  PROVE  OnlyPublishMakesReady
<1>1. sess[s].view \in Row /\ job \in [Jobs -> Row] /\ version \in [Jobs -> VersionStatus]
  BY DEF TInv, TypeOK, Session
<1>2. \A k \in Jobs : Flush(job[k], sess[s].view, row).status \in {job[k].status, row.status}
  BY <1>1, FlushStatus
<1>3. \A k \in Jobs : job'[k].status = "READY" => job[k].status = "READY"
  BY <1>1, <1>2 DEF Commit
<1>4. \A k \in Jobs : version'[k] = "READY" => version[k] = "READY"
  BY <1>1 DEF Commit, Dirty
<1> QED BY <1>3, <1>4 DEF OnlyPublishMakesReady

LEMMA QuietRows ==
  ASSUME UNCHANGED <<job, version>>
  PROVE  OnlyPublishMakesReady
BY DEF OnlyPublishMakesReady

LEMMA QuietIndex == ASSUME UNCHANGED index PROVE IndexGrows
BY DEF IndexGrows

LEMMA QuietSession ==
  ASSUME TInv, NEW s \in Sessions, NEW r, sess' = [sess EXCEPT ![s] = r], r.pc # "indexed"
  PROVE  OnlyUpsertReachesIndexed
BY DEF OnlyUpsertReachesIndexed, TInv, TypeOK

LEMMA QuietFinish ==
  ASSUME TInv, NEW s \in Sessions, Finish(s)
  PROVE  OnlyUpsertReachesIndexed
<1>1. Idle.pc # "indexed"
  BY DEF Idle
<1> QED BY <1>1, QuietSession DEF Finish

LEMMA QuietContinue ==
  ASSUME TInv, NEW s \in Sessions, NEW pc \in PCs, NEW row \in Row, NEW ver \in VersionStatus,
         Continue(s, pc, row, ver), pc # "indexed"
  PROVE  OnlyUpsertReachesIndexed
<1> DEFINE next == [sess[s] EXCEPT !.pc = pc, !.view = row, !.seen = ver]
<1>1. next.pc = pc /\ sess' = [sess EXCEPT ![s] = next]
  BY DEF Continue, TInv, TypeOK, Session
<1> QED BY <1>1, QuietSession

LEMMA QuietOpen ==
  ASSUME TInv, NEW s \in Sessions, NEW pc \in PCs, NEW j \in Jobs, NEW row \in Row,
         NEW ver \in VersionStatus, Open(s, pc, j, row, ver), pc # "indexed"
  PROVE  OnlyUpsertReachesIndexed
<1> DEFINE next == [Idle EXCEPT !.pc = pc, !.job = j, !.view = row, !.seen = ver]
<1>1. next.pc = pc /\ sess' = [sess EXCEPT ![s] = next]
  BY DEF Open, Idle
<1> QED BY <1>1, QuietSession

LEMMA BulkWriteGrows ==
  ASSUME TInv, NEW s \in Sessions, NEW ordinals, BulkWrite(s, ordinals), sess[s].pc = "indexing"
  PROVE  /\ IndexGrows
         /\ \A o \in ordinals \cap Ordinals : index'[sess[s].job][o] # NoConfig
<1>1. sess[s].job \in Jobs /\ sess[s].config \in Configs /\ TypeOK
  BY DEF TInv, SessionsWellFormed, Chunked
<1>2. sess[s].config # NoConfig
  BY <1>1, ConstantsAssumption
<1> QED BY <1>1, <1>2 DEF BulkWrite, Written, IndexGrows, TypeOK

LEMMA QuietLease ==
  ASSUME TInv, NEW j \in Jobs, Lease(j), UNCHANGED version
  PROVE  OnlyPublishMakesReady
<1>1. job \in [Jobs -> Row]
  BY DEF TInv, TypeOK
<1>2. [job[j] EXCEPT !.leased = TRUE].status = job[j].status
  BY <1>1 DEF Row
<1>3. job' = [job EXCEPT ![j] = [job[j] EXCEPT !.leased = TRUE]]
  BY DEF Lease
<1> QED BY <1>1, <1>2, <1>3 DEF OnlyPublishMakesReady

LEMMA ProcessFacts ==
  ASSUME TInv, NEW s \in Sessions, Process(s)
  PROVE  StepFacts
<1> DEFINE v == sess[s].view
<1> USE DEF StepFacts
<1>1. /\ v \in Row /\ sess[s].seen \in VersionStatus /\ TypeOK
      /\ sess[s].pc # "idle" => sess[s].job \in Jobs
  BY DEF TInv, TypeOK, Session, SessionsWellFormed
<1>p. /\ {"loaded", "started", "parsing", "chunking", "embedding", "indexing",
          "raised", "refused"} \subseteq PCs \ {"indexed"}
      /\ {"BUILDING", "FAILED", "PENDING"} \subseteq VersionStatus \ {"READY"}
  BY DEF PCs, VersionStatus
<1>s. \A stage \in {"PARSING", "CHUNKING", "EMBEDDING", "INDEXING"} :
        InStage(v, stage) \in Row /\ InStage(v, stage).status # "READY"
  BY <1>1, InStageType DEF InFlight, InStage, Row
<1>2. CASE Load(s)
  <2>1. job[sess[s].job] \in Row
    BY <1>1, <1>2 DEF Load, TypeOK
  <2> QED BY <1>2, <2>1, <1>p, QuietContinue, QuietRows, QuietIndex DEF Load, db
<1>3. CASE ReturnTerminal(s)
  BY <1>3, QuietFinish, QuietRows, QuietIndex DEF ReturnTerminal, db
<1>4. CASE Start(s)
  <2> DEFINE row == [InStage(v, "PARSING") EXCEPT !.attempts = @ + 1]
  <2>1. row \in Row /\ row.status # "READY"
    BY <1>s DEF Row
  <2> HIDE DEF row
  <2>2. /\ Commit(s, row, sess[s].seen) /\ Continue(s, "started", row, sess[s].seen)
        /\ UNCHANGED index
    BY <1>4 DEF Start, row
  <2> QED BY <2>1, <2>2, <1>1, <1>p, QuietCommit, QuietContinue, QuietIndex
<1>5. CASE ReadVersion(s)
  <2>1. version[sess[s].job] \in VersionStatus
    BY <1>1, <1>5 DEF ReadVersion, TypeOK
  <2> QED BY <1>1, <1>5, <2>1, <1>p, QuietContinue, QuietRows, QuietIndex DEF ReadVersion, db
<1>6. CASE Parse(s)
  BY <1>6, <1>s, <1>1, <1>p, QuietCommit, QuietContinue, QuietIndex DEF Parse
<1>7. ASSUME NEW c \in Configs, Chunk(s, c)
      PROVE  StepFacts
  <2> DEFINE row == InStage(v, "EMBEDDING")
             next == [sess[s] EXCEPT !.pc = "embedding", !.view = row, !.config = c]
  <2>1. next.pc # "indexed"
    BY DEF TInv, TypeOK, Session
  <2>2. /\ Commit(s, row, sess[s].seen) /\ sess' = [sess EXCEPT ![s] = next]
        /\ UNCHANGED index
    BY <1>7 DEF Chunk
  <2> HIDE DEF next
  <2> QED BY <2>1, <2>2, <1>1, <1>s, QuietCommit, QuietSession, QuietIndex
<1>8. CASE Embed(s)
  BY <1>8, <1>s, <1>1, <1>p, QuietCommit, QuietContinue, QuietIndex DEF Embed
<1>9. CASE Upsert(s)
  <2>1. IndexGrows
    BY <1>9, BulkWriteGrows DEF Upsert
  <2>2. \A t \in Sessions : t # s => sess'[t] = sess[t]
    BY <1>9, <1>1 DEF Upsert, Continue, TypeOK
  <2> QED BY <1>9, <2>1, <2>2, QuietRows DEF Upsert, OnlyUpsertReachesIndexed
<1>10. CASE Publish(s)
  <2>1. sess[s].job \in Jobs /\ AboutToPublish(sess[s].job)
    BY <1>10, <1>1 DEF Publish, AboutToPublish
  <2>2. \A k \in Jobs : k # sess[s].job => job'[k] = job[k] /\ version'[k] = version[k]
    BY <1>10, <1>1 DEF Publish, Commit, TypeOK
  <2>3. OnlyPublishMakesReady
    BY <2>1, <2>2 DEF OnlyPublishMakesReady
  <2> QED BY <1>10, <2>3, QuietFinish, QuietIndex DEF Publish
<1>11. CASE CallFails(s)
  BY <1>11, <1>1, <1>p, QuietContinue, QuietRows, QuietIndex DEF CallFails, Raise, db
<1>12. CASE InputRefused(s)
  BY <1>12, <1>1, <1>p, QuietContinue, QuietRows, QuietIndex DEF InputRefused, Raise, db
<1>13. ASSUME NEW ordinals, UpsertFails(s, ordinals)
       PROVE  StepFacts
  <2>1. IndexGrows
    BY <1>13, BulkWriteGrows DEF UpsertFails
  <2>2. PICK pc \in {"raised", "refused"} : Raise(s, pc)
    BY <1>13 DEF UpsertFails
  <2>3. OnlyUpsertReachesIndexed
    BY <2>2, <1>1, <1>p, QuietContinue DEF Raise
  <2> QED BY <1>13, <2>1, <2>3, QuietRows DEF UpsertFails
<1>14. CASE MarkRetrying(s)
  <2> DEFINE row == [v EXCEPT !.status = "RETRY_WAITING", !.error = "INGESTION_RETRYABLE"]
  <2>1. row \in Row /\ row.status # "READY"
    BY <1>1 DEF Row, Status, Errors
  <2> HIDE DEF row
  <2>2. \A k \in Jobs : [Flush(job[k], v, row) EXCEPT !.retryAt = "future"].status
                          \in {job[k].status, row.status}
    <3> TAKE k \in Jobs
    <3>1. Flush(job[k], v, row) \in Row /\ Flush(job[k], v, row).status \in {job[k].status, row.status}
      BY <1>1, <2>1, FlushType, FlushStatus DEF TypeOK
    <3> QED BY <3>1 DEF Row
  <2>3. /\ job' = [job EXCEPT ![sess[s].job] =
                     [Flush(job[sess[s].job], v, row) EXCEPT !.retryAt = "future"]]
        /\ sess[s].job \in Jobs /\ version' = version
    BY <1>14, <1>1 DEF MarkRetrying, row, TypeOK
  <2>4. OnlyPublishMakesReady
    BY <2>1, <2>2, <2>3, <1>1 DEF TypeOK, OnlyPublishMakesReady
  <2> QED BY <1>14, <2>4, QuietFinish, QuietIndex DEF MarkRetrying
<1>15. CASE MarkFailed(s)
  <2> DEFINE row == [v EXCEPT !.status = "FAILED", !.error = "INGESTION_FAILED"]
  <2>1. row \in Row /\ row.status # "READY"
    BY <1>1 DEF Row, Status, Errors
  <2> HIDE DEF row
  <2>2. Commit(s, row, "FAILED") /\ Finish(s) /\ UNCHANGED index
    BY <1>15 DEF MarkFailed, row
  <2> QED BY <2>1, <2>2, <1>p, QuietCommit, QuietFinish, QuietIndex
<1> QED BY <1>2, <1>3, <1>4, <1>5, <1>6, <1>7, <1>8, <1>9, <1>10, <1>11, <1>12, <1>13,
           <1>14, <1>15 DEF Process

LEMMA OperateFacts ==
  ASSUME TInv, NEW s \in Sessions, Operate(s)
  PROVE  StepFacts
<1> DEFINE v == sess[s].view
<1> USE DEF StepFacts
<1>1. /\ v \in Row /\ sess[s].seen \in VersionStatus /\ TypeOK
      /\ {"loaded", "retry", "reindex"} \subseteq PCs \ {"indexed"}
      /\ "PENDING" \in VersionStatus
  BY DEF TInv, TypeOK, Session, PCs, VersionStatus
<1>2. ASSUME NEW j \in Jobs, NEW pc \in PCs \ {"indexed"}, NEW ver \in VersionStatus,
             Open(s, pc, j, job[j], ver), UNCHANGED db
      PROVE  StepFacts
  <2>1. job[j] \in Row
    BY <1>1 DEF TypeOK
  <2> QED BY <1>2, <2>1, QuietOpen, QuietRows, QuietIndex DEF db
<1>3. ASSUME NEW j \in Jobs, OpenById(s, j)
      PROVE  StepFacts
  BY <1>3, <1>1, <1>2 DEF OpenById, db
<1>4. ASSUME NEW j \in Jobs, NEW pc \in {"retry", "reindex"}, LoadForReset(s, j, pc)
      PROVE  StepFacts
  <2>1. version[j] \in VersionStatus
    BY <1>1 DEF TypeOK
  <2> QED BY <1>4, <2>1, <1>1, <1>2 DEF LoadForReset, db
<1>5. CASE ResetForRetry(s)
  <2> DEFINE row == [v EXCEPT !.status = "RETRY_WAITING", !.retryAt = "null", !.error = "NONE"]
  <2>1. row \in Row /\ row.status # "READY"
    BY <1>1 DEF Row, Status, Errors, RetryTimes
  <2> HIDE DEF row
  <2>2. Commit(s, row, sess[s].seen) /\ Finish(s) /\ UNCHANGED index
    BY <1>5 DEF ResetForRetry, row
  <2> QED BY <2>1, <2>2, <1>1, QuietCommit, QuietFinish, QuietIndex
<1>6. CASE ResetForReindex(s)
  <2> DEFINE row == [v EXCEPT !.status = "RETRY_WAITING", !.stage = "PARSING",
                              !.attempts = 0, !.leased = FALSE, !.retryAt = "null",
                              !.error = "NONE"]
  <2>1. row \in Row /\ row.status # "READY"
    BY <1>1 DEF Row, Status, Stages, InFlight, Errors, RetryTimes
  <2> HIDE DEF row
  <2>2. Commit(s, row, "PENDING") /\ Finish(s) /\ UNCHANGED index
    BY <1>6 DEF ResetForReindex, row
  <2> QED BY <2>1, <2>2, <1>1, QuietCommit, QuietFinish, QuietIndex
<1> QED BY <1>3, <1>4, <1>5, <1>6 DEF Operate

LEMMA NextFacts ==
  ASSUME TInv, [Next]_vars
  PROVE  StepFacts
<1> USE DEF StepFacts
<1>0. TypeOK /\ Absent \in Row /\ "PENDING" \in VersionStatus
      /\ {"loaded", "queued"} \subseteq PCs \ {"indexed"}
  BY IdleType DEF TInv, VersionStatus, PCs
<1>q. ASSUME UNCHANGED sess PROVE OnlyUpsertReachesIndexed
  BY <1>q DEF OnlyUpsertReachesIndexed
<1>1. ASSUME NEW j \in Jobs, Upload(j)
      PROVE  StepFacts
  <2> DEFINE row == [Absent EXCEPT !.status = "PENDING", !.created = uploads']
  <2>1. row.status # "READY"
    BY DEF Absent
  <2> HIDE DEF row
  <2>2. job' = [job EXCEPT ![j] = row] /\ UNCHANGED <<version, index, sess>>
    BY <1>1 DEF Upload, row
  <2> QED BY <2>1, <2>2, <1>0, <1>q, QuietIndex DEF TypeOK, OnlyPublishMakesReady
<1>2. ASSUME NEW j \in Jobs, BackoffElapses(j)
      PROVE  StepFacts
  <2>1. [job[j] EXCEPT !.retryAt = "past"].status = job[j].status
    BY <1>0 DEF TypeOK, Row
  <2>2. /\ job' = [job EXCEPT ![j] = [job[j] EXCEPT !.retryAt = "past"]]
        /\ UNCHANGED <<version, index, sess>>
    BY <1>2 DEF BackoffElapses
  <2> QED BY <2>1, <2>2, <1>0, <1>q, QuietIndex DEF TypeOK, OnlyPublishMakesReady
<1>3. ASSUME NEW s \in Sessions, Claim(s)
      PROVE  StepFacts
  <2>1. PICK j \in Jobs : Lease(j) /\ Open(s, "loaded", j, [job[j] EXCEPT !.leased = TRUE], "PENDING")
    BY <1>3 DEF Claim
  <2>2. [job[j] EXCEPT !.leased = TRUE] \in Row
    BY <2>1, <1>0, LeaseType
  <2>3. OnlyUpsertReachesIndexed
    BY <2>1, <2>2, <1>0, QuietOpen
  <2> QED BY <1>3, <2>1, <2>3, QuietLease, QuietIndex DEF Claim
<1>4. ASSUME NEW s \in Sessions, NEW kb \in KBs, ClaimForKB(s, kb)
      PROVE  StepFacts
  <2>1. PICK j \in Jobs : Lease(j) /\ Open(s, "queued", j, Absent, "PENDING")
    BY <1>4 DEF ClaimForKB
  <2>2. OnlyUpsertReachesIndexed
    BY <2>1, <1>0, QuietOpen
  <2> QED BY <1>4, <2>1, <2>2, QuietLease, QuietIndex DEF ClaimForKB
<1>5. ASSUME NEW s \in Sessions, Abandon(s)
      PROVE  StepFacts
  BY <1>5, QuietFinish, QuietRows, QuietIndex DEF Abandon, db
<1>6. CASE UNCHANGED vars
  BY <1>6, <1>q, QuietRows, QuietIndex DEF vars
<1> QED BY <1>1, <1>2, <1>3, <1>4, <1>5, <1>6, ProcessFacts, OperateFacts DEF Next

LEMMA NextSearchable == IInv /\ [Next]_vars => IInv'
<1> SUFFICES ASSUME IInv, [Next]_vars PROVE IInv'
  OBVIOUS
<1>1. TInv /\ TInv' /\ StepFacts
  BY NextType, NextFacts DEF IInv, TInv
<1>2. UpsertIsComplete'
  <2> SUFFICES ASSUME NEW t \in Sessions, sess'[t].pc = "indexed",
                      NEW o \in Drafts[sess'[t].job][sess'[t].config]
               PROVE  index'[sess'[t].job][o] # NoConfig
    BY DEF UpsertIsComplete
  <2>1. sess'[t].job \in Jobs /\ sess'[t].config \in Configs /\ o \in Ordinals
    BY <1>1, ConstantsAssumption DEF TInv, SessionsWellFormed, Chunked
  <2>2. CASE sess'[t] = sess[t]
    BY <2>1, <2>2, <1>1 DEF IInv, UpsertIsComplete, StepFacts, IndexGrows
  <2>3. CASE Upsert(t)
    <3>1. sess[t].pc = "indexing" /\ BulkWrite(t, Drafts[sess[t].job][sess[t].config])
      BY <2>3 DEF Upsert
    <3>2. sess'[t].job = sess[t].job /\ sess'[t].config = sess[t].config
      BY <2>3, <1>1 DEF Upsert, Continue, TInv, TypeOK, Session
    <3> QED BY <3>1, <3>2, <2>1, <1>1, BulkWriteGrows
  <2> QED BY <2>2, <2>3, <1>1 DEF StepFacts, OnlyUpsertReachesIndexed
<1>3. ReadyIsSearchable'
  <2> SUFFICES ASSUME NEW j \in Jobs, job'[j].status = "READY" \/ version'[j] = "READY"
               PROVE  \E c \in Configs : Drafts[j][c] # {} /\ \A o \in Drafts[j][c] : index'[j][o] # NoConfig
    BY DEF ReadyIsSearchable
  <2>1. PICK c \in Configs : Drafts[j][c] # {} /\ \A o \in Drafts[j][c] : index[j][o] # NoConfig
    <3>1. CASE job[j].status = "READY" \/ version[j] = "READY"
      BY <3>1 DEF IInv, ReadyIsSearchable
    <3>2. CASE AboutToPublish(j)
      BY <3>2 DEF AboutToPublish, IInv, SessionsWellFormed, UpsertIsComplete, Chunked
    <3> QED BY <3>1, <3>2, <1>1 DEF StepFacts, OnlyPublishMakesReady
  <2>2. Drafts[j][c] \subseteq Ordinals
    BY ConstantsAssumption
  <2> QED BY <2>1, <2>2, <1>1 DEF StepFacts, IndexGrows
<1> QED BY <1>1, <1>2, <1>3 DEF IInv, TInv

(* Whatever sessions overlap, die or are reset, and however chunk settings
   change, READY is never reported for a document with a chunk missing from the
   index. *)
THEOREM ReadyImpliesSearchable == Spec => []ReadyIsSearchable
<1>1. Init => IInv
  <2> SUFFICES ASSUME Init PROVE IInv
    OBVIOUS
  <2>1. TInv
    BY InitType
  <2>2. UpsertIsComplete /\ ReadyIsSearchable
    BY DEF Init, Idle, Absent, UpsertIsComplete, ReadyIsSearchable
  <2> QED BY <2>1, <2>2 DEF IInv, TInv
<1>2. IInv /\ [Next]_vars => IInv'
  BY NextSearchable
<1>3. IInv => ReadyIsSearchable
  BY DEF IInv
<1> QED BY <1>1, <1>2, <1>3, PTL DEF Spec

-----------------------------------------------------------------------------
(* IndexedHasRow, for a single chunk setting c.  The rows of a version, once they are
   there, are those of all its drafts, and a session past Chunk has written them. *)

RowsInv(c) ==
  /\ \A j \in Jobs, o \in Ordinals : chunks[j][o] # NoConfig => o \in Drafts[j][c]
  /\ \A j \in Jobs, o \in Ordinals : index[j][o] # NoConfig => index[j][o] = c /\ chunks[j][o] = c
  /\ \A s \in Sessions : sess[s].pc \in Chunked =>
       \A o \in Drafts[sess[s].job][c] : chunks[sess[s].job][o] = c

(* What any step does to the index, the rows and the sessions past Chunk. *)
IndexStep ==
  index' = index \/ \E t \in Sessions : \E ordinals \in SUBSET Drafts[sess[t].job][sess[t].config] :
                      sess[t].pc = "indexing" /\ BulkWrite(t, ordinals)

KeepsChunks(t) ==
  sess'[t].pc \in Chunked =>
    sess[t].pc \in Chunked /\ sess'[t].job = sess[t].job /\ sess'[t].config = sess[t].config

RowsStep ==
  \/ chunks' = chunks /\ IndexStep /\ \A t \in Sessions : KeepsChunks(t)
  \/ \E t \in Sessions, c \in Configs : Chunk(t, c)

LEMMA KeepingSession ==
  ASSUME TInv, NEW s \in Sessions, NEW r, sess' = [sess EXCEPT ![s] = r],
         r.pc \in Chunked => sess[s].pc \in Chunked /\ r.job = sess[s].job /\ r.config = sess[s].config
  PROVE  \A t \in Sessions : KeepsChunks(t)
BY DEF KeepsChunks, TInv, TypeOK

LEMMA KeepingFinish ==
  ASSUME TInv, NEW s \in Sessions, Finish(s)
  PROVE  \A t \in Sessions : KeepsChunks(t)
<1>1. Idle.pc \notin Chunked
  BY DEF Idle, Chunked
<1> QED BY <1>1, KeepingSession DEF Finish

LEMMA KeepingOpen ==
  ASSUME TInv, NEW s \in Sessions, NEW pc \in PCs \ Chunked, NEW j, NEW row, NEW ver, Open(s, pc, j, row, ver)
  PROVE  \A t \in Sessions : KeepsChunks(t)
<1> DEFINE next == [Idle EXCEPT !.pc = pc, !.job = j, !.view = row, !.seen = ver]
<1>1. next.pc = pc /\ sess' = [sess EXCEPT ![s] = next]
  BY DEF Open, Idle
<1> HIDE DEF next
<1> QED BY <1>1, KeepingSession

LEMMA KeepingContinue ==
  ASSUME TInv, NEW s \in Sessions, NEW pc \in PCs, NEW row, NEW ver, Continue(s, pc, row, ver),
         pc \in Chunked => sess[s].pc \in Chunked
  PROVE  \A t \in Sessions : KeepsChunks(t)
<1> DEFINE next == [sess[s] EXCEPT !.pc = pc, !.view = row, !.seen = ver]
<1>1. /\ next.pc = pc /\ next.job = sess[s].job /\ next.config = sess[s].config
      /\ sess' = [sess EXCEPT ![s] = next]
  BY DEF Continue, TInv, TypeOK, Session
<1> HIDE DEF next
<1> QED BY <1>1, KeepingSession

LEMMA ProcessRows ==
  ASSUME TInv, NEW s \in Sessions, Process(s)
  PROVE  RowsStep
<1>p. /\ {"loaded", "started", "parsing", "chunking", "raised", "refused"} \subseteq PCs \ Chunked
      /\ {"embedding", "indexing", "indexed"} = Chunked /\ Chunked \subseteq PCs
  BY DEF PCs, Chunked
<1>i. ASSUME index' = index PROVE IndexStep
  BY <1>i DEF IndexStep
<1>1. CASE Load(s)
  BY <1>1, <1>p, <1>i, KeepingContinue DEF Load, RowsStep, db
<1>2. CASE ReturnTerminal(s) \/ Publish(s) \/ MarkRetrying(s) \/ MarkFailed(s)
  BY <1>2, <1>i, KeepingFinish DEF ReturnTerminal, Publish, MarkRetrying, MarkFailed, RowsStep, db
<1>3. CASE Start(s)
  BY <1>3, <1>p, <1>i, KeepingContinue DEF Start, RowsStep
<1>4. CASE ReadVersion(s)
  BY <1>4, <1>p, <1>i, KeepingContinue DEF ReadVersion, RowsStep, db
<1>5. CASE Parse(s)
  BY <1>5, <1>p, <1>i, KeepingContinue DEF Parse, RowsStep
<1>6. ASSUME NEW c \in Configs, Chunk(s, c) PROVE RowsStep
  BY <1>6 DEF RowsStep
<1>7. CASE Embed(s)
  BY <1>7, <1>p, <1>i, KeepingContinue DEF Embed, RowsStep
<1>8. CASE Upsert(s)
  <2>1. IndexStep
    BY <1>8 DEF Upsert, IndexStep
  <2> QED BY <1>8, <2>1, <1>p, KeepingContinue DEF Upsert, RowsStep
<1>9. CASE CallFails(s)
  BY <1>9, <1>p, <1>i, KeepingContinue DEF CallFails, Raise, RowsStep, db
<1>10. CASE InputRefused(s)
  BY <1>10, <1>p, <1>i, KeepingContinue DEF InputRefused, Raise, RowsStep, db
<1>11. ASSUME NEW ordinals, UpsertFails(s, ordinals) PROVE RowsStep
  <2>1. IndexStep
    BY <1>11 DEF UpsertFails, IndexStep
  <2> QED BY <1>11, <2>1, <1>p, KeepingContinue DEF UpsertFails, Raise, RowsStep
<1> QED BY <1>1, <1>2, <1>3, <1>4, <1>5, <1>6, <1>7, <1>8, <1>9, <1>10, <1>11 DEF Process

LEMMA NextRows ==
  ASSUME TInv, [Next]_vars
  PROVE  RowsStep
<1>p. {"loaded", "queued", "retry", "reindex"} \subseteq PCs \ Chunked
  BY DEF PCs, Chunked
<1>i. ASSUME index' = index PROVE IndexStep
  BY <1>i DEF IndexStep
<1>1. ASSUME UNCHANGED <<chunks, index, sess>> PROVE RowsStep
  BY <1>1, <1>i DEF RowsStep, KeepsChunks
<1>2. ASSUME NEW j \in Jobs, Upload(j) \/ BackoffElapses(j) PROVE RowsStep
  BY <1>1, <1>2 DEF Upload, BackoffElapses
<1>3. ASSUME NEW s \in Sessions, Claim(s) PROVE RowsStep
  BY <1>3, <1>p, <1>i, KeepingOpen DEF Claim, RowsStep
<1>4. ASSUME NEW s \in Sessions, NEW kb \in KBs, ClaimForKB(s, kb) PROVE RowsStep
  BY <1>4, <1>p, <1>i, KeepingOpen DEF ClaimForKB, RowsStep
<1>5. ASSUME NEW s \in Sessions, Operate(s) PROVE RowsStep
  <2>1. ASSUME NEW j \in Jobs, OpenById(s, j) PROVE RowsStep
    BY <2>1, <1>p, <1>i, KeepingOpen DEF OpenById, RowsStep, db
  <2>2. ASSUME NEW j \in Jobs, NEW pc \in {"retry", "reindex"}, LoadForReset(s, j, pc) PROVE RowsStep
    BY <2>2, <1>p, <1>i, KeepingOpen DEF LoadForReset, RowsStep, db
  <2>3. CASE ResetForRetry(s) \/ ResetForReindex(s)
    BY <2>3, <1>i, KeepingFinish DEF ResetForRetry, ResetForReindex, RowsStep
  <2> QED BY <1>5, <2>1, <2>2, <2>3 DEF Operate
<1>6. ASSUME NEW s \in Sessions, Abandon(s) PROVE RowsStep
  BY <1>6, <1>i, KeepingFinish DEF Abandon, RowsStep, db
<1>7. CASE UNCHANGED vars
  BY <1>1, <1>7 DEF vars
<1> QED BY <1>2, <1>3, <1>4, <1>5, <1>6, <1>7, ProcessRows DEF Next

LEMMA NextRowsInv ==
  ASSUME NEW c, Configs = {c}, TInv, RowsInv(c), [Next]_vars
  PROVE  RowsInv(c)'
<1>1. TInv'
  BY NextType
<1>2. /\ TypeOK /\ TypeOK' /\ SessionsWellFormed /\ SessionsWellFormed' /\ c # NoConfig
      /\ \A j \in Jobs : Drafts[j][c] \subseteq Ordinals
  BY <1>1, ConstantsAssumption DEF TInv
<1>3. CASE chunks' = chunks /\ IndexStep /\ \A t \in Sessions : KeepsChunks(t)
  <2>1. \A s \in Sessions : sess'[s].pc \in Chunked =>
          \A o \in Drafts[sess'[s].job][c] : chunks'[sess'[s].job][o] = c
    BY <1>3 DEF RowsInv, KeepsChunks
  <2>2. ASSUME NEW j \in Jobs, NEW o \in Ordinals, index'[j][o] # NoConfig
        PROVE  index'[j][o] = c /\ chunks'[j][o] = c
    <3>1. CASE index' = index
      BY <1>3, <2>2, <3>1 DEF RowsInv
    <3>2. ASSUME NEW t \in Sessions, NEW ordinals \in SUBSET Drafts[sess[t].job][sess[t].config],
                 sess[t].pc = "indexing", BulkWrite(t, ordinals)
          PROVE  index'[j][o] = c /\ chunks'[j][o] = c
      <4>1. sess[t].job \in Jobs /\ sess[t].config = c /\ sess[t].pc \in Chunked
        BY <1>2, <3>2 DEF SessionsWellFormed, Chunked
      <4>2. index' = [index EXCEPT ![sess[t].job] = Written(index[sess[t].job], ordinals, c)]
        BY <3>2, <4>1 DEF BulkWrite
      <4>3. CASE j = sess[t].job /\ o \in ordinals
        BY <1>2, <1>3, <4>1, <4>2, <4>3 DEF RowsInv, Written, TypeOK
      <4>4. CASE ~(j = sess[t].job /\ o \in ordinals)
        <5>1. index'[j][o] = index[j][o]
          BY <1>2, <4>1, <4>2, <4>4 DEF Written, TypeOK
        <5> QED BY <1>3, <2>2, <5>1 DEF RowsInv
      <4> QED BY <4>3, <4>4
    <3> QED BY <1>3, <3>1, <3>2 DEF IndexStep
  <2> QED BY <1>3, <2>1, <2>2 DEF RowsInv
<1>4. ASSUME NEW s \in Sessions, Chunk(s, c)
      PROVE  RowsInv(c)'
  <2> DEFINE j == sess[s].job
             rows == Written(Nothing, Drafts[j][c], c)
  <2>1. /\ j \in Jobs /\ index' = index /\ chunks' = [chunks EXCEPT ![j] = rows]
        /\ sess' = [sess EXCEPT ![s] = [@ EXCEPT !.pc = "embedding",
                                                  !.view = InStage(sess[s].view, "EMBEDDING"), !.config = c]]
    BY <1>2, <1>4 DEF Chunk, SessionsWellFormed
  <2>2. \A o \in Ordinals : rows[o] = IF o \in Drafts[j][c] THEN c ELSE NoConfig
    BY DEF Written, Nothing
  <2> HIDE DEF rows
  <2>3. \A k \in Jobs : chunks'[k] = IF k = j THEN rows ELSE chunks[k]
    BY <1>2, <2>1 DEF TypeOK
  <2>4. /\ sess'[s].job = j
        /\ \A t \in Sessions : t # s => sess'[t] = sess[t]
    BY <1>2, <2>1 DEF TypeOK, Session
  <2>5. \A k \in Jobs, o \in Ordinals : chunks'[k][o] # NoConfig => o \in Drafts[k][c]
    BY <2>2, <2>3 DEF RowsInv
  <2>6. \A k \in Jobs, o \in Ordinals : index'[k][o] # NoConfig => index'[k][o] = c /\ chunks'[k][o] = c
    BY <1>2, <2>1, <2>2, <2>3 DEF RowsInv
  <2>7. ASSUME NEW t \in Sessions, sess'[t].pc \in Chunked, NEW o \in Drafts[sess'[t].job][c]
        PROVE  chunks'[sess'[t].job][o] = c
    <3>1. sess'[t].job \in Jobs /\ o \in Ordinals
      BY <1>2, <2>7 DEF SessionsWellFormed, Chunked
    <3>2. CASE sess'[t].job = j
      BY <2>2, <2>3, <2>7, <3>1, <3>2
    <3>3. CASE sess'[t].job # j
      BY <2>3, <2>4, <2>7, <3>1, <3>3 DEF RowsInv
    <3> QED BY <3>2, <3>3
  <2> QED BY <2>5, <2>6, <2>7 DEF RowsInv
<1> QED BY <1>3, <1>4, NextRows DEF RowsStep

(* With a single chunk setting, whatever the sessions do, every document of the index
   is backed by a chunk row of the same version. *)
THEOREM IndexedAlwaysHasRow ==
  ASSUME NEW c, Configs = {c}
  PROVE  Spec => []IndexedHasRow
<1>1. Init => TInv /\ RowsInv(c)
  <2> SUFFICES ASSUME Init PROVE RowsInv(c)
    BY InitType
  <2> QED BY DEF Init, Idle, Nothing, Chunked, RowsInv
<1>2. TInv /\ RowsInv(c) /\ [Next]_vars => (TInv /\ RowsInv(c))'
  BY NextType, NextRowsInv
<1>3. RowsInv(c) => IndexedHasRow
  BY DEF RowsInv, IndexedHasRow
<1> QED BY <1>1, <1>2, <1>3, PTL DEF Spec

-----------------------------------------------------------------------------
(* A single session, as in the worker loop of an installation that nobody operates
   meanwhile: what it has read of its job is what the rows still say. *)

Matches(view, row) ==
  view.status = row.status /\ view.attempts = row.attempts /\ view.error = row.error

(* Where a session can be with a job of this status. *)
Position(pc, status) ==
  /\ pc \in {"queued", "loaded"} => status # "ABSENT"
  /\ pc \in {"started", "parsing"} => status = "PARSING"
  /\ pc = "chunking" => status = "CHUNKING"
  /\ pc = "embedding" => status = "EMBEDDING"
  /\ pc \in {"indexing", "indexed"} => status = "INDEXING"
  /\ pc \in {"raised", "refused"} => status \in InFlight
  /\ pc = "retry" => status = "FAILED"
  /\ pc = "reindex" => status \in {"READY", "FAILED", "RETRY_WAITING"}

Attempting == Chunked \cup {"started", "parsing", "chunking", "raised", "refused"}
HasReadVersion == (Attempting \ {"started"}) \cup {"retry", "reindex"}

SessionInv(s) ==
  LET j == sess[s].job IN
  /\ sess[s].pc # "idle" => Position(sess[s].pc, job[j].status)
  /\ sess[s].pc \notin {"idle", "queued"} => Matches(sess[s].view, job[j])
  /\ sess[s].pc \in Attempting => job[j].attempts > 0
  /\ sess[s].pc \in HasReadVersion => sess[s].seen = version[j]
  /\ sess[s].pc \in Chunked => Holds(chunks[j], j, sess[s].config)
  /\ sess[s].pc = "indexed" => Holds(index[j], j, sess[s].config)

(* A job nobody uploaded has no attempts. *)
AbsentIsUntried == \A j \in Jobs : job[j].status = "ABSENT" => job[j].attempts = 0

SerialInv(s) == SessionInv(s) /\ ReadyIsConsistent /\ FailureIsExplained /\ AbsentIsUntried

-----------------------------------------------------------------------------
(* The rows of one job, and what a step that touches only this one has to keep. *)

JobInv(j) ==
  /\ job[j].status = "READY" =>
       /\ \E c \in Configs : Holds(chunks[j], j, c) /\ Holds(index[j], j, c)
       /\ version[j] = "READY" /\ job[j].error = "NONE"
  /\ job[j].status = "FAILED" =>
       version[j] = "FAILED" /\ job[j].error # "NONE" /\ job[j].attempts > 0
  /\ job[j].status = "ABSENT" => job[j].attempts = 0

(* Every other job keeps its rows and its documents. *)
Only(j) == \A k \in Jobs \ {j} : /\ job'[k] = job[k] /\ version'[k] = version[k]
                                 /\ chunks'[k] = chunks[k] /\ index'[k] = index[k]

(* Job j gets this status, this number of attempts and this error. *)
Becomes(j, status, attempts, error) ==
  /\ job'[j].status = status /\ job'[j].attempts = attempts /\ job'[j].error = error
  /\ \A k \in Jobs \ {j} : job'[k] = job[k]

LEMMA EachJob == ReadyIsConsistent /\ FailureIsExplained /\ AbsentIsUntried <=> \A j \in Jobs : JobInv(j)
BY DEF ReadyIsConsistent, FailureIsExplained, AbsentIsUntried, JobInv

LEMMA OnlyOneJob ==
  ASSUME NEW s, SerialInv(s), NEW j \in Jobs, Only(j), JobInv(j)', SessionInv(s)'
  PROVE  SerialInv(s)'
<1>1. \A k \in Jobs : JobInv(k)
  BY EachJob DEF SerialInv
<1>2. \A k \in Jobs : JobInv(k)'
  <2>1. ASSUME NEW k \in Jobs, k # j PROVE JobInv(k)'
    BY <1>1, <2>1 DEF Only, JobInv, Holds
  <2> QED BY <2>1
<1>3. (ReadyIsConsistent /\ FailureIsExplained /\ AbsentIsUntried)'
  BY <1>2 DEF ReadyIsConsistent, FailureIsExplained, AbsentIsUntried, JobInv
<1> QED BY <1>3 DEF SerialInv

(* A session whose view matches its job's row commits what it means to. *)
LEMMA SerialCommit ==
  ASSUME TInv, NEW s \in Sessions, NEW row \in Row, NEW ver \in VersionStatus,
         Commit(s, row, ver), sess[s].pc # "idle", Matches(sess[s].view, job[sess[s].job])
  PROVE  /\ Becomes(sess[s].job, row.status, row.attempts, row.error)
         /\ sess[s].seen = version[sess[s].job] => version'[sess[s].job] = ver
         /\ ver = sess[s].seen => version' = version
         /\ \A k \in Jobs \ {sess[s].job} : version'[k] = version[k]
<1> DEFINE j == sess[s].job
           new == Flush(job[j], sess[s].view, row)
<1>1. /\ j \in Jobs /\ sess[s].view \in Row /\ job \in [Jobs -> Row]
      /\ version \in [Jobs -> VersionStatus]
  BY DEF TInv, TypeOK, Session, SessionsWellFormed
<1>2. new.status = row.status /\ new.attempts = row.attempts /\ new.error = row.error
  BY DEF Flush, Dirty, Matches
<1>3. job' = [job EXCEPT ![j] = new]
  BY <1>1 DEF Commit
<1> HIDE DEF new
<1>4. Becomes(j, row.status, row.attempts, row.error)
  BY <1>1, <1>2, <1>3 DEF Becomes
<1>5. version' = [version EXCEPT ![j] = Dirty(sess[s].seen, ver, version[j])]
  BY <1>1 DEF Commit
<1>6. /\ sess[s].seen = version[j] => version'[j] = ver
      /\ ver = sess[s].seen => version' = version
      /\ \A k \in Jobs \ {j} : version'[k] = version[k]
  BY <1>1, <1>5 DEF Dirty
<1> QED BY <1>4, <1>6

LEMMA IdleInv ==
  ASSUME TInv, NEW s \in Sessions, Finish(s)
  PROVE  SessionInv(s)'
<1>1. sess'[s].pc = "idle"
  BY DEF TInv, TypeOK, Finish, Idle
<1> QED BY <1>1 DEF SessionInv, Attempting, HasReadVersion, Chunked

LEMMA ContinueFields ==
  ASSUME TInv, NEW s \in Sessions, NEW pc, NEW row, NEW ver, Continue(s, pc, row, ver)
  PROVE  /\ sess'[s].pc = pc /\ sess'[s].job = sess[s].job /\ sess'[s].view = row
         /\ sess'[s].seen = ver /\ sess'[s].config = sess[s].config
BY DEF TInv, TypeOK, Session, Continue

LEMMA OpenFields ==
  ASSUME TInv, NEW s \in Sessions, NEW pc, NEW j, NEW row, NEW ver, Open(s, pc, j, row, ver)
  PROVE  sess'[s].pc = pc /\ sess'[s].job = j /\ sess'[s].view = row /\ sess'[s].seen = ver
BY DEF TInv, TypeOK, Session, Open, Idle

(* What the abstract job sees of a step. *)
LEMMA Abstracted ==
  ASSUME TypeOK, TypeOK', NEW j \in Jobs, NEW st, NEW at, NEW er, Becomes(j, st, at, er)
  PROVE  /\ [k \in Jobs |-> job[k].status]' = [[k \in Jobs |-> job[k].status] EXCEPT ![j] = st]
         /\ [k \in Jobs |-> job[k].attempts]' = [[k \in Jobs |-> job[k].attempts] EXCEPT ![j] = at]
BY DEF Becomes, TypeOK

LEMMA MovesTo ==
  ASSUME TypeOK, TypeOK', NEW j \in Jobs, NEW st, NEW at, NEW er, Becomes(j, st, at, er),
         NEW from, job[j].status \in from
  PROVE  /\ Lifecycle!Moves(j, from, st)
         /\ [k \in Jobs |-> job[k].attempts]' = [[k \in Jobs |-> job[k].attempts] EXCEPT ![j] = at]
         /\ at = job[j].attempts => UNCHANGED [k \in Jobs |-> job[k].attempts]
<1>1. [k \in Jobs |-> job[k].attempts]' = [[k \in Jobs |-> job[k].attempts] EXCEPT ![j] = at]
  BY Abstracted
<1>2. at = job[j].attempts => [[k \in Jobs |-> job[k].attempts] EXCEPT ![j] = at] = [k \in Jobs |-> job[k].attempts]
  OBVIOUS
<1>3. Lifecycle!Moves(j, from, st)
  BY Abstracted DEF Lifecycle!Moves
<1> QED BY <1>1, <1>2, <1>3

(* The status, the attempts and the error of every job stay as they are. *)
Stutters == \A k \in Jobs : Matches(job'[k], job[k])

LEMMA StuttersAbstracted ==
  ASSUME Stutters
  PROVE  [Lifecycle!Next]_(Lifecycle!vars)
BY DEF Stutters, Matches, Lifecycle!vars

LEMMA StuttersInv ==
  ASSUME NEW s, SerialInv(s), Stutters, UNCHANGED <<version, chunks>>,
         \A k \in Jobs : index'[k] = index[k] \/ job[k].status = "INDEXING",
         SessionInv(s)'
  PROVE  SerialInv(s)'
<1>1. ReadyIsConsistent'
  BY DEF SerialInv, SessionInv, Position, ReadyIsConsistent, Stutters, Matches, Holds
<1>2. FailureIsExplained' /\ AbsentIsUntried'
  BY DEF SerialInv, FailureIsExplained, AbsentIsUntried, Stutters, Matches
<1> QED BY <1>1, <1>2 DEF SerialInv

SerialStep(s) == SerialInv(s)' /\ [Lifecycle!Next]_(Lifecycle!vars)

(* What the session of a serial installation knows of its job. *)
LEMMA Knows ==
  ASSUME TInv, NEW s \in Sessions, SerialInv(s), sess[s].pc # "idle"
  PROVE  /\ TypeOK /\ sess[s].job \in Jobs /\ sess[s].view \in Row /\ sess[s].seen \in VersionStatus
         /\ job[sess[s].job] \in Row /\ version[sess[s].job] \in VersionStatus
         /\ Position(sess[s].pc, job[sess[s].job].status)
         /\ sess[s].pc # "queued" => Matches(sess[s].view, job[sess[s].job])
BY DEF TInv, TypeOK, SerialInv, SessionInv, SessionsWellFormed, Session

LEMMA SerialFinish ==
  ASSUME TInv, NEW s \in Sessions, SerialInv(s), Finish(s), UNCHANGED db
  PROVE  SerialStep(s)
<1>1. SessionInv(s)'
  BY IdleInv
<1>2. Stutters
  BY DEF db, Stutters, Matches
<1> QED BY <1>1, <1>2, StuttersInv, StuttersAbstracted DEF db, SerialStep

LEMMA SerialBackoff ==
  ASSUME TInv, NEW s \in Sessions, SerialInv(s), NEW j \in Jobs, BackoffElapses(j)
  PROVE  SerialStep(s)
<1>1. Stutters
  BY DEF TInv, TypeOK, Row, BackoffElapses, Stutters, Matches
<1>2. SessionInv(s)'
  <2>1. sess[s].pc # "idle" => Matches(job'[sess[s].job], job[sess[s].job])
    BY <1>1 DEF Stutters, TInv, SessionsWellFormed
  <2>2. UNCHANGED <<version, chunks, index, sess>>
    BY DEF BackoffElapses
  <2> QED BY <2>1, <2>2 DEF SerialInv, SessionInv, Matches, Attempting, HasReadVersion, Chunked
<1> QED BY <1>1, <1>2, StuttersInv, StuttersAbstracted DEF BackoffElapses, SerialStep

(* Any step that opens a job for s. *)
LEMMA SerialOpen ==
  ASSUME TInv, NEW s \in Sessions, SerialInv(s), NEW j \in Jobs, NEW pc \in {"queued", "loaded", "retry", "reindex"},
         NEW row, NEW ver, Open(s, pc, j, row, ver), Stutters, UNCHANGED <<version, chunks, index>>,
         pc # "queued" => Matches(row, job[j]), Position(pc, job[j].status),
         pc \in {"retry", "reindex"} => ver = version[j]
  PROVE  SerialStep(s)
<1>1. /\ sess'[s].pc = pc /\ sess'[s].job = j /\ sess'[s].view = row /\ sess'[s].seen = ver
      /\ Matches(job'[j], job[j])
  BY OpenFields DEF Stutters
<1>2. pc \notin Attempting /\ pc \notin Chunked
  BY DEF Attempting, Chunked
<1>3. SessionInv(s)'
  BY <1>1, <1>2 DEF SessionInv, Matches, HasReadVersion
<1> QED BY <1>3, StuttersInv, StuttersAbstracted DEF SerialStep

LEMMA SerialClaim ==
  ASSUME TInv, NEW s \in Sessions, SerialInv(s), Claim(s) \/ \E kb \in KBs : ClaimForKB(s, kb)
  PROVE  SerialStep(s)
<1>1. ASSUME NEW j \in Jobs, Lease(j)
      PROVE  Stutters /\ Matches([job[j] EXCEPT !.leased = TRUE], job[j])
  BY <1>1 DEF TInv, TypeOK, Row, Lease, Stutters, Matches
<1>2. CASE Claim(s)
  <2>1. PICK j \in Jobs : /\ IsNext(j, Jobs) /\ Lease(j)
                          /\ Open(s, "loaded", j, [job[j] EXCEPT !.leased = TRUE], "PENDING")
    BY <1>2 DEF Claim
  <2>2. Position("loaded", job[j].status)
    BY <2>1 DEF IsNext, Claimable, Position
  <2> QED BY <1>1, <1>2, <2>1, <2>2, SerialOpen DEF Claim
<1>3. ASSUME NEW kb \in KBs, ClaimForKB(s, kb) PROVE SerialStep(s)
  <2>1. PICK j \in Jobs : /\ IsNext(j, {k \in Jobs : KBOf[k] = kb}) /\ Lease(j)
                          /\ Open(s, "queued", j, Absent, "PENDING")
    BY <1>3 DEF ClaimForKB
  <2>2. Position("queued", job[j].status)
    BY <2>1 DEF IsNext, Claimable, Position
  <2> QED BY <1>1, <1>3, <2>1, <2>2, SerialOpen DEF ClaimForKB
<1> QED BY <1>2, <1>3

(* Any step that only reads, or calls a store, and goes on to pc. *)
LEMMA SerialGoesOn ==
  ASSUME TInv, NEW s \in Sessions, SerialInv(s), sess[s].pc # "idle", NEW pc, NEW row, NEW ver,
         Continue(s, pc, row, ver), UNCHANGED <<job, version, chunks>>, pc \notin {"idle", "queued"},
         \A k \in Jobs : index'[k] = index[k] \/ (sess[s].pc = "indexing" /\ k = sess[s].job),
         Matches(row, job[sess[s].job]), Position(pc, job[sess[s].job].status),
         pc \in Attempting => job[sess[s].job].attempts > 0,
         pc \in HasReadVersion => ver = version[sess[s].job],
         pc \in Chunked => Holds(chunks[sess[s].job], sess[s].job, sess[s].config),
         pc = "indexed" => Holds(index'[sess[s].job], sess[s].job, sess[s].config)
  PROVE  SerialStep(s)
<1>1. /\ sess'[s].pc = pc /\ sess'[s].job = sess[s].job /\ sess'[s].view = row
      /\ sess'[s].seen = ver /\ sess'[s].config = sess[s].config
  BY ContinueFields
<1>2. SessionInv(s)'
  BY <1>1 DEF SessionInv, Attempting, HasReadVersion, Chunked, Holds
<1>3. Stutters
  BY DEF Stutters, Matches
<1>4. \A k \in Jobs : index'[k] = index[k] \/ job[k].status = "INDEXING"
  BY DEF SerialInv, SessionInv, Position
<1> QED BY <1>2, <1>3, <1>4, StuttersInv, StuttersAbstracted DEF SerialStep

(* Any step that moves job j, of a session that runs on or ends with it. *)
LEMMA SerialMove ==
  ASSUME NEW s, SerialInv(s), NEW j \in Jobs, NEW st, NEW at, NEW er, Becomes(j, st, at, er),
         \A k \in Jobs \ {j} : version'[k] = version[k], UNCHANGED index,
         \A k \in Jobs \ {j} : chunks'[k] = chunks[k],
         JobInv(j)', SessionInv(s)'
  PROVE  SerialInv(s)'
<1>1. Only(j)
  BY DEF Becomes, Only
<1> QED BY <1>1, OnlyOneJob

LEMMA SerialUpload ==
  ASSUME TInv, TInv', NEW s \in Sessions, SerialInv(s), NEW j \in Jobs, Upload(j)
  PROVE  SerialStep(s)
<1>1. Becomes(j, "PENDING", 0, "NONE") /\ UNCHANGED <<version, chunks, index, sess>>
  BY DEF Upload, Absent, Becomes, TInv, TypeOK
<1>2. JobInv(j)'
  BY <1>1 DEF Becomes, JobInv
<1>3. SessionInv(s)'
  <2>1. sess[s].pc # "idle" => sess[s].job # j /\ job'[sess[s].job] = job[sess[s].job]
    <3>1. ASSUME sess[s].pc # "idle" PROVE sess[s].job # j /\ sess[s].job \in Jobs
      <4>1. /\ sess[s].pc \in PCs /\ sess[s].job \in Jobs
            /\ Position(sess[s].pc, job[sess[s].job].status)
        BY <3>1, Knows DEF TInv, TypeOK, Session
      <4>2. job[j].status = "ABSENT"
        BY DEF Upload
      <4> QED BY <3>1, <4>1, <4>2 DEF Position, PCs, InFlight
    <3> QED BY <1>1, <3>1 DEF Becomes
  <2> QED BY <1>1, <2>1 DEF SerialInv, SessionInv, Attempting, HasReadVersion, Chunked
<1>4. SerialInv(s)'
  BY <1>1, <1>2, <1>3, SerialMove
<1>5. Lifecycle!Create(j)
  <2>1. job[j].status \in {"ABSENT"} /\ job[j].attempts = 0
    BY DEF Upload, SerialInv, AbsentIsUntried
  <2> QED BY <1>1, <2>1, MovesTo DEF Lifecycle!Create, TInv
<1> QED BY <1>4, <1>5 DEF SerialStep, Lifecycle!Next

(* Any step of the pipeline that commits row and ver and goes on to pc. *)
LEMMA SerialCommits ==
  ASSUME TInv, NEW s \in Sessions, SerialInv(s), sess[s].pc \in Attempting \cup {"loaded"},
         NEW pc \in Attempting \ {"indexed"}, NEW row \in Row, NEW ver \in VersionStatus, Commit(s, row, ver),
         sess'[s].pc = pc, sess'[s].job = sess[s].job, sess'[s].view = row, sess'[s].seen = ver,
         UNCHANGED index, \A k \in Jobs \ {sess[s].job} : chunks'[k] = chunks[k],
         Position(pc, row.status), row.status \in InFlight, row.attempts > 0,
         pc \in HasReadVersion => sess[s].pc \in HasReadVersion,
         pc \in Chunked => Holds(chunks'[sess[s].job], sess[s].job, sess'[s].config)
  PROVE  /\ SerialInv(s)'
         /\ Becomes(sess[s].job, row.status, row.attempts, row.error)
<1> DEFINE j == sess[s].job
<1>0. sess[s].pc # "idle" /\ sess[s].pc # "queued" /\ pc # "idle" /\ pc # "queued"
  BY DEF Attempting, Chunked
<1>1. j \in Jobs /\ Matches(sess[s].view, job[j])
  BY <1>0, Knows
<1>2. /\ Becomes(j, row.status, row.attempts, row.error)
      /\ sess[s].seen = version[j] => version'[j] = ver
      /\ \A k \in Jobs \ {j} : version'[k] = version[k]
  BY <1>0, <1>1, SerialCommit
<1>3. sess[s].pc \in HasReadVersion => sess[s].seen = version[j]
  BY DEF SerialInv, SessionInv
<1>4. SessionInv(s)'
  BY <1>0, <1>2, <1>3 DEF SessionInv, Becomes, Matches
<1>5. JobInv(j)'
  BY <1>2 DEF JobInv, Becomes, InFlight
<1>6. SerialInv(s)'
  BY <1>1, <1>2, <1>4, <1>5, SerialMove
<1> QED BY <1>2, <1>6

(* Any step that commits row and ver, and ends the session. *)
LEMMA SerialEnds ==
  ASSUME TInv, NEW s \in Sessions, SerialInv(s), sess[s].pc \notin {"idle", "queued"}, NEW row \in Row,
         NEW ver \in VersionStatus, Commit(s, row, ver), Finish(s), UNCHANGED <<chunks, index>>,
         row.status # "ABSENT",
         row.status \in {"READY", "FAILED"} => sess[s].pc \in HasReadVersion /\ ver = row.status,
         row.status = "READY" => sess[s].pc = "indexed" /\ row.error = "NONE",
         row.status = "FAILED" => row.error # "NONE" /\ row.attempts > 0
  PROVE  SerialInv(s)' /\ Becomes(sess[s].job, row.status, row.attempts, row.error)
<1>0. PICK j \in Jobs : j = sess[s].job
  BY Knows
<1>1. /\ j \in Jobs /\ Matches(sess[s].view, job[j])
      /\ sess[s].pc = "indexed" => sess[s].config \in Configs
  BY <1>0, Knows DEF TInv, SessionsWellFormed, Chunked
<1>2. /\ Becomes(j, row.status, row.attempts, row.error)
      /\ sess[s].seen = version[j] => version'[j] = ver
      /\ \A k \in Jobs \ {j} : version'[k] = version[k]
  BY <1>0, <1>1, SerialCommit
<1>3. /\ sess[s].pc \in HasReadVersion => sess[s].seen = version[j]
      /\ sess[s].pc = "indexed" =>
           Holds(chunks[j], j, sess[s].config) /\ Holds(index[j], j, sess[s].config)
  BY <1>0 DEF SerialInv, SessionInv, Chunked
<1>4. SessionInv(s)'
  BY IdleInv
<1>5. JobInv(j)'
  <2>1. job'[j].status = row.status /\ job'[j].attempts = row.attempts /\ job'[j].error = row.error
    BY <1>2 DEF Becomes
  <2>2. row.status \in {"READY", "FAILED"} => version'[j] = ver
    BY <1>2, <1>3
  <2>3. row.status = "READY" => \E c \in Configs : Holds(chunks'[j], j, c) /\ Holds(index'[j], j, c)
    BY <1>1, <1>3
  <2> QED BY <2>1, <2>2, <2>3 DEF JobInv
<1>6. SerialInv(s)'
  BY <1>1, <1>2, <1>4, <1>5, SerialMove
<1> QED BY <1>0, <1>2, <1>6

LEMMA SerialReads ==
  ASSUME TInv, NEW s \in Sessions, SerialInv(s),
         Load(s) \/ ReturnTerminal(s) \/ ReadVersion(s) \/ CallFails(s) \/ InputRefused(s) \/ Abandon(s)
  PROVE  SerialStep(s)
<1>1. CASE Load(s)
  <2>1. Matches(job[sess[s].job], job[sess[s].job]) /\ Position("loaded", job[sess[s].job].status)
    BY <1>1, Knows DEF Load, Position, Matches
  <2>2. "loaded" \notin Attempting \cup HasReadVersion \cup Chunked
    BY DEF Attempting, HasReadVersion, Chunked
  <2> QED BY <1>1, <2>1, <2>2, SerialGoesOn DEF Load, db
<1>2. CASE ReturnTerminal(s) \/ Abandon(s)
  BY <1>2, SerialFinish DEF ReturnTerminal, Abandon
<1>3. CASE ReadVersion(s)
  <2>1. Matches(sess[s].view, job[sess[s].job]) /\ Position("parsing", job[sess[s].job].status)
    BY <1>3, Knows DEF ReadVersion, Position
  <2>2. "parsing" \notin Chunked /\ job[sess[s].job].attempts > 0
    BY <1>3 DEF ReadVersion, SerialInv, SessionInv, Attempting, Chunked
  <2> QED BY <1>3, <2>1, <2>2, SerialGoesOn DEF ReadVersion, db
<1>4. ASSUME NEW pc \in {"raised", "refused"}, Raise(s, pc), UNCHANGED db,
             sess[s].pc \in {"parsing", "chunking", "embedding"}
      PROVE  SerialStep(s)
  <2>1. Matches(sess[s].view, job[sess[s].job]) /\ Position(pc, job[sess[s].job].status)
    BY <1>4, Knows DEF Position, InFlight
  <2>2. pc \notin Chunked /\ job[sess[s].job].attempts > 0 /\ sess[s].seen = version[sess[s].job]
    BY <1>4 DEF SerialInv, SessionInv, Attempting, HasReadVersion, Chunked
  <2> QED BY <1>4, <2>1, <2>2, SerialGoesOn DEF Raise, db
<1>5. CASE CallFails(s) \/ InputRefused(s)
  BY <1>4, <1>5 DEF CallFails, InputRefused
<1> QED BY <1>1, <1>2, <1>3, <1>5

LEMMA SerialUpserts ==
  ASSUME TInv, NEW s \in Sessions, SerialInv(s), Upsert(s) \/ \E ordinals \in SUBSET Ordinals : UpsertFails(s, ordinals)
  PROVE  SerialStep(s)
<1> DEFINE j == sess[s].job
           c == sess[s].config
<1>1. sess[s].pc = "indexing" /\ UNCHANGED <<job, version, chunks>> /\ \E ordinals : BulkWrite(s, ordinals)
  BY DEF Upsert, UpsertFails
<1>2. /\ j \in Jobs /\ c \in Configs /\ Matches(sess[s].view, job[j]) /\ job[j].status = "INDEXING"
      /\ Drafts[j][c] # {} /\ Drafts[j][c] \subseteq Ordinals
  BY <1>1, Knows, ConstantsAssumption DEF Position, TInv, SessionsWellFormed, Chunked
<1>3. /\ job[j].attempts > 0 /\ sess[s].seen = version[j] /\ Holds(chunks[j], j, c)
  BY <1>1 DEF SerialInv, SessionInv, Attempting, HasReadVersion, Chunked
<1>4. \A k \in Jobs : index'[k] = index[k] \/ k = j
  BY <1>1, <1>2 DEF BulkWrite, TInv, TypeOK
<1>5. CASE Upsert(s)
  <2>1. index'[j] = Written(index[j], Drafts[j][c], c)
    BY <1>2, <1>5 DEF Upsert, BulkWrite, TInv, TypeOK
  <2>2. Holds(index'[j], j, c)
    BY <1>2, <2>1 DEF Holds, Written
  <2>3. Position("indexed", job[j].status)
    BY <1>2 DEF Position
  <2> QED BY <1>1, <1>2, <1>3, <1>4, <1>5, <2>2, <2>3, SerialGoesOn DEF Upsert
<1>6. ASSUME NEW ordinals, UpsertFails(s, ordinals) PROVE SerialStep(s)
  <2>1. PICK pc \in {"raised", "refused"} : Raise(s, pc)
    BY <1>6 DEF UpsertFails
  <2>2. Position(pc, job[j].status) /\ pc \notin Chunked
    BY <1>2 DEF Position, InFlight, Chunked
  <2> QED BY <1>1, <1>2, <1>3, <1>4, <2>1, <2>2, SerialGoesOn DEF Raise
<1> QED BY <1>5, <1>6

(* The statuses of the steps that only move the job along. *)
LEMMA SerialAdvances ==
  ASSUME TInv, TInv', NEW j \in Jobs, NEW st, NEW er, Becomes(j, st, job[j].attempts, er),
         \/ job[j].status = "PARSING" /\ st = "CHUNKING"
         \/ job[j].status = "CHUNKING" /\ st = "EMBEDDING"
         \/ job[j].status = "EMBEDDING" /\ st = "INDEXING"
         \/ job[j].status = "INDEXING" /\ st = "READY"
  PROVE  [Lifecycle!Next]_(Lifecycle!vars)
<1> DEFINE statuses == [k \in Jobs |-> job[k].status]
<1>1. statuses[j] \in Lifecycle!InFlight /\ st = Lifecycle!Successor[statuses[j]]
  BY DEF Lifecycle!InFlight, Lifecycle!Successor
<1>2. statuses' = [statuses EXCEPT ![j] = st] /\ UNCHANGED [k \in Jobs |-> job[k].attempts]
  BY Abstracted, MovesTo DEF TInv
<1>3. Lifecycle!Advance(j)
  BY <1>1, <1>2 DEF Lifecycle!Advance, Lifecycle!Moves
<1> QED BY <1>3 DEF Lifecycle!Next

LEMMA SerialStart ==
  ASSUME TInv, TInv', NEW s \in Sessions, SerialInv(s), Start(s)
  PROVE  SerialStep(s)
<1> DEFINE j == sess[s].job
           row == [InStage(sess[s].view, "PARSING") EXCEPT !.attempts = @ + 1]
<1>1. /\ sess[s].pc = "loaded" /\ sess[s].view.status \notin {"READY", "FAILED"}
      /\ Commit(s, row, sess[s].seen) /\ Continue(s, "started", row, sess[s].seen)
      /\ UNCHANGED <<chunks, index>>
  BY DEF Start
<1>2. /\ j \in Jobs /\ Matches(sess[s].view, job[j]) /\ job[j].status # "ABSENT"
      /\ sess[s].view \in Row /\ job[j] \in Row /\ sess[s].seen \in VersionStatus
  BY <1>1, Knows DEF Position
<1>3. /\ row \in Row /\ row.status = "PARSING" /\ row.attempts = job[j].attempts + 1
      /\ row.attempts > 0
  <2>1. InStage(sess[s].view, "PARSING") \in Row
    BY <1>2, InStageType DEF InFlight
  <2>2. row \in Row /\ row.status = "PARSING" /\ row.attempts = sess[s].view.attempts + 1
    <3>1. PICK staged \in Row : staged = InStage(sess[s].view, "PARSING")
      BY <2>1
    <3>2. staged.status = "PARSING" /\ staged.attempts = sess[s].view.attempts
      BY <1>2, <3>1 DEF InStage, Row
    <3>3. row = [staged EXCEPT !.attempts = @ + 1]
      BY <3>1
    <3> HIDE DEF row
    <3> QED BY <3>2, <3>3 DEF Row
  <2>3. sess[s].view.attempts = job[j].attempts /\ job[j].attempts \in Nat
    BY <1>2 DEF Matches, Row
  <2> QED BY <2>2, <2>3
<1> HIDE DEF row
<1>4. /\ "started" \in Attempting \ {"indexed"} /\ "started" \notin HasReadVersion /\ "started" \notin Chunked
      /\ Position("started", row.status) /\ row.status \in InFlight
  BY <1>3 DEF Attempting, HasReadVersion, Chunked, Position, InFlight
<1>5. SerialInv(s)' /\ Becomes(j, row.status, row.attempts, row.error)
  BY <1>1, <1>2, <1>3, <1>4, ContinueFields, SerialCommits
<1>6. job[j].status \in {"PENDING", "RETRY_WAITING"} \cup Lifecycle!InFlight
  BY <1>1, <1>2 DEF Row, Status, InFlight, Lifecycle!InFlight, Matches
<1>7. PICK i \in Jobs : i = j
  BY <1>2
<1>8. Lifecycle!Begin(i)
  <2>1. Becomes(i, "PARSING", job[i].attempts + 1, row.error)
    BY <1>3, <1>5, <1>7
  <2>2. [k \in Jobs |-> job[k].attempts][i] = job[i].attempts
    OBVIOUS
  <2>3. /\ Lifecycle!Moves(i, {"PENDING", "RETRY_WAITING"} \cup Lifecycle!InFlight, "PARSING")
        /\ [k \in Jobs |-> job[k].attempts]' = [[k \in Jobs |-> job[k].attempts] EXCEPT ![i] = job[i].attempts + 1]
    BY <1>6, <1>7, <2>1, MovesTo DEF TInv
  <2> QED BY <2>2, <2>3 DEF Lifecycle!Begin
<1> QED BY <1>5, <1>8 DEF SerialStep, Lifecycle!Next

(* The rows the pipeline commits from a view that matches the job. *)
LEMMA StagedRow ==
  ASSUME NEW view \in Row, NEW old \in Row, Matches(view, old), NEW stage \in InFlight \cup {"READY"}
  PROVE  /\ InStage(view, stage) \in Row /\ InStage(view, stage).status = stage
         /\ InStage(view, stage).attempts = old.attempts /\ InStage(view, stage).error = old.error
<1>1. InStage(view, stage) \in Row
  BY InStageType
<1> QED BY <1>1 DEF InStage, Row, Matches

LEMMA SerialStages ==
  ASSUME TInv, TInv', NEW s \in Sessions, SerialInv(s), Parse(s) \/ Embed(s) \/ \E c \in Configs : Chunk(s, c)
  PROVE  SerialStep(s)
<1>0. sess[s].pc \in {"parsing", "chunking", "embedding"}
  BY DEF Parse, Embed, Chunk
<1>1. PICK j \in Jobs : j = sess[s].job
  BY <1>0, Knows
<1>2. /\ Matches(sess[s].view, job[j]) /\ sess[s].view \in Row /\ job[j] \in Row /\ sess[s].seen \in VersionStatus
      /\ Position(sess[s].pc, job[j].status)
  BY <1>0, <1>1, Knows
<1>3. job[j].attempts > 0
  BY <1>0, <1>1 DEF SerialInv, SessionInv, Attempting, Chunked
<1>p. /\ {"parsing", "chunking", "embedding"} \subseteq Attempting \cap HasReadVersion
      /\ {"chunking", "embedding", "indexing"} \subseteq Attempting \ {"indexed"}
      /\ "chunking" \notin Chunked /\ {"embedding", "indexing"} \subseteq Chunked
      /\ {"CHUNKING", "EMBEDDING", "INDEXING"} \subseteq InFlight /\ "BUILDING" \in VersionStatus
  BY DEF Attempting, HasReadVersion, Chunked, InFlight, VersionStatus
<1>4. CASE Parse(s)
  <2>1. PICK row : row = InStage(sess[s].view, "CHUNKING")
    OBVIOUS
  <2>2. /\ sess[s].pc = "parsing" /\ Commit(s, row, "BUILDING") /\ Continue(s, "chunking", row, "BUILDING")
        /\ UNCHANGED <<chunks, index>>
    BY <1>4, <2>1 DEF Parse
  <2>3. /\ row \in Row /\ row.status = "CHUNKING" /\ row.attempts = job[j].attempts
        /\ job[j].status = "PARSING" /\ Position("chunking", row.status)
    BY <1>2, <1>p, <2>1, <2>2, StagedRow DEF Position
  <2>4. SerialInv(s)' /\ Becomes(j, row.status, row.attempts, row.error)
    BY <1>1, <1>3, <1>p, <2>2, <2>3, ContinueFields, SerialCommits
  <2> QED BY <2>3, <2>4, SerialAdvances DEF SerialStep
<1>5. CASE Embed(s)
  <2>1. PICK row : row = InStage(sess[s].view, "INDEXING")
    OBVIOUS
  <2>2. /\ sess[s].pc = "embedding" /\ Commit(s, row, sess[s].seen) /\ Continue(s, "indexing", row, sess[s].seen)
        /\ UNCHANGED <<chunks, index>>
    BY <1>5, <2>1 DEF Embed
  <2>3. /\ row \in Row /\ row.status = "INDEXING" /\ row.attempts = job[j].attempts
        /\ job[j].status = "EMBEDDING" /\ Position("indexing", row.status)
    BY <1>2, <1>p, <2>1, <2>2, StagedRow DEF Position
  <2>4. Holds(chunks[j], j, sess[s].config)
    BY <1>1, <1>p, <2>2 DEF SerialInv, SessionInv
  <2>5. SerialInv(s)' /\ Becomes(j, row.status, row.attempts, row.error)
    BY <1>1, <1>2, <1>3, <1>p, <2>2, <2>3, <2>4, ContinueFields, SerialCommits
  <2> QED BY <2>3, <2>5, SerialAdvances DEF SerialStep
<1>6. ASSUME NEW c \in Configs, Chunk(s, c) PROVE SerialStep(s)
  <2>1. PICK row : row = InStage(sess[s].view, "EMBEDDING")
    OBVIOUS
  <2>2. /\ sess[s].pc = "chunking" /\ Commit(s, row, sess[s].seen) /\ UNCHANGED index /\ Drafts[j][c] # {}
        /\ chunks' = [chunks EXCEPT ![j] = Written(Nothing, Drafts[j][c], c)]
        /\ sess' = [sess EXCEPT ![s] = [@ EXCEPT !.pc = "embedding", !.view = row, !.config = c]]
    BY <1>1, <1>6, <2>1 DEF Chunk
  <2>3. /\ row \in Row /\ row.status = "EMBEDDING" /\ row.attempts = job[j].attempts
        /\ job[j].status = "CHUNKING" /\ Position("embedding", row.status)
    BY <1>2, <1>p, <2>1, <2>2, StagedRow DEF Position
  <2>4. /\ sess'[s].pc = "embedding" /\ sess'[s].job = j /\ sess'[s].view = row
        /\ sess'[s].seen = sess[s].seen /\ sess'[s].config = c
    BY <1>1, <2>2 DEF TInv, TypeOK, Session
  <2>5. chunks'[j] = Written(Nothing, Drafts[j][c], c) /\ \A k \in Jobs \ {j} : chunks'[k] = chunks[k]
    BY <2>2 DEF TInv, TypeOK
  <2>6. Holds(chunks'[j], j, c)
    BY <1>6, <2>2, <2>5, ConstantsAssumption DEF Holds, Written
  <2>7. SerialInv(s)' /\ Becomes(j, row.status, row.attempts, row.error)
    BY <1>1, <1>2, <1>3, <1>p, <2>2, <2>3, <2>4, <2>5, <2>6, SerialCommits
  <2> QED BY <2>3, <2>7, SerialAdvances DEF SerialStep
<1> QED BY <1>4, <1>5, <1>6

LEMMA SerialPublish ==
  ASSUME TInv, TInv', NEW s \in Sessions, SerialInv(s), Publish(s)
  PROVE  SerialStep(s)
<1>1. PICK j \in Jobs : j = sess[s].job
  BY Knows DEF Publish
<1>2. PICK staged : staged = InStage(sess[s].view, "READY")
  OBVIOUS
<1>3. PICK row : row = [staged EXCEPT !.error = "NONE"]
  OBVIOUS
<1>4. sess[s].pc = "indexed" /\ Commit(s, row, "READY") /\ Finish(s) /\ UNCHANGED <<chunks, index>>
  BY <1>2, <1>3 DEF Publish
<1>5. /\ Matches(sess[s].view, job[j]) /\ sess[s].view \in Row /\ job[j] \in Row
      /\ job[j].status = "INDEXING" /\ "READY" \in VersionStatus
  BY <1>1, <1>4, Knows DEF Position, VersionStatus
<1>6. staged \in Row /\ staged.status = "READY" /\ staged.attempts = job[j].attempts
  BY <1>2, <1>5, StagedRow
<1>7. row \in Row /\ row.status = "READY" /\ row.attempts = job[j].attempts /\ row.error = "NONE"
  BY <1>3, <1>6 DEF Row, Errors
<1>8. "indexed" \in HasReadVersion
  BY DEF HasReadVersion, Attempting, Chunked
<1>9. SerialInv(s)' /\ Becomes(j, row.status, row.attempts, row.error)
  BY <1>1, <1>4, <1>5, <1>7, <1>8, SerialEnds
<1> QED BY <1>5, <1>7, <1>9, SerialAdvances DEF SerialStep

LEMMA SerialMarkFailed ==
  ASSUME TInv, TInv', NEW s \in Sessions, SerialInv(s), MarkFailed(s)
  PROVE  SerialStep(s)
<1>1. sess[s].pc \in {"raised", "refused"}
  BY DEF MarkFailed
<1>2. PICK j \in Jobs : j = sess[s].job
  BY <1>1, Knows
<1>3. PICK row : row = [sess[s].view EXCEPT !.status = "FAILED", !.error = "INGESTION_FAILED"]
  OBVIOUS
<1>4. Commit(s, row, "FAILED") /\ Finish(s) /\ UNCHANGED <<chunks, index>>
  BY <1>3 DEF MarkFailed
<1>5. /\ Matches(sess[s].view, job[j]) /\ sess[s].view \in Row /\ job[j] \in Row
      /\ job[j].status \in InFlight /\ "FAILED" \in VersionStatus
  BY <1>1, <1>2, Knows DEF Position, VersionStatus
<1>6. sess[s].pc \in HasReadVersion /\ job[j].attempts > 0
  BY <1>1, <1>2 DEF SerialInv, SessionInv, Attempting, HasReadVersion
<1>7. /\ row \in Row /\ row.status = "FAILED" /\ row.attempts = job[j].attempts
      /\ row.error = "INGESTION_FAILED"
  BY <1>3, <1>5 DEF Row, Status, Errors, Matches
<1>8. SerialInv(s)' /\ Becomes(j, row.status, row.attempts, row.error)
  BY <1>1, <1>2, <1>4, <1>5, <1>6, <1>7, SerialEnds
<1>9. Lifecycle!GiveUp(j)
  <2>1. job[j].status \in Lifecycle!InFlight
    BY <1>5 DEF InFlight, Lifecycle!InFlight
  <2>2. Becomes(j, "FAILED", job[j].attempts, row.error)
    BY <1>7, <1>8
  <2>3. /\ Lifecycle!Moves(j, Lifecycle!InFlight, "FAILED")
        /\ UNCHANGED [k \in Jobs |-> job[k].attempts]
    BY <2>1, <2>2, MovesTo DEF TInv
  <2> QED BY <2>3 DEF Lifecycle!GiveUp
<1> QED BY <1>8, <1>9 DEF SerialStep, Lifecycle!Next

LEMMA SerialMarkRetrying ==
  ASSUME TInv, TInv', NEW s \in Sessions, SerialInv(s), MarkRetrying(s)
  PROVE  SerialStep(s)
<1>1. sess[s].pc = "raised" /\ Finish(s) /\ UNCHANGED <<version, chunks, index>>
  BY DEF MarkRetrying
<1>2. PICK j \in Jobs : j = sess[s].job
  BY <1>1, Knows
<1>3. PICK row : row = [sess[s].view EXCEPT !.status = "RETRY_WAITING", !.error = "INGESTION_RETRYABLE"]
  OBVIOUS
<1>4. PICK new : new = Flush(job[j], sess[s].view, row)
  OBVIOUS
<1>5. job' = [job EXCEPT ![j] = [new EXCEPT !.retryAt = "future"]]
  BY <1>2, <1>3, <1>4 DEF MarkRetrying, TInv, TypeOK
<1>6. /\ Matches(sess[s].view, job[j]) /\ sess[s].view \in Row /\ job[j] \in Row
      /\ job[j].status \in InFlight
  BY <1>1, <1>2, Knows DEF Position
<1>7. /\ row \in Row /\ row.status = "RETRY_WAITING" /\ row.attempts = job[j].attempts
      /\ row.error = "INGESTION_RETRYABLE"
  BY <1>3, <1>6 DEF Row, Status, Errors, Matches
<1>8. new \in Row /\ new.status = "RETRY_WAITING" /\ new.attempts = job[j].attempts /\ new.error = row.error
  <2>1. new \in Row
    BY <1>4, <1>6, <1>7, FlushType
  <2> QED BY <1>4, <1>6, <1>7, <2>1 DEF Flush, Dirty, Matches
<1>9. Becomes(j, "RETRY_WAITING", job[j].attempts, row.error)
  BY <1>5, <1>8 DEF Becomes, Row, TInv, TypeOK
<1>10. SerialInv(s)'
  <2>1. JobInv(j)'
    BY <1>9 DEF Becomes, JobInv
  <2> QED BY <1>1, <1>9, <2>1, IdleInv, SerialMove
<1>11. Lifecycle!ScheduleRetry(j)
  <2>1. job[j].status \in Lifecycle!InFlight
    BY <1>6 DEF InFlight, Lifecycle!InFlight
  <2>2. [k \in Jobs |-> job[k].attempts][j] < MaxAttempts
    BY <1>2, <1>6 DEF MarkRetrying, HasAttemptsLeft, Matches
  <2> QED BY <1>9, <2>1, <2>2, MovesTo DEF Lifecycle!ScheduleRetry, TInv
<1> QED BY <1>10, <1>11 DEF SerialStep, Lifecycle!Next

LEMMA SerialReset ==
  ASSUME TInv, TInv', NEW s \in Sessions, SerialInv(s), ResetForRetry(s) \/ ResetForReindex(s)
  PROVE  SerialStep(s)
<1>1. sess[s].pc \in {"retry", "reindex"}
  BY DEF ResetForRetry, ResetForReindex
<1>2. PICK j \in Jobs : j = sess[s].job
  BY <1>1, Knows
<1>3. /\ Matches(sess[s].view, job[j]) /\ sess[s].view \in Row /\ job[j] \in Row
      /\ sess[s].pc = "retry" => job[j].status = "FAILED"
      /\ sess[s].pc = "reindex" => job[j].status \in {"READY", "FAILED", "RETRY_WAITING"}
      /\ sess[s].seen \in VersionStatus /\ "PENDING" \in VersionStatus
  BY <1>1, <1>2, Knows DEF Position, VersionStatus
<1>4. CASE ResetForRetry(s)
  <2>1. PICK row : row = [sess[s].view EXCEPT !.status = "RETRY_WAITING", !.retryAt = "null", !.error = "NONE"]
    OBVIOUS
  <2>2. sess[s].pc = "retry" /\ Commit(s, row, sess[s].seen) /\ Finish(s) /\ UNCHANGED <<chunks, index>>
    BY <1>4, <2>1 DEF ResetForRetry
  <2>3. row \in Row /\ row.status = "RETRY_WAITING" /\ row.attempts = job[j].attempts
    BY <1>3, <2>1 DEF Row, Status, Errors, RetryTimes, Matches
  <2>4. SerialInv(s)' /\ Becomes(j, row.status, row.attempts, row.error)
    BY <1>2, <1>3, <2>2, <2>3, SerialEnds
  <2>5. Lifecycle!Revive(j)
    <3>1. Becomes(j, "RETRY_WAITING", job[j].attempts, row.error) /\ job[j].status \in {"FAILED"}
      BY <1>3, <2>2, <2>3, <2>4
    <3>2. /\ Lifecycle!Moves(j, {"FAILED"}, "RETRY_WAITING")
          /\ UNCHANGED [k \in Jobs |-> job[k].attempts]
      BY <3>1, MovesTo DEF TInv
    <3> QED BY <3>2 DEF Lifecycle!Revive
  <2> QED BY <2>4, <2>5 DEF SerialStep, Lifecycle!Next
<1>5. CASE ResetForReindex(s)
  <2>1. PICK row : row = [sess[s].view EXCEPT !.status = "RETRY_WAITING", !.stage = "PARSING",
                                    !.attempts = 0, !.leased = FALSE, !.retryAt = "null",
                                    !.error = "NONE"]
    OBVIOUS
  <2>2. sess[s].pc = "reindex" /\ Commit(s, row, "PENDING") /\ Finish(s) /\ UNCHANGED <<chunks, index>>
    BY <1>5, <2>1 DEF ResetForReindex
  <2>3. row \in Row /\ row.status = "RETRY_WAITING" /\ row.attempts = 0
    BY <1>3, <2>1 DEF Row, Status, Stages, InFlight, Errors, RetryTimes
  <2>4. SerialInv(s)' /\ Becomes(j, row.status, row.attempts, row.error)
    BY <1>2, <1>3, <2>2, <2>3, SerialEnds
  <2>5. Lifecycle!Rebuild(j)
    <3>1. /\ Becomes(j, "RETRY_WAITING", 0, row.error)
          /\ job[j].status \in {"READY", "FAILED", "RETRY_WAITING"}
      BY <1>3, <2>2, <2>3, <2>4
    <3>2. /\ Lifecycle!Moves(j, {"READY", "FAILED", "RETRY_WAITING"}, "RETRY_WAITING")
          /\ [k \in Jobs |-> job[k].attempts]' = [[k \in Jobs |-> job[k].attempts] EXCEPT ![j] = 0]
      BY <3>1, MovesTo DEF TInv
    <3> QED BY <3>2 DEF Lifecycle!Rebuild
  <2> QED BY <2>4, <2>5 DEF SerialStep, Lifecycle!Next
<1> QED BY <1>4, <1>5

LEMMA SerialOperate ==
  ASSUME TInv, TInv', NEW s \in Sessions, SerialInv(s), Operate(s)
  PROVE  SerialStep(s)
<1>1. ASSUME UNCHANGED db PROVE Stutters /\ UNCHANGED <<version, chunks, index>>
  BY <1>1 DEF db, Stutters, Matches
<1>2. ASSUME NEW j \in Jobs, OpenById(s, j) PROVE SerialStep(s)
  <2>1. Position("loaded", job[j].status) /\ Matches(job[j], job[j])
    BY <1>2 DEF OpenById, Position, Matches
  <2> QED BY <1>1, <1>2, <2>1, SerialOpen DEF OpenById
<1>3. ASSUME NEW j \in Jobs, NEW pc \in {"retry", "reindex"}, LoadForReset(s, j, pc) PROVE SerialStep(s)
  <2>1. Position(pc, job[j].status) /\ Matches(job[j], job[j])
    BY <1>3 DEF LoadForReset, Resettable, Position, Matches
  <2> QED BY <1>1, <1>3, <2>1, SerialOpen DEF LoadForReset
<1> QED BY <1>2, <1>3, SerialReset DEF Operate

LEMMA SerialProcess ==
  ASSUME TInv, TInv', NEW s \in Sessions, SerialInv(s), Process(s)
  PROVE  SerialStep(s)
BY SerialReads, SerialUpserts, SerialStart, SerialStages, SerialPublish, SerialMarkFailed, SerialMarkRetrying DEF Process

LEMMA SerialNext ==
  ASSUME NEW s, Sessions = {s}, TInv, SerialInv(s), [Next]_vars
  PROVE  SerialStep(s)
<1>1. TInv' /\ s \in Sessions
  BY NextType
<1>2. CASE UNCHANGED vars
  <2>1. Stutters /\ UNCHANGED <<version, chunks, index, sess>>
    BY <1>2 DEF vars, Stutters, Matches
  <2>2. SessionInv(s)'
    BY <1>2 DEF vars, SerialInv, SessionInv
  <2> QED BY <2>1, <2>2, StuttersInv, StuttersAbstracted DEF SerialStep
<1>3. ASSUME NEW j \in Jobs, Upload(j) \/ BackoffElapses(j) PROVE SerialStep(s)
  BY <1>1, <1>3, SerialUpload, SerialBackoff
<1>4. ASSUME NEW t \in Sessions, \/ Claim(t)
                                 \/ \E kb \in KBs : ClaimForKB(t, kb)
                                 \/ Process(t) \/ Operate(t) \/ Abandon(t)
      PROVE  SerialStep(s)
  <2>1. t = s
    BY <1>4
  <2> QED BY <1>1, <1>4, <2>1, SerialClaim, SerialProcess, SerialOperate, SerialReads
<1> QED BY <1>2, <1>3, <1>4 DEF Next

LEMMA SerialInit ==
  ASSUME NEW s \in Sessions, Init
  PROVE  SerialInv(s) /\ Lifecycle!Init
<1>1. SessionInv(s)
  BY DEF Init, Idle, SessionInv, Attempting, HasReadVersion, Chunked
<1>2. ReadyIsConsistent /\ FailureIsExplained /\ AbsentIsUntried
  BY DEF Init, Absent, ReadyIsConsistent, FailureIsExplained, AbsentIsUntried
<1>3. Lifecycle!Init
  BY DEF Init, Absent, Lifecycle!Init
<1> QED BY <1>1, <1>2, <1>3 DEF SerialInv

LEMMA SerialAlways ==
  ASSUME NEW s, Sessions = {s}
  PROVE  Spec => [](TInv /\ SerialInv(s))
<1>1. Init => TInv /\ SerialInv(s)
  BY InitType, SerialInit
<1>2. TInv /\ SerialInv(s) /\ [Next]_vars => (TInv /\ SerialInv(s))'
  BY NextType, SerialNext DEF SerialStep
<1> QED BY <1>1, <1>2, PTL DEF Spec

(* In an installation with one session at a time, READY means that the chunk rows and
   the index hold one and the same chunking, whatever died or was reset before. *)
THEOREM ReadyStaysConsistent ==
  ASSUME NEW s, Sessions = {s}
  PROVE  Spec => []ReadyIsConsistent
<1>1. SerialInv(s) => ReadyIsConsistent
  BY DEF SerialInv
<1> QED BY <1>1, SerialAlways, PTL

(* In an installation with one session at a time, a FAILED job says why, and its version
   is FAILED as well. *)
THEOREM FailureStaysExplained ==
  ASSUME NEW s, Sessions = {s}
  PROVE  Spec => []FailureIsExplained
<1>1. SerialInv(s) => FailureIsExplained
  BY DEF SerialInv
<1> QED BY <1>1, SerialAlways, PTL

(* In an installation with one session at a time, module Ingestion implements module
   JobLifecycle: the statuses keep their order, an attempt is counted when it starts,
   and a retry is scheduled only while attempts are left. *)
THEOREM PipelineIsLifecycle ==
  ASSUME NEW s, Sessions = {s}
  PROVE  Spec => ImplementsLifecycle
<1>1. Init => Lifecycle!Init
  BY SerialInit
<1>2. TInv /\ SerialInv(s) /\ [Next]_vars => [Lifecycle!Next]_(Lifecycle!vars)
  BY SerialNext DEF SerialStep
<1>3. Spec => Lifecycle!Spec
  BY <1>1, <1>2, SerialAlways, PTL DEF Spec, Lifecycle!Spec
<1> QED BY <1>3 DEF ImplementsLifecycle
=============================================================================
