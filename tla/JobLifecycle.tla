----------------------------- MODULE JobLifecycle -----------------------------
(***************************************************************************)
(* What the ingestion pipeline promises of one ingestion_jobs row,         *)
(* whatever the workers, the stores and the operator do: the order of the  *)
(* statuses, where an attempt is counted, and when a retry may be          *)
(* scheduled.  Module Ingestion is shown to implement it when its database *)
(* sessions do not overlap.                                                *)
(***************************************************************************)
EXTENDS Naturals

CONSTANTS Jobs,         \* one job per document version
          MaxAttempts   \* ingestion_jobs.max_attempts

VARIABLES status, attempts

vars == <<status, attempts>>

InFlight == {"PARSING", "CHUNKING", "EMBEDDING", "INDEXING"}

(* The pipeline order of the statuses a healthy attempt goes through. *)
Successor == [PARSING   |-> "CHUNKING",
              CHUNKING  |-> "EMBEDDING",
              EMBEDDING |-> "INDEXING",
              INDEXING  |-> "READY"]

Init == /\ status = [j \in Jobs |-> "ABSENT"]
        /\ attempts = [j \in Jobs |-> 0]

Moves(j, from, to) == /\ status[j] \in from
                      /\ status' = [status EXCEPT ![j] = to]

Create(j) == Moves(j, {"ABSENT"}, "PENDING") /\ UNCHANGED attempts

(* An attempt starts on a waiting job, or on one a dead worker left behind. *)
Begin(j) == /\ Moves(j, {"PENDING", "RETRY_WAITING"} \cup InFlight, "PARSING")
            /\ attempts' = [attempts EXCEPT ![j] = @ + 1]

Advance(j) == /\ status[j] \in InFlight
              /\ Moves(j, InFlight, Successor[status[j]])
              /\ UNCHANGED attempts

(* A retry is scheduled only while the job has attempts left. *)
ScheduleRetry(j) == /\ Moves(j, InFlight, "RETRY_WAITING")
                    /\ attempts[j] < MaxAttempts
                    /\ UNCHANGED attempts

GiveUp(j) == Moves(j, InFlight, "FAILED") /\ UNCHANGED attempts

(* The operator's commands: a failed job once more, or a full rebuild. *)
Revive(j) == Moves(j, {"FAILED"}, "RETRY_WAITING") /\ UNCHANGED attempts

Rebuild(j) == /\ Moves(j, {"READY", "FAILED", "RETRY_WAITING"}, "RETRY_WAITING")
              /\ attempts' = [attempts EXCEPT ![j] = 0]

Next == \E j \in Jobs :
          \/ Create(j) \/ Begin(j) \/ Advance(j) \/ ScheduleRetry(j)
          \/ GiveUp(j) \/ Revive(j) \/ Rebuild(j)

Spec == Init /\ [][Next]_vars
===============================================================================
