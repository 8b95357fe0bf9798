--------------------------- MODULE IngestionClaims ---------------------------
(***************************************************************************)
(* What the repository's documents say of ingestion, stated over module    *)
(* Ingestion: TLC shows each of them violated by what the code does.       *)
(***************************************************************************)
EXTENDS Ingestion

(* "Any processing state can enter RETRY_WAITING, and FAILED after the maximum
   number of retries": a job does not stay in a processing state for ever. *)
ProcessingEnds ==
  \A j \in Jobs : job[j].status \in InFlight ~> job[j].status \notin InFlight
=============================================================================
