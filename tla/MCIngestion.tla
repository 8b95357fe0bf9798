---- MODULE MCIngestion ----
(* Constants of the TLC instances of module Ingestion. *)
EXTENDS IngestionClaims
CONSTANTS j1, j2, kb1, s1, s2, Blank

MCKBOf == [j \in Jobs |-> kb1]
\* A small chunk size cuts the document in two, a large one keeps it whole;
\* a document that is one empty heading has a block but no chunk.
MCDrafts == [j \in Jobs |-> [c \in Configs |->
              IF j \in Blank THEN {} ELSE IF c = "small" THEN {0, 1} ELSE {0}]]
====
