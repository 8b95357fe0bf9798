\* The worker loop in one session, the API's background task and the operator in
\* another, on one job: each keeps its own view of the row.  The job settles, as
\* long as no session dies.
SPECIFICATION FairSpec
CONSTANTS
  j1 = j1  j2 = j2
  kb1 = kb1
  s1 = s1  s2 = s2
  Jobs = {j1}
  KBs = {kb1}
  KBOf <- MCKBOf
  Workers = {s1}
  Background = {s2}
  Operators = {s2}
  Configs = {"small"}
  Ordinals = {0, 1}
  Drafts <- MCDrafts
  Blank = {}
  Unparsable = {}
  MaxAttempts = 2
  MaxCrashes = 1
  MaxOperations = 1
  NoJob = NoJob
  NoConfig = NoConfig
INVARIANTS ReadyIsSearchable IndexedHasRow
PROPERTY JobsSettle
\* With nothing left to claim the worker only sleeps.
CHECK_DEADLOCK FALSE
