\* One worker that dies once, running for ever otherwise.
SPECIFICATION FairSpec
CONSTANTS
  j1 = j1  j2 = j2
  kb1 = kb1
  s1 = s1  s2 = s2
  Jobs = {j1}
  KBs = {kb1}
  KBOf <- MCKBOf
  Workers = {s1}
  Background = {}
  Operators = {}
  Configs = {"small"}
  Ordinals = {0, 1}
  Drafts <- MCDrafts
  Blank = {}
  Unparsable = {}
  MaxAttempts = 2
  MaxCrashes = 1
  MaxOperations = 0
  NoJob = NoJob
  NoConfig = NoConfig
PROPERTY ProcessingEnds
\* With nothing left to claim the worker only sleeps.
CHECK_DEADLOCK FALSE
