\* One session plays every role, one command at a time: crashes, operator
\* commands, a chunk size that changes between attempts, and a document without
\* chunks.
SPECIFICATION Spec
CONSTANTS
  j1 = j1  j2 = j2
  kb1 = kb1
  s1 = s1  s2 = s2
  Jobs = {j1, j2}
  KBs = {kb1}
  KBOf <- MCKBOf
  Workers = {s1}
  Background = {s1}
  Operators = {s1}
  Configs = {"small", "large"}
  Ordinals = {0, 1}
  Drafts <- MCDrafts
  Blank = {j2}
  Unparsable = {}
  MaxAttempts = 2
  MaxCrashes = 1
  MaxOperations = 2
  NoJob = NoJob
  NoConfig = NoConfig
INVARIANTS TypeOK ReadyIsConsistent FailureIsExplained
PROPERTY ImplementsLifecycle
\* With nothing left to claim the worker only sleeps.
CHECK_DEADLOCK FALSE
