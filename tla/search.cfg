\* Two requests at a time for one key, one failure of Redis or of a process, which
\* may hold the lock.
SPECIFICATION FairSpec
CONSTANTS
  r1 = r1  r2 = r2
  Requests = {r1, r2}
  MaxFaults = 1
  LockLapses = FALSE
  NoEntry = NoEntry
  Free = Free
INVARIANTS TypeOK ResultsAreBacked FreshCompletedIsWhole AnswersMatchTraces LockHasOwner OneOwner
PROPERTY EveryRequestEnds
