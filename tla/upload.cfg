\* Three uploads of one content, by one user under two file extensions; two of
\* them may fail or die, and the knowledge base may be deleted at any time.
SPECIFICATION FairSpec
CONSTANTS
  Requests = {r1, r2, r3}
  Paths = {md, txt}
  Size = 2
  MaxFaults = 2
  None = None
INVARIANTS TypeOK RecordedIsStored TextIsWhole
PROPERTIES UploadsEnd RecordsOnce
\* All uploads are answered in the end.
CHECK_DEADLOCK FALSE
