\* Three operators switch between two indices, from whatever mappings and aliases
\* were there, while a worker indexes.
SPECIFICATION Spec
CONSTANTS
  Operators = {o1, o2, o3}
  Indices = {v1, v2}
  Documents = {d1}
  MaxRuns = 4
  None = None
INVARIANTS TypeOK SwitchIsExact IndexedIsFound
PROPERTY AliasNeverLost
\* No run is left to start and no document to index.
CHECK_DEADLOCK FALSE
