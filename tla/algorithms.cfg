\* Every document of up to four lines of nine kinds, the last one with or without
\* an end, parsed with and without headings and cut into windows of four
\* characters; every two lists of up to three hits, fused.
SPECIFICATION MCSpec
CONSTANTS
  Inputs <- MCInputs
  MaxChars = 4
  Overlap = 1
  Chunks = {1, 2, 3, 4}
  Hits <- MCHits
  MaxHits = 3
  K = 2
  TopK = 3
  Unit = 60
INVARIANTS NothingIsLost ChunksAdvance PathIsEnclosing OffsetsAreNear
  BothBeatsOne FusedIsRanked
\* Both algorithms end.
CHECK_DEADLOCK FALSE
