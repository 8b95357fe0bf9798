\* Two citations and three pieces of an answer, and two commits that fail.
SPECIFICATION Spec
CONSTANTS
  MaxCitations = 2
  MaxDeltas = 3
  MaxFaults = 2
  NoOutput = NoOutput
INVARIANTS TypeOK WellFormed StreamIsTraced CompletedAnswersAreWhole
\* The stream is over after its terminal event, or when the client has left.
CHECK_DEADLOCK FALSE
