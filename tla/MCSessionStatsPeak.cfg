SPECIFICATION OrderedSpec
CONSTANTS
  Keys = {1, 2}
  SessionLimit = 1
  SampleLimit = 1
  MaxTime = 2
  MaxEvents = 4
INVARIANTS
  NoArtificialPeak
\* The input ends at the bound.
CHECK_DEADLOCK FALSE
