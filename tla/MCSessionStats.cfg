SPECIFICATION Spec
CONSTANTS
  Keys = {1, 2}
  SessionLimit = 1
  SampleLimit = 1
  MaxTime = 3
  MaxEvents = 5
INVARIANTS
  Balanced
  TimelineExact
\* The input ends at the bound.
CHECK_DEADLOCK FALSE
