SPECIFICATION OrderedSpec
CONSTANTS
  p1 = p1
  p2 = p2
  a1 = a1
  a2 = a2
  Unknown = unknown
  Sources = {s1}
  Processes <- MCProcesses
  Anchors <- MCAnchors
  Window = 3
  PendingLimit = 2
  SampleLimit = 1
  MaxTime = 3
  MaxEvents = 3
SYMMETRY MCSymmetry
INVARIANTS
  JoinedToNearest
