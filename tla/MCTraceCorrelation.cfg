SPECIFICATION Spec
CONSTANTS
  l1 = l1
  l2 = l2
  a1 = a1
  a2 = a2
  v1 = v1
  Lanes = {l1, l2}
  Complete = {l1}
  IdFields <- MCIdFields
  IdValues = {v1}
  Anchors <- MCAnchors
  Unknown = unknown
  Window = 1
  MaxOpen = 2
  MaxTraces = 1
  MaxTime = 3
  MaxEvents = 4
SYMMETRY MCSymmetry
INVARIANTS
  Conserved
  LimitsKept
  JoinedAgree
  JoinedToNearest
PROPERTIES
  PruneIsSafe
  ExpiredRightly
CHECK_DEADLOCK FALSE
