CONSTANTS
  PendingLimit = 6
  WebEvents <- Requests
  RecentTail = 1
  WebSampleLimit = 1

SPECIFICATION MCSpec

CHECK_DEADLOCK FALSE

INVARIANT
  PendingBounded
