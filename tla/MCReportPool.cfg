CONSTANTS
  w1 = w1
  w2 = w2
  Workers = {w1, w2}
  TopN = 2
  ZoneMinutes = 330
  MinDuration = 2
  TimeRange <- MCTimeRange
  Filters <- MCFilters
  Placeholder <- MCPlaceholder
  Inputs <- MCInputs

SPECIFICATION FairSpec

INVARIANTS
  MergedIsExact
  ReportRanks
  EachFileOnce
PROPERTY
  Terminates
