CONSTANTS
  slow = slow
  quick = quick
  Slots = {slow, quick}
  Asks <- MCAsks
  Results <- MCResults
  RoundedDown <- MCRoundedDown
  Disk <- MCDisk
  MaxRuns = 2
  MaxActive = 1
  MaxIds = 3
  Failing = {3}
  DefaultLimit = 2
  MaxLimit = 3
  MaxSourceLimit = 2
  MinDuration = 0
  TimeRange <- MCTimeRange
  Filters <- MCFilters

SPECIFICATION FairSpec

PROPERTIES
  ComparisonIsHonest
  CleanExit
  AnswersAreOfTheirTime
  PagesAreExact
  Exits
