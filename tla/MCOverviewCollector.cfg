CONSTANTS
  SampleLimit = 2
  TopN = 2
  Interval = 2
  WebEvents <- MCWebEvents
  RecentTail = 1
  WebSampleLimit = 1
  Configurations <- MCConfigurations
  MaxEvents = 6

SPECIFICATION Spec

CHECK_DEADLOCK FALSE

INVARIANTS
  AddsUp
  SamplesAreTheBest
  TopIsStablePrefix
  RanksAreRight
  NeverGuessed
  WebAddsUp
