SPECIFICATION Spec
CONSTANTS
  c1 = c1
  Closer = closer
  Clients <- MCClients
  MaxRuns = 2
  MaxActive = 3
  MaxIds = 3
INVARIANTS
  RetentionBounded
  SlotsMatchRuns
  OrderMatchesRuns
  ShutdownIsQuiet
PROPERTIES
  RefinesLifecycle
\* The system stops once Shutdown returned and the bounded run ids are used up.
CHECK_DEADLOCK FALSE
