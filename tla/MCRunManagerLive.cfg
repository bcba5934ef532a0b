SPECIFICATION FairSpec
CONSTANTS
  c1 = c1
  Closer = closer
  Clients <- MCClients
  MaxRuns = 2
  MaxActive = 1
  MaxIds = 3
PROPERTIES
  CancelTakesEffect
  ShutdownSettles
\* The system stops once Shutdown returned and the bounded run ids are used up.
CHECK_DEADLOCK FALSE
