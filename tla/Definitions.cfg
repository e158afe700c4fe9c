\* Two requests that may overlap, both processes starting.
CONSTANTS
  a1 = a1
  a2 = a2
  n1 = n1
  n2 = n2
  Admins = {a1, a2}
  Server = Server
  Worker = Worker
  Names = {n1, n2}
  WorkerName = n1
  None = None
  Gone = Gone
  MaxVersion = 2
  MaxEvents = 2
  MaxChanged = 1
  MaxRunning = 2
SPECIFICATION FairSpec
CHECK_DEADLOCK FALSE
INVARIANT OneEnabled
INVARIANT PublishedIsEnabled
PROPERTY StartsSucceed
