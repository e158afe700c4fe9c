\* One request after the other: what is enabled for the task type.
CONSTANTS
  a1 = a1
  a2 = a2
  n1 = n1
  n2 = n2
  Admins = {a1, a2}
  Server = Server
  Worker = Worker
  Names = {n1, n2}
  WorkerName = n1
  None = None
  Gone = Gone
  MaxVersion = 2
  MaxEvents = 2
  MaxChanged = 1
  MaxRunning = 1
SPECIFICATION Spec
CHECK_DEADLOCK FALSE
PROPERTY OneEnabledPerType
