\* Workers of two processes that may be late without limit; one job decodes,
\* the other does not.
CONSTANTS
  w1 = w1
  w2 = w2
  p1 = p1
  p2 = p2
  j1 = j1
  j2 = j2
  NoJob = NoJob
  Jobs = {j1, j2}
  Malformed = {j2}
  Unhandled = {}
  Workers <- TwoWorkers
  Processes = {p1, p2}
  ProcessOf <- TwoProcesses
  RetryAfter = 1
  BatchSize = 2
  Backoff <- Growing
  MaxAttempts = 2
  Timeout = 1
  BlockFor = 1
  Delays = {0}
  Latency = 3
  InLine = 3
  Downtime = 3
  MaxFaults = 1
  CalmFrom = 3
  Horizon = 2
SPECIFICATION Spec
CHECK_DEADLOCK FALSE
INVARIANT NoJobLost
INVARIANT NoSpareToken
PROPERTY KeepsPromise
PROPERTY ReservationsFenced
