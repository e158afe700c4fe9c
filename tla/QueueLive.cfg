\* Prompt workers (Timeout + Latency + 3 * max(Latency, InLine) < RetryAfter),
\* under fairness.
CONSTANTS
  w1 = w1
  w2 = w2
  p1 = p1
  p2 = p2
  j1 = j1
  j2 = j2
  NoJob = NoJob
  Jobs = {j1}
  Malformed = {}
  Unhandled = {}
  Workers <- TwoWorkers
  Processes = {p1}
  ProcessOf <- OneProcess
  RetryAfter = 5
  BatchSize = 1
  Backoff <- OneSecond
  MaxAttempts = 2
  Timeout = 1
  BlockFor = 1
  Delays = {0, 1}
  Latency = 0
  InLine = 1
  Downtime = 0
  MaxFaults = 1
  CalmFrom = 3
  Horizon = 22
SPECIFICATION FairSpec
CHECK_DEADLOCK FALSE
INVARIANT TypeOK
INVARIANT SingleReservation
INVARIANT AttemptsAccounted
PROPERTY EveryJobSettles
PROPERTY StopsWhenTold
