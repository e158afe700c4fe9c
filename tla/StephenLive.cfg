\* Two workers, one request, crashes and rejected calls, under fairness.
CONSTANTS
  w1 = w1
  w2 = w2
  r1 = r1
  r2 = r2
  NoRow = NoRow
  Requests = {r1}
  Workers = {w1, w2}
  MaxAttempts = 2
  AtProvider = TRUE
  Mishaps = {"crash", "store"}
  MaxMishaps = 1
  MaxEnvelopes = 3
  MaxJobs = 1
SPECIFICATION FairSpec
CHECK_DEADLOCK FALSE
INVARIANT Driven
PROPERTY EveryTaskFinishes
