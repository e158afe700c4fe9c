\* A 3D task under fairness, the provider silent: two workers, one request, every mishap
\* but late deliveries and lost reservations.
CONSTANTS
  w1 = w1
  w2 = w2
  r1 = r1
  r2 = r2
  NoRow = NoRow
  Requests = {r1}
  Workers = {w1, w2}
  MaxAttempts = 2
  AtProvider = FALSE
  Mishaps = {"crash", "store", "api", "cancel"}
  MaxMishaps = 1
  MaxEnvelopes = 3
  MaxJobs = 2
  HasDeadline = TRUE
SPECIFICATION FairSpec
CHECK_DEADLOCK FALSE
INVARIANT OneJob
INVARIANT SucceededIsDone
PROPERTY FinishedIsFinal
PROPERTY DeadlineEndsPolling
