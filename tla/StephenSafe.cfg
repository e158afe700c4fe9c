\* Two requests, two workers, every kind of mishap.
CONSTANTS
  w1 = w1
  w2 = w2
  r1 = r1
  r2 = r2
  NoRow = NoRow
  Requests = {r1, r2}
  Workers = {w1, w2}
  MaxAttempts = 2
  AtProvider = TRUE
  Mishaps = {"crash", "zombie", "store", "api", "late", "cancel"}
  MaxMishaps = 1
  MaxEnvelopes = 3
  MaxJobs = 1
SYMMETRY Symmetry
SPECIFICATION Spec
CHECK_DEADLOCK FALSE
INVARIANT SucceededIsPublished
INVARIANT ChainsAccounted
INVARIANT ResultsAccounted
PROPERTY FinishedIsFinal
