\* Two runs of one task, or of two tasks with the same panel.
CONSTANTS
  r1 = r1
  r2 = r2
  r3 = r3
  t1 = t1
  t2 = t2
  Tasks = {t1, t2}
  Runs = {r1, r2, r3}
  TaskOf <- Shared
  MaxAttempts = 2
  Deliveries = 2
  MaxMishaps = 1
SPECIFICATION Spec
CHECK_DEADLOCK FALSE
INVARIANT LogIsComplete
INVARIANT RecordsAgree
INVARIANT SucceededIsListed
INVARIANT ListedOnce
PROPERTY OutputsKept
