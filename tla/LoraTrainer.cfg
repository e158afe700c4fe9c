\* Two workers make sure of the script, one submits a job, two commands poll it.
CONSTANTS
  c1 = c1
  c2 = c2
  p1 = p1
  p2 = p2
  Callers = {c1, c2}
  Version = Version
  Old = Old
  Missing = Missing
  MaxBreaks = 1
  Submitter = Submitter
  Child = Child
  Pollers = {p1, p2}
  MaxKills = 1
SPECIFICATION FairSpec
CHECK_DEADLOCK FALSE
INVARIANT RunsOwnScript
INVARIANT SucceededIsTrained
PROPERTY ReportIsFinal
PROPERTY EveryJobReported
