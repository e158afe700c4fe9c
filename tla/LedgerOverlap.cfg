\* Registrations for an entity and its depiction and edits that overlap, a failure,
\* one registration protected.
CONSTANTS
  g1 = g1
  g2 = g2
  g3 = g3
  jobA = jobA
  jobB = jobB
  jobC = jobC
  None = None
  Person = Person
  Entity = Entity
  depiction = depiction
  Places = {Entity, depiction}
  PlaceOf <- OneDepiction
  Registrars = {g1, g2, g3}
  Protecting = {g3}
  Hashed = {g1}
  Sizes = {small, large}
  small = small
  large = large
  Given <- SmallOrOpen
  Prefix <- DistinctJobs
  MaxEdits = 1
  MaxFailures = 1
SPECIFICATION Spec
CHECK_DEADLOCK FALSE
INVARIANT VersionsDiffer
INVARIANT PendingHasCause
INVARIANT LatestSlotMirrors
PROPERTY PersonsChoiceStands
PROPERTY FitsEntity
