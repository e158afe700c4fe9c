\* The first registrations of a project overlap.
CONSTANTS
  g1 = g1
  g2 = g2
  g3 = g3
  jobA = jobA
  jobB = jobB
  jobC = jobC
  None = None
  Person = Person
  Entity = Entity
  depiction = depiction
  Places = {Entity}
  PlaceOf <- NoDepiction
  Registrars = {g1, g2, g3}
  Protecting = {}
  Hashed = {}
  Sizes = {}
  small = small
  large = large
  Given <- NoSizes
  Prefix <- DistinctJobs
  MaxEdits = 0
  MaxFailures = 0
SPECIFICATION Spec
CHECK_DEADLOCK FALSE
PROPERTY AppendOnly
