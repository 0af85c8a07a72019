CONSTANTS
  s1 = s1
  s2 = s2
  Services = {s1, s2}
  Interval = 2
  ProbeTimeout = 1
  FailBound = 2
  AgeBound = 5
  None = None
SPECIFICATION HSpec
SYMMETRY AnyService
INVARIANT RoundsNeverOverlap
INVARIANT FailuresCounted
INVARIANT SnapshotsAreFresh
INVARIANT HealthyWasUp
PROPERTY ChangesFaithful
