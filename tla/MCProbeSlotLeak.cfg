CONSTANTS
  Services = {s1}
  Calls = {k1, k2, k3}
  NoService = NoService
  NotOpened = NotOpened
  FailureThreshold = 1
  OpenDuration = 1
  HalfOpenMax = 1
  CountBound = 2
SPECIFICATION HSpec
INVARIANT ProbeSlotsReleased
