CONSTANTS
  Services = {s1, s2}
  Calls = {k1, k2, k3}
  NoService = NoService
  NotOpened = NotOpened
  FailureThreshold = 2
  OpenDuration = 2
  HalfOpenMax = 2
  CountBound = 3
SPECIFICATION HSpec
INVARIANT CircuitConsistent
INVARIANT SlotAccounting
INVARIANT StreakCounted
PROPERTY CoolOffRespected
PROPERTY CoolOffEnds
