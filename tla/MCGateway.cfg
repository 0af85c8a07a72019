CONSTANTS
  Services = {a, b}
  Groups <- PairOnly
  Requests = {r1, r2}
  Outcomes = {"success", "timeout", "http_500"}
  NoService = NoService
  NotOpened = NotOpened
  None = None
  a = a
  b = b
  c = c
  p = p
  MaxFailovers = 1
  MaxAttempts = 2
  FailureThreshold = 1
  OpenDuration = 1
  HalfOpenMax = 1
  CountBound = 1
SPECIFICATION Spec
INVARIANT EventsTellTheStory
INVARIANT ReasonIsThePrimarys
PROPERTY ImplementsBreaker
PROPERTY RequestsEnd
