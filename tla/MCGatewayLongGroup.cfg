CONSTANTS
  Services = {a, b, c, p}
  Groups <- LongAndSingle
  Requests = {r1, r2}
  Outcomes = {"success", "http_503"}
  NoService = NoService
  NotOpened = NotOpened
  None = None
  a = a
  b = b
  c = c
  p = p
  MaxFailovers = 1
  MaxArrivals = 22
  LatencyWindow = 20
  Past <- TwentyQuick
  Durations = {1, 4}
  MaxAttempts = 2
  FailureThreshold = 1
  OpenDuration = 1
  HalfOpenMax = 1
  CountBound = 1
SPECIFICATION MSpec
SYMMETRY RequestSymmetry
INVARIANT ForwardWithinBudget
INVARIANT NoProviderForgotten
INVARIANT TotalsBalance
