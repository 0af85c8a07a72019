CONSTANTS
  r1 = r1
  r2 = r2
  Requests = {r1, r2}
  Signals = {"UPSTREAM_TIMEOUT", "FAILOVER_STARTED", "RETRY_ATTEMPT", "REQUEST_COMPLETED"}
  FailureThreshold = 2
  Lookback = 2
  RecoveryQuiet = 2
  MaxResolved = 2
  PendingCap = 2
  TimelineCap = 3
  MaxEvents = 5
  MaxTime = 3
  None = None
SPECIFICATION HSpec
SYMMETRY AnyRequest
INVARIANT HistoryInOrder
INVARIANT AffectedAreItsOwn
PROPERTY OpenedExactlyOnEvidence
PROPERTY ResolvedWhenCalm
PROPERTY SeverityEscalates
CHECK_DEADLOCK FALSE
