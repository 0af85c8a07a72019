CONSTANTS
  Clients = {c1, c2}
  Capacity = 2
  TokenTicks = 3
  TicksPerSecond = 2
  Clock = 1000
  SinceBound = 6
  MaxElapsed = 10
  NoBucket = NoBucket
  NoPromise = NoPromise
SPECIFICATION HSpec
INVARIANT RateBounded
INVARIANT RetryAfterSuffices
PROPERTY ImplementsTokenBucket
