CONSTANTS
  Clients = {c1}
  Capacity = 2
  TokenTicks = 1
  TicksPerSecond = 1
  Clock = 1000
  SinceBound = 301
  MaxElapsed = 302
  NoBucket = NoBucket
  NoPromise = NoPromise
SPECIFICATION HSpec
PROPERTY OnlyInactiveSwept
