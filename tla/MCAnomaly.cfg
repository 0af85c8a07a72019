CONSTANTS
  WindowSize = 5
  Latencies = {4, 5, 12}
  LatencyFloor = 1
  RateScale = 1
  MinSamples = 3
  ScoreWarning = 50
  ScoreAnomalous = 80
  MaxStarted = 1
  MaxFailed = 2
  Null = Null
SPECIFICATION ADSpec
INVARIANT ADTypeOK
INVARIANT MedianIsMiddle
INVARIANT AlarmIsAnOutlier
INVARIANT JumpIsNoticed
PROPERTY ImplementsAlarm
