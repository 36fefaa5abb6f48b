CONSTANTS
  Readers = {r1, r2}
  Parts = {body}
  Capacity = 2
  NoMessage = NoMessage
  Warmup = 2
  Messages = 3
  Reps = 2
  Consumer = c1
  Measure = 3
  Gap = 1
  Overhead = 1
  HistMax = 3
  MaxTime = 6
SPECIFICATION BenchSpec
INVARIANTS TimedWithAllReaders OwnTimestamp AllMeasured
PROPERTIES ThroughputEnds LatencyEnds
CHECK_DEADLOCK FALSE
