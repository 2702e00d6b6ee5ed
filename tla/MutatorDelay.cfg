SPECIFICATION Spec
CONSTANTS
  Threads = {t1, t2}
  NoThread = NoThread
  NoClass = NoClass
  MinLiveness = 1
  MaxLiveness = 2
  DeallocationDelay = 1
  MaxTimeGap = 2
  BenchmarkDuration = 5
  TimeQuantum = 1
  ClassBytes = {1}
  AccessLiveObjects = TRUE
  SharedObjects = FALSE
  ReceivingThreadsRatio = 100
  NodeBufferSize = 4
  ClassBufferSize = 3
  U64Max = 15
SYMMETRY Symmetry
INVARIANTS DroppedWhenDue AccessesByLiveness ClockDriftBounded
