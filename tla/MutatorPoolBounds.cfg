SPECIFICATION Spec
CONSTANTS
  Threads = {t1, t2}
  NoThread = NoThread
  NoClass = NoClass
  MinLiveness = 1
  MaxLiveness = 2
  DeallocationDelay = 1
  MaxTimeGap = 1
  BenchmarkDuration = 2
  TimeQuantum = 1
  ClassBytes = {1}
  AccessLiveObjects = TRUE
  SharedObjects = TRUE
  ReceivingThreadsRatio = 100
  NodeBufferSize = 4
  ClassBufferSize = 2
  U64Max = 15
SYMMETRY Symmetry
INVARIANT InsertsWithinPool
