SPECIFICATION Spec
CONSTANTS
  Threads = {t1, t2, t3}
  NoThread = NoThread
  NoClass = NoClass
  MinLiveness = 1
  MaxLiveness = 1
  DeallocationDelay = 0
  MaxTimeGap = 2
  BenchmarkDuration = 2
  TimeQuantum = 1
  ClassBytes = {1}
  AccessLiveObjects = TRUE
  SharedObjects = TRUE
  ReceivingThreadsRatio = 100
  NodeBufferSize = 3
  ClassBufferSize = 1
  U64Max = 15
SYMMETRY Symmetry
INVARIANTS NoUseAfterFree NothingLeaked
