SPECIFICATION Spec
CONSTANTS
  Threads = {t1}
  NoThread = NoThread
  NoClass = NoClass
  MinLiveness = 1
  MaxLiveness = 3
  DeallocationDelay = 0
  MaxTimeGap = 1
  BenchmarkDuration = 3
  TimeQuantum = 1
  ClassBytes = {1}
  AccessLiveObjects = TRUE
  SharedObjects = TRUE
  ReceivingThreadsRatio = 100
  NodeBufferSize = 4
  ClassBufferSize = 4
  U64Max = 15
INVARIANT SlotMatchesRemainingLiveness
