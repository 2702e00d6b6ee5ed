SPECIFICATION FairSpec
CONSTANTS
  Threads = {t1, t2}
  NoThread = NoThread
  NoClass = NoClass
  MinLiveness = 1
  MaxLiveness = 2
  DeallocationDelay = 0
  MaxTimeGap = 2
  BenchmarkDuration = 2
  TimeQuantum = 1
  ClassBytes = {1}
  AccessLiveObjects = TRUE
  SharedObjects = TRUE
  ReceivingThreadsRatio = 100
  NodeBufferSize = 4
  ClassBufferSize = 2
  U64Max = 15
INVARIANTS TypeOK ReferencesCounted DeallocatedOnce SpliceLosesNothing NodesConserved
PROPERTIES Termination ImplementsOwnership
