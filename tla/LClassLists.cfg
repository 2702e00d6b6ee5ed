SPECIFICATION Spec
CONSTANTS
  Threads = {t1, t2}
  NodeBufferSize = 2
  Null = Null
INVARIANTS TypeOK LastEndsList CachesDoublyLinked
PROPERTY ImplementsSequences
