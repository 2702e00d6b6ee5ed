SPECIFICATION Spec
CONSTANTS
  MaxObjects = 12
  WriteAccessRatio = 20
  Null = Null
  Junk = Junk
INVARIANTS MemorySafe NothingLeaks VisitsEachOnce RecursionBounded ListsWriteEveryIth
