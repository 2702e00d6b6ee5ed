SPECIFICATION Spec
CONSTANTS
  LineSize = 64
  IntBits = 19
  ULongRange = 16777216
  CommandLines <- MCCommandLines
INVARIANTS TypeOK BlocksDisjoint BlocksInHeap ThreadsOnOwnLines TwoThreadsFit BufferHoldsEveryLifetime
