SPECIFICATION Spec
CONSTANTS
  Seeds <- MCSeeds
  Options <- MCSmallSizes
  NumThreads = 2
  UIntRange = 65536
  Calls = 100
INVARIANT SizesAccepted
