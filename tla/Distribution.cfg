SPECIFICATION Spec
CONSTANTS
  Seeds <- MCSeeds
  Options <- MCOptions
  NumThreads = 10
  UIntRange = 65536
  Calls = 10001
INVARIANTS TypeOK ResultInRange NeverStuck LargeSizesAccepted ObjectsCounted ReceiversDistinct SelectionHasSize
