SPECIFICATION Spec
CONSTANTS
  NumThreads = 2
  MaxLiveness = 1
  MaxTimeGap = 2
  BenchmarkDuration = 3
  SharedObjects = TRUE
  U64 = 256
INVARIANTS CountersBalance ReportBalances SamplesMatchDivisor SampleWithinTotals
