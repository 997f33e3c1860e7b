SPECIFICATION Spec
CONSTANTS
  MaxBlocks = 2
  MaxTicks = 3
  MaxTests = 2
  WarmUp = 2
  CpuUsages = {0, 1, 2}
  Word = 2
INVARIANTS
  ExtremesBoundSamples
  MaximumIsShown
  CpuInOrder
  OnlySamplingLosesBlocks
