SPECIFICATION PathSpec
CONSTANTS
  MaxBatch = 6
  BatchMin = 2
  TimeoutCycles = 3
  Layers = 2
  MaxTokens = 5
INVARIANT DispatchesThem
