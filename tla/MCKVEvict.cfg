SPECIFICATION Spec
CONSTANTS
  Requests = {r1, r2, r3}
  Blocks = {b1, b2, b3, b4}
  NumChips = 3
  NumShards = 2
  KvBlockTokens = 2
  PromptLens = {1, 9}
INVARIANT EvictsBeforeRaising
