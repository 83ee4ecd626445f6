SPECIFICATION Spec
CONSTANTS
  AgentModes = {FALSE}
  MaxRequests = 2
  MaxSessions = 2
  NoSession = NoSession
  PromptLens = {2}
  DeltaPrompt = 2
  OutputLen = 3
  Turns = 2
  NumChips = 4
  NumShards = 1
  KvBlockTokens = 2
  Capacity = 16
  MaxPrefilling = 2
  MaxPrefillTokens = 4
  MinDecodeBatch = 1
  MaxDecodeBatch = 2
  MaxDrain = 2
INVARIANT DrainFinishesActive
