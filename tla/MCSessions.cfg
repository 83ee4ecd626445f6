SPECIFICATION FairSpec
CONSTANTS
  AgentModes = {FALSE, TRUE}
  MaxRequests = 4
  MaxSessions = 2
  NoSession = NoSession
  PromptLens = {2}
  DeltaPrompt = 2
  OutputLen = 2
  Turns = 2
  NumChips = 4
  NumShards = 1
  KvBlockTokens = 2
  Capacity = 18
  MaxPrefilling = 2
  MaxPrefillTokens = 4
  MinDecodeBatch = 2
  MaxDecodeBatch = 2
  MaxDrain = 2
INVARIANTS
  KVAccounted
  TurnsAccounted
PROPERTY Terminates
