SPECIFICATION ComputeSpec
CONSTANTS
  NumSlots = 3
  NoEntry = NoEntry
  Window = 2
  AddrSpace = 4
  Hidden = 2
  Latent = 1
  HiddenBeats = 2
  InterBeats = 3
  DrainCycles = 16
  PipeStages = 5
  Experts = 3
  TopK = 2
  RouterPairs = 2
  NormCycles = 5
  AttnCycles = {1, 4}
  LayTokens = {0, 1}
  NoToken = NoToken
  ScoreTables <- MCScoreTables
  ScoreLimit = 2000000
  SelLimit = 2
  LocalExperts = {0, 1}
  RowsOut = 3
  CellRows = 2
  GemmBeats = 2
  GemmTokens = {0, 1}
  SweepMax = 33000
  SweepStep = 1000
  AccWidth = 6
  Tags = {t1, t2}
  Indices = {i1, i2}
  NoHash = NoHash
  Heads = 2
  Vocab = 3
  Dots = {1, 2}
  MaxBatch = 3
  BatchMin = 2
  TimeoutCycles = 3
  Layers = 2
  MaxTokens = 5
  Reqs = {1, 2, 3}
  PromptOf <- MCPromptOf
  OutLen = 2
  TokenCap = 2
  AdmitCap = 4
  DecodeCap = 2
  MaxInFlight = 3
  ChunkSize = 2
  BufferSlots = 4
  MaxPrompt = 9
  MaxDecode = 10
  IterReqs = {1, 2, 3, 4}
  IterPrompt <- MCIterPrompt
  IterOut <- MCIterOut
  SeqCap = 2
  StepCap = 4
  Groups = {1, 2}
  GroupPrompt <- MCGroupPrompt
  GroupCached <- MCGroupCached
  CpuChunk = 2
  MaxSubmits = 2
  MaxStarts = 2
  Servers = {1, 2}
  NoServer = 0
  MaxSessions = 1
  Visits = {1, 2, 3, 4, 5}
  SessionOf <- MCSessionOf
  V2Hidden = 3
  V2Inter = 2
  V2TopK = 2
  V2LoadSizes = {2, 4, 3, 8}
  V2Burst = 4
  V2Latency = 1
  MacLimit = 8
  CntLimit = 16
  GvCycles = 3
  GvRows = 2
  GvDepth = 2
  GvStages = 3
  RowBeats = 2
  RowLimit = 4
  FloatExps = {0, 1, 4, 5, 6, 7, 8, 9, 10, 12, 14, 16, 18, 19}
  RefExperts = {0, 1, 2}
  RefTops = {2, 3}
  MaxCalls = 5
  RefSlots = 3
  RefWindow = 2
  RefGlobal = 1
  RefTokens = 5
  RefScores = {1, 2, 5}
VIEW ComputeView
INVARIANTS
  LayerCorrect
  ProductsWhole
  NumbersAgree
  PathCorrect
  SchedulersAgree
  PrefillsWhole
PROPERTIES
  AttentionCorrect
  IsALayerBox
  LookupsAnswered
  WaitersServed
