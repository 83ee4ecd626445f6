SPECIFICATION MoversSpec
CONSTANTS
  HostEntries = 3
  Slots = 2
  Beats = 2
  CountLimit = 3
  WaitsForSwap = TRUE
  NoJob = NoJob
  BeatWords = 2
  HostWords = 4
  HbmWords = 4
  NoWord = NoWord
  NumSlots = 3
  NoEntry = NoEntry
  PreBeats = 2
  PreEntries = 3
  NoBeat = NoBeat
  ReadLatency = 1
  Reads <- MCReads
  MaxLen = 1
  BQueueDepth = 2
  WordPairs = 2
  BurstWords = 2
  BurstCounts = {2}
  WtAddrs = {1}
VIEW MoversView
INVARIANTS
  ReadyMeansCopied
  PreloaderCorrect
  WriterCorrect
PROPERTIES
  ReadBankStable
  OnlyTheJob
  TransferEnds
  EngineCorrect
  ReadsCorrect
  WritesCorrect
