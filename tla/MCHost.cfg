SPECIFICATION HostSpec
CONSTANTS
  Requests = {r1, r2, r3}
  Blocks = {b1, b2, b3, b4}
  NumChips = 3
  NumShards = 2
  KvBlockTokens = 2
  PromptLens = {1, 9}
  NumLayers = 5
  NumPreload = 2
  MaxLoads = 6
  FileOf <- MCFileOf
  Cards = 2
  CardChips = 2
  PlLayers = 7
  PlExperts = 4
  ShortChips = {1}
  ShareTables <- MCShareTables
  HotReplicas = 3
  ChipBudget = 2
  Clones = {1,2,4}
  LayerMb = 3
  ExpertMb = 2
  ReserveMb = 10
  HbmMb = 27
  BlockCap = 3
  MaxAllocs = 5
  SelTopK = 2
  Work <- MCWork
  ExpertLoad = 40
  KvLen = 3
  TokenCounts = {1,3,5,8}
  ChunkLens = {2,3,4,8}
  HeadExperts = 2
  FillK = 3
  TokenTime = 30
  Draws = 1
  HotCounts = {1, 2, 3}
  HotCopies = {1, 2, 4}
  FrontTime = 50
  HybridCosts <- MCHybridCosts
  ServerTps = 60
  FillDepth = 5
  KvRoom = 40
  SzContexts = {1, 2, 4, 8, 30}
  SzTargets = {3, 7, 20, 61}
  Demands = {1, 7, 20, 50}
  Bursts = {10, 13, 25}
  Fleets = {1, 2, 4, 5, 8, 9, 10, 18, 19, 32, 81, 100}
  SzPrompts = {1, 2, 4, 5, 8, 33}
  FillTime = 31
  SlaPrefill = 2
  LayerTime = 19
  ForwardMin = 2
  ModelLayers = 61
  ModelExperts = 384
  FillWork <- MCFillWork
  Rivals <- MCRivals
  Platforms <- MCPlatforms
  WindowTokens = 4
  StExperts = {1, 2, 3}
  StTopK = 2
  StTables <- MCStTables
  StBatches = {1, 2}
  StContexts = {2}
  StLayers = 2
  StCost <- MCStCost
  StBlock = 2
  StBlocks = 3
  Packages = {p1, p2}
  MaxGenerator = 2
  Files = {f1, f2, f3}
SYMMETRY Symmetry
VIEW HostView
INVARIANTS
  Bookkeeping
  Isolation
  LockStep
  WeightsPlaced
  EstimatesHold
PROPERTIES
  RaisingTakesNothing
  LeakOnlyByPrefillAgain
  RefinesPool
